----------------------------- MODULE MCSolEvent -----------------------------
(***************************************************************************)
(* SolEvent for TLC: every constant is a set of model values or a bound,   *)
(* given in SolEvent.cfg.                                                  *)
(***************************************************************************)
EXTENDS SolEvent
=============================================================================
