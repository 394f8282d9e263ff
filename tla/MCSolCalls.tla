----------------------------- MODULE MCSolCalls -----------------------------
(***************************************************************************)
(* Values of the constants of SolCalls for TLC.                            *)
(***************************************************************************)
EXTENDS SolCalls, TLC

CONSTANTS TypeError, f, m

\* The hierarchy of solerror.c, with one of the types that extend Error.
MCParent == (Error :> NULL) @@ (TypeError :> Error)
=============================================================================
