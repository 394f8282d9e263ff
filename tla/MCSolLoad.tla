----------------------------- MODULE MCSolLoad -----------------------------
(***************************************************************************)
(* Values of the constants of SolLoad for TLC.                             *)
(***************************************************************************)
EXTENDS SolLoad, TLC

\* The names of modules are interchangeable.
Names == Permutations(Modules)
=============================================================================
