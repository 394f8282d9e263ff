------------------------------ MODULE MCSolObj ------------------------------
(***************************************************************************)
(* Values of the constants of SolObj for TLC.                              *)
(***************************************************************************)
EXTENDS SolObj, TLC

\* The addresses of objects are interchangeable.
Addresses == Permutations(Objs) \cup Permutations(Funcs)
=============================================================================
