------------------------------ MODULE MCSolList ------------------------------
(***************************************************************************)
(* Values of the constants of SolList for TLC.                             *)
(***************************************************************************)
EXTENDS SolList, TLC

CONSTANTS l1, l2, n1, n2, n3, n4, n5, n6, a

\* The addresses of nodes are interchangeable, and so are those of lists.
Addresses == Permutations(Nodes) \cup Permutations(Lists)
=============================================================================
