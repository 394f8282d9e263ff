----------------------------- MODULE MCSolToken -----------------------------
(***************************************************************************)
(* Values of the constants of SolToken for TLC.                            *)
(***************************************************************************)
EXTENDS SolToken, TLC

CONSTANTS x, u, tx, tu

\* Each token object is named for its identifier.
TokenIdents == (tx :> x) @@ (tu :> u)
MCIdentOf == [t \in Tokens |-> TokenIdents[t]]

\* The addresses of each kind are interchangeable.
Addresses == Permutations(Bindings) \cup Permutations(Funcs) \cup Permutations(Scopes)
=============================================================================
