-------------------------- MODULE MCStoreDirectory --------------------------
(* An instance of StoreDirectory for TLC.                                  *)
EXTENDS StoreDirectory, TLC

CONSTANTS p1, p2, d1

OneAddress == [a \in Areas |-> {d1}]
Symmetry == Permutations(Pages)

=============================================================================
