---------------------------- MODULE MCStoreDesk ----------------------------
(* Instances of StoreDesk for TLC: orders under keys of their own.         *)
EXTENDS StoreDesk, TLC

CONSTANTS o1, a1, a2, t1

OwnKeys == [o \in Orders |-> o]
Symmetry == Permutations(Patches)

=============================================================================
