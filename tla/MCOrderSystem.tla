--------------------------- MODULE MCOrderSystem ---------------------------
(* Instances of OrderSystem for TLC: requests of one key.                 *)
EXTENDS OrderSystem, TLC

CONSTANTS o1, o2, k1, p1, p2, s1, s2

OneKey == [o \in Orders |-> k1]
TwoProcesses == [s \in Slots |-> IF s = s1 THEN p1 ELSE p2]

\* Worker processes are interchangeable together with their executions.
WorkerSymmetry ==
    {f \in Permutations(Procs \cup Slots) :
        \A s \in Slots : f[s] \in Slots /\ f[ProcOf[s]] = ProcOf[f[s]]}

\* So are requests of one key.
Symmetry == WorkerSymmetry \cup Permutations(Orders)

=============================================================================
