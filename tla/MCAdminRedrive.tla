--------------------------- MODULE MCAdminRedrive ---------------------------
(* Instances of AdminRedrive, the worker with the operator beside it, for  *)
(* TLC: one order, two worker processes.                                   *)
EXTENDS AdminRedrive, TLC

CONSTANTS o1, k1, p1, p2, s1, s2

OneKey == [o \in Orders |-> k1]
TwoProcesses == [s \in Slots |-> IF s = s1 THEN p1 ELSE p2]

\* A terminal's status and a worker status, the two kinds the endpoints accept.
SomeStatuses == {"CANCELLED", "SAVED"}

\* Worker processes are interchangeable together with their executions.
WorkerSymmetry ==
    {f \in Permutations(Procs \cup Slots) :
        \A s \in Slots : f[s] \in Slots /\ f[ProcOf[s]] = ProcOf[f[s]]}

=============================================================================
