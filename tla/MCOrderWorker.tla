--------------------------- MODULE MCOrderWorker ---------------------------
(* Instances of OrderWorker for TLC: one order.                            *)
EXTENDS OrderWorker, TLC

CONSTANTS o1, k1, p1, p2, s1, s2

OneKey == [o \in Orders |-> k1]

\* Two executions in one worker process / in two processes.
OneProcess == [s \in Slots |-> p1]
TwoProcesses == [s \in Slots |-> IF s = s1 THEN p1 ELSE p2]

=============================================================================
