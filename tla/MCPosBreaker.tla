---------------------------- MODULE MCPosBreaker ----------------------------
(* Instance of PosBreaker for TLC: executions that share one process.     *)
EXTENDS PosBreaker

CONSTANTS p1, s1, s2

OneProcess == [s \in Slots |-> p1]

=============================================================================
