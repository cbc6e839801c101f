--------------------------- MODULE MCOrderIntake ---------------------------
(* Instances of OrderIntake for TLC: up to four requests, three under one key.    *)
EXTENDS OrderIntake

CONSTANTS r1, r2, r3, r4, k1, k2

ThreeShareKey == [r \in Requests |-> IF r = r4 THEN k2 ELSE k1]

=============================================================================
