------------------------- MODULE OrderStateMachine -------------------------
(***************************************************************************)
(* The order status vocabulary and the transition maps of                  *)
(* order-state-machine.ts.  Statuses keep the names of the source.         *)
(***************************************************************************)

\* The statuses the state machine knows.
WorkerStatus == {"QUEUED", "SAVED", "SENT_TO_POS", "COMPLETED", "FAILED"}

\* Further statuses the orders table accepts; only the POS terminals set them.
PosStatus == {"ACCEPTED", "COOKING", "DONE", "CANCELLED"}

Status == WorkerStatus \cup PosStatus

\* Marks an order that has no row yet, and the missing "from" of a first log line.
Absent == "ABSENT"

AllowedTransitions ==
    [QUEUED      |-> {"SAVED", "FAILED"},
     SAVED       |-> {"SENT_TO_POS", "FAILED"},
     SENT_TO_POS |-> {"COMPLETED"},
     COMPLETED   |-> {},
     FAILED      |-> {}]

\* validate() without the redrive option, the only way it is ever called.
\* A status outside the map makes the lookup undefined and the call throw a
\* TypeError, so such a transition is refused just the same.
Validate(current, next) ==
    /\ current \in DOMAIN AllowedTransitions
    /\ next \in AllowedTransitions[current]

=============================================================================
