---------------------------- MODULE OrderLedger ----------------------------
(***************************************************************************)
(* What the order store promises, whatever the queue, the lock service and *)
(* the workers go through: one row per idempotency key; statuses that move *)
(* along the state machine's map and are logged; a row that is handed to   *)
(* the store's POS at most once and is recorded as sent only after the POS *)
(* has accepted it; and, beside all that, statuses the POS terminals       *)
(* overwrite without leaving a trace in the log.                           *)
(***************************************************************************)
EXTENDS Naturals, Sequences, OrderStateMachine

CONSTANTS Orders, KeyOf   \* order ids, and the idempotency key of each

VARIABLES
    status,     \* status[o]   : the row's status, or Absent
    log,        \* log[o]      : the audit lines <<from, to>> of the row
    submitted,  \* submitted[o]: how often the row was handed to the POS
    accepted    \* accepted[o] : the POS took the order

ledgerVars == <<status, log, submitted, accepted>>

LedgerInit ==
    /\ status = [o \in Orders |-> Absent]
    /\ log = [o \in Orders |-> <<>>]
    /\ submitted = [o \in Orders |-> 0]
    /\ accepted = [o \in Orders |-> FALSE]

\* The first row of an idempotency key.
Create(o) ==
    /\ \A q \in Orders : KeyOf[q] = KeyOf[o] => status[q] = Absent
    /\ status' = [status EXCEPT ![o] = "QUEUED"]
    /\ log' = [log EXCEPT ![o] = Append(@, <<Absent, "QUEUED">>)]
    /\ UNCHANGED <<submitted, accepted>>

\* A logged move along the map; the POS-side statuses need the POS's consent.
Advance(o, to) ==
    /\ Validate(status[o], to)
    /\ to \in {"SENT_TO_POS", "COMPLETED"} => accepted[o]
    /\ status' = [status EXCEPT ![o] = to]
    /\ log' = [log EXCEPT ![o] = Append(@, <<status[o], to>>)]
    /\ UNCHANGED <<submitted, accepted>>

\* The one submission to the POS, of an order that has been logged as SAVED; the
\* answer may be lost on the way back.
Submit(o) ==
    /\ \E i \in DOMAIN log[o] : log[o][i][2] = "SAVED"
    /\ submitted[o] = 0
    /\ submitted' = [submitted EXCEPT ![o] = 1]
    /\ \E ok \in BOOLEAN : accepted' = [accepted EXCEPT ![o] = ok]
    /\ UNCHANGED <<status, log>>

\* A terminal overwrites the status of a row; nothing is logged.
Override(o, to) ==
    /\ status[o] # Absent
    /\ status' = [status EXCEPT ![o] = to]
    /\ UNCHANGED <<log, submitted, accepted>>

LedgerNext ==
    \E o \in Orders :
        \/ Create(o)
        \/ Submit(o)
        \/ \E to \in Status : Advance(o, to) \/ Override(o, to)

LedgerSpec == LedgerInit /\ [][LedgerNext]_ledgerVars

=============================================================================
