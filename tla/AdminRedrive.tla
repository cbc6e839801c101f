---------------------------- MODULE AdminRedrive ----------------------------
(***************************************************************************)
(* The operator's way back from the dead letter queue, beside the running  *)
(* worker: POST /admin/orders/:id/redrive (AdminService.redriveOrder).     *)
(* One operator redrives an order at a time; the two awaits before the job *)
(* is published are two steps, and workers, handlers and terminals may act *)
(* in between.                                                             *)
(***************************************************************************)
EXTENDS OrderWorker

VARIABLES
    apc,  \* apc[o]  : next await of redriveOrder(o)
    aver  \* aver[o] : the version it read

adminVars == <<apc, aver>>

RedriveInit ==
    /\ Init
    /\ apc = [o \in Orders |-> "idle"]
    /\ aver = [o \in Orders |-> 0]

\* findById; only a FAILED order goes on.  The 404 without a row and the 400 for any
\* other status leave everything as it is.
ReadForRedrive(o) ==
    /\ apc[o] = "idle"
    /\ status[o] = "FAILED"
    /\ apc' = [apc EXCEPT ![o] = "transition"]
    /\ aver' = [aver EXCEPT ![o] = version[o]]
    /\ UNCHANGED vars

\* transitionStatus(FAILED -> QUEUED), then publishOrder of job order-<o>, which the
\* queue still knows and ignores.  An error of the transition is answered with 500.
RedriveRow(o) ==
    /\ apc[o] = "transition"
    /\ IF Matches(o, "FAILED", "QUEUED", aver[o]) THEN MoveRow(o, "FAILED", "QUEUED")
                                                  ELSE UNCHANGED table
    /\ apc' = [apc EXCEPT ![o] = "idle"]
    /\ aver' = [aver EXCEPT ![o] = 0]
    /\ UNCHANGED <<queue, exec, lock, handlers, dlq, posVars, patches, faults>>

RedriveOrder(o) == ReadForRedrive(o) \/ RedriveRow(o)

\* What getDlqOrders answers, all pages together.
GetDlqOrders == {o \in Orders : Listed(o)}

RedriveNext ==
    \/ Next /\ UNCHANGED adminVars
    \/ \E o \in Orders : RedriveOrder(o)

RedriveSpec == RedriveInit /\ [][RedriveNext]_<<vars, adminVars>>

-----------------------------------------------------------------------------

\* Neither a terminal nor the operator's own redrive touches the order in this step.
LeftAlone(o) == patches'[o] = patches[o] /\ apc'[o] = apc[o]

\* An order that was given up stays given up unless a terminal or the operator says
\* otherwise: no execution that outlived its job's failure and no second handler
\* moves a FAILED row, so what the operator's DLQ list showed it keeps showing.
GivenUpForGood ==
    [][\A o \in Orders : LeftAlone(o) =>
          /\ status[o] = "FAILED" => status'[o] = "FAILED"
          /\ o \in GetDlqOrders => o \in GetDlqOrders']_<<vars, adminVars>>

-----------------------------------------------------------------------------
(* What the documents say and the code does not do.                        *)

\* README.md, docs/03-state-machine.md and the comment of order-state-machine.ts: the
\* operator's redrive takes a FAILED order back to QUEUED.  A redrive that finds the
\* order as it read it, FAILED and at the same version, does so.
RedriveRequeues ==
    [][\A o \in Orders :
          /\ apc[o] = "transition" /\ apc'[o] = "idle"
          /\ status[o] = "FAILED" /\ version[o] = aver[o]
          => status'[o] = "QUEUED"]_<<vars, adminVars>>

=============================================================================
