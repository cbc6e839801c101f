---------------------------- MODULE OrderSystem ----------------------------
(***************************************************************************)
(* Both halves of the pipeline: OrderIntake beside OrderWorker.  A request *)
(* and the order it may create are one element of Orders, and what the     *)
(* intake publishes is what the worker's queue has been given: the two     *)
(* share nothing else.                                                     *)
(***************************************************************************)
EXTENDS OrderWorker

CONSTANT MaxApiFaults  \* bound: failures injected into the intake

ASSUME SystemAssumption == MaxApiFaults \in Nat

\* The state of OrderIntake, but for the published jobs.
VARIABLES rpc, answer, orderId, pending, response, disturbed, apiFaults

apiVars == <<rpc, answer, orderId, pending, response, disturbed, apiFaults>>
systemVars == <<vars, apiVars>>

\* The jobs in orders-main, finished ones included.
published == {o \in Orders : jobState[o] # "none"}

Intake == INSTANCE OrderIntake
          WITH Requests <- Orders, MaxFaults <- MaxApiFaults, faults <- apiFaults

SystemInit == Init /\ Intake!Init

\* A request moves on; the worker's side changes by the job it publishes, if any.
IntakeStep ==
    /\ UNCHANGED vars \/ \E o \in Orders : PublishOrder(o)
    /\ Intake!Next

\* Everything else leaves requests and the set of published jobs alone.
WorkerStep == Next /\ UNCHANGED published /\ UNCHANGED apiVars

SystemNext == IntakeStep \/ WorkerStep

SystemSpec == SystemInit /\ [][SystemNext]_systemVars

-----------------------------------------------------------------------------

\* The client was told 202.
Accepted(r) == rpc[r] = "answered" /\ answer[r] \in {"accepted", "replayed"}

\* The order waits in the queue or is being worked on.
OnItsWay(o) == jobState[o] \in {"wait", "active"} \/ \E s \in Slots : at[s] = o

\* A failed attempt of the order has been, or is being, handed to the operator.
HandedOver(o) ==
    \E n \in Attempts :
        hpc[<<o, n>>] \in {"read", "transition", "mark", "publish"} \/ dlq[<<o, n>>] # "none"

\* The process that was handling a failed attempt of the order died.
HandlerLost(o) == \E n \in Attempts : hpc[<<o, n>>] = "lost"

\* The id a client was given with 202 can be looked up once its job is through,
\* unless a failure or an expired TTL let a second order in under its key.  A
\* request that was turned away never turns up, in the table or at the POS.
AnsweredIdHasRow ==
    \A r \in Orders : rpc[r] = "answered" =>
        /\ Accepted(r) /\ KeyOf[r] \notin disturbed /\ jobState[orderId[r]] = "completed"
              => RowExists(orderId[r])
        /\ answer[r] \in {"invalid", "conflict", "refused"}
              => ~RowExists(r) /\ calls[r] = 0

\* An order a client was told 202 for is on its way, stored under its key, or in
\* the operator's hands.  README.md says that no order is lost; two cases stay open:
\* the process that was to hand the order over died, or the job was failed for
\* stalling, which at its first attempt leaves nothing anywhere.
AcceptedIsKept ==
    \A r \in Orders : Accepted(r) =>
        LET o == orderId[r] IN
        OnItsWay(o) \/ KeyTaken(o) \/ HandedOver(o) \/ HandlerLost(o)
            \/ stalledCount[o] > MaxStalledCount

=============================================================================
