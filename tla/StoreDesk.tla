----------------------------- MODULE StoreDesk -----------------------------
(***************************************************************************)
(* One store's orders as its POS terminals and its customers see them: the *)
(* store's room of the socket gateway, the PATCH endpoints with their      *)
(* answers and events, the order lists, the customer's status and the      *)
(* sales report.  Rows come and move as OrderLedger allows, which is what  *)
(* the workers have been shown to implement; here a terminal's override is *)
(* the UPDATE of a PATCH request.                                          *)
(*                                                                         *)
(* Time advances in ticks of the database clock.  NOW() is the moment an   *)
(* UPDATE starts; it may then wait for a worker's transaction.  The LIMITs *)
(* of the lists are far above the instances and are left out.              *)
(***************************************************************************)
EXTENDS OrderLedger, Integers, FiniteSets

CONSTANTS
    Terminals,     \* POS terminals of the store
    Patches,       \* PATCH requests
    JoinedRooms,   \* bound: the rooms sockets ask for
    DeskStatuses,  \* bound: the statuses they set (the table takes all nine)
    Idle,          \* a PATCH request that is not under way
    Charged,       \* orders with calculated_amount > 0; an empty cart costs nothing
    MaxTime,       \* bound: clock ticks
    MaxReports     \* bound: sales reports

\* Room names: the store's, and the one an undefined store id gives.
StoreRoom == "store"
UndefinedRoom == "store:undefined"

ASSUME DeskAssumption ==
    /\ JoinedRooms \subseteq {StoreRoom, UndefinedRoom}
    /\ DeskStatuses \subseteq Status
    /\ Charged \subseteq Orders
    /\ MaxTime \in Nat \ {0}
    /\ MaxReports \in Nat

VARIABLES
    now,        \* the clock, from 1
    created,    \* created[o]   : created_at; 0 without a row
    updated,    \* updated[o]   : updated_at; 0 is NULL
    announced,  \* orders whose new_order event was emitted
    rooms,      \* rooms[t]     : rooms the terminal's socket is in
    inbox,      \* inbox[t]     : events it received
    patch,      \* patch[a]     : the UPDATE under way, or Idle
    done,       \* PATCH requests that were answered
    since,      \* since[t]     : time of its last GET /orders/missed
    unseen,     \* unseen[t]    : orders a terminal changed since t was last sent them
    overlapped, \* overlapped[t]: those whose PATCH began before t last polled (history)
    report,     \* the sales report under way
    reports     \* reports so far

rowTimes == <<created, updated>>
sockets  == <<announced, rooms, inbox>>
patchVars == <<patch, done>>
polls    == <<since, unseen, overlapped>>
sales    == <<report, reports>>
vars == <<ledgerVars, now, rowTimes, sockets, patchVars, polls, sales>>

Time == 0 .. MaxTime
Update == [order : Orders, to : DeskStatuses, at : Time, found : BOOLEAN]
Report == [step : {"idle", "totals", "cancels", "byDate", "done"},
           from : Time, until : Time,
           sold : SUBSET Orders, cancelled : SUBSET Orders, dated : SUBSET Orders,
           patched : SUBSET Orders]

TypeOK ==
    /\ status \in [Orders -> Status \cup {Absent}]
    /\ now \in 1 .. MaxTime
    /\ created \in [Orders -> Time]
    /\ updated \in [Orders -> Time]
    /\ \A o \in Orders : updated[o] # 0 => created[o] \in 1 .. updated[o]
    /\ announced \subseteq Orders
    /\ rooms \in [Terminals -> SUBSET {StoreRoom, UndefinedRoom}]
    /\ inbox \in [Terminals -> SUBSET ({"new_order", "order_updated"} \X Orders)]
    /\ patch \in [Patches -> Update \cup {Idle}]
    /\ done \subseteq Patches
    /\ since \in [Terminals -> Time]
    /\ unseen \in [Terminals -> SUBSET Orders]
    /\ overlapped \in [Terminals -> SUBSET Orders]
    /\ report \in Report
    /\ reports \in 0 .. MaxReports

NoReport == [step |-> "idle", from |-> 0, until |-> 0,
             sold |-> {}, cancelled |-> {}, dated |-> {}, patched |-> {}]

DeskInit ==
    /\ LedgerInit
    /\ now = 1
    /\ created = [o \in Orders |-> 0]
    /\ updated = [o \in Orders |-> 0]
    /\ announced = {}
    /\ rooms = [t \in Terminals |-> {}]
    /\ inbox = [t \in Terminals |-> {}]
    /\ patch = [a \in Patches |-> Idle]
    /\ done = {}
    /\ since = [t \in Terminals |-> 0]
    /\ unseen = [t \in Terminals |-> {}]
    /\ overlapped = [t \in Terminals |-> {}]
    /\ report = NoReport
    /\ reports = 0

RowExists(o) == status[o] # Absent

\* While a report is put together, remember the orders a terminal changes (history).
NotePatch(o) ==
    report' = IF report.step \in {"idle", "done"} THEN report
              ELSE [report EXCEPT !.patched = @ \cup {o}]

Tick ==
    /\ now < MaxTime
    /\ now' = now + 1
    /\ UNCHANGED <<ledgerVars, rowTimes, sockets, patchVars, polls, sales>>

-----------------------------------------------------------------------------
(* The workers, as far as the rows are concerned.                          *)

\* The insert; created_at defaults to NOW() and updated_at to nothing.
CreateRow(o) ==
    /\ Create(o)
    /\ created' = [created EXCEPT ![o] = now]
    /\ UNCHANGED <<now, updated, sockets, patchVars, polls, sales>>

SubmitRow(o) ==
    /\ Submit(o)
    /\ UNCHANGED <<now, rowTimes, sockets, patchVars, polls, sales>>

\* transitionStatus sets the timestamp of its step and leaves updated_at alone.
AdvanceRow(o, to) ==
    /\ Advance(o, to)
    /\ UNCHANGED <<now, rowTimes, sockets, patchVars, polls, sales>>

-----------------------------------------------------------------------------
(* OrderGateway.                                                           *)

\* join_store and pos_hello take a socket into the room of any store id it sends, the
\* word undefined included.  Rooms of other stores get nothing of this one.
JoinStoreRoom(t) ==
    /\ \E room \in JoinedRooms : rooms' = [rooms EXCEPT ![t] = @ \cup {room}]
    /\ UNCHANGED <<ledgerVars, now, rowTimes, announced, inbox, patchVars, polls, sales>>

\* A socket that closes leaves its rooms; what is emitted meanwhile is not kept.
HandleDisconnect(t) ==
    /\ rooms' = [rooms EXCEPT ![t] = {}]
    /\ UNCHANGED <<ledgerVars, now, rowTimes, announced, inbox, patchVars, polls, sales>>

Emit(room, event) ==
    inbox' = [t \in Terminals |-> IF room \in rooms[t] THEN inbox[t] \cup {event} ELSE inbox[t]]

\* The intake announces the order when its job is published, row or no row.
EmitNewOrder(o) ==
    /\ o \notin announced
    /\ announced' = announced \cup {o}
    /\ Emit(StoreRoom, <<"new_order", o>>)
    /\ UNCHANGED <<ledgerVars, now, rowTimes, rooms, patchVars, polls, sales>>

-----------------------------------------------------------------------------
(* The two PATCH endpoints.                                                *)

\* Mutation of StartPatch: the rows are looked for when the UPDATE ends.
StartPatchLate(a, o, to) ==
    /\ a \notin done
    /\ patch[a] = Idle
    /\ patch' = [patch EXCEPT ![a] = [order |-> o, to |-> to, at |-> now, found |-> TRUE]]
    /\ UNCHANGED <<ledgerVars, now, rowTimes, sockets, done, polls, sales>>

\* The UPDATE starts and sees the rows there are by then.  updateStatus admits the
\* terminals' statuses only, updateOrderStatus what the table's CHECK admits.
StartPatch(a, o, to) ==
    /\ a \notin done
    /\ patch[a] = Idle
    /\ patch' = [patch EXCEPT ![a] =
          [order |-> o, to |-> to, at |-> now, found |-> RowExists(o)]]
    /\ UNCHANGED <<ledgerVars, now, rowTimes, sockets, done, polls, sales>>

\* What an UPDATE ... RETURNING resolves to: the rows, and how many there are.
UpdateResult(found) ==
    IF found THEN << <<[store_id |-> StoreRoom]>>, 1 >> ELSE << <<>>, 0 >>

\* Mutation of SetRow: updated_at is left to a default that does not exist.
SetRowUntimed(o, to, at) == Override(o, to) /\ UNCHANGED rowTimes

SetRow(o, to, at) ==
    /\ Override(o, to)
    /\ updated' = [updated EXCEPT ![o] = at]
    /\ UNCHANGED created

\* The UPDATE ends and the handler goes on with its result.  rows.length is never
\* zero, so there is no 404, and rows[0] is the list of rows, whose store_id is
\* undefined: that is the room the event goes to.
FinishPatch(a) ==
    /\ patch[a] # Idle
    /\ LET o == patch[a].order IN
       /\ Len(UpdateResult(patch[a].found)) # 0
       /\ \/ /\ patch[a].found
             /\ SetRow(o, patch[a].to, patch[a].at)
             /\ unseen' = [t \in Terminals |-> unseen[t] \cup {o}]
             /\ overlapped' = [t \in Terminals |->
                   IF patch[a].at <= since[t] THEN overlapped[t] \cup {o} ELSE overlapped[t]]
             /\ NotePatch(o)
          \/ ~patch[a].found /\ UNCHANGED <<ledgerVars, rowTimes, unseen, overlapped, report>>
       /\ Emit(UndefinedRoom, <<"order_updated", o>>)
    /\ patch' = [patch EXCEPT ![a] = Idle]
    /\ done' = done \cup {a}
    /\ UNCHANGED <<now, announced, rooms, since, reports>>

-----------------------------------------------------------------------------
(* What the terminals and the customer's app read.                         *)

\* updated_at > since; NULL is never greater.
Missed(from) == {o \in Orders : updated[o] > from}

\* Orders come to the terminal as they are now.
Sent(t, orders) ==
    /\ unseen' = [unseen EXCEPT ![t] = @ \ orders]
    /\ overlapped' = [overlapped EXCEPT ![t] = @ \ orders]

\* GET /orders/missed by a terminal that asks for what it missed since it last did.
GetMissedOrders(t) ==
    /\ since[t] < now
    /\ since' = [since EXCEPT ![t] = now]
    /\ Sent(t, Missed(since[t]))
    /\ UNCHANGED <<ledgerVars, now, rowTimes, sockets, patchVars, sales>>

\* Rows by created_at, both ends included.
Created(from, until) == {o \in Orders : RowExists(o) /\ created[o] \in from .. until}

GetOrdersByDate(t, from, until) ==
    /\ Sent(t, Created(from, until))
    /\ UNCHANGED <<ledgerVars, now, rowTimes, sockets, patchVars, since, sales>>

\* GET /orders: the last 24 hours, which is more than the ticks of an instance.
GetOrders(t) == GetOrdersByDate(t, 1, now)

\* Mutation of MapStatus: an order counts as accepted once it is in the queue.
MapStatusEarly(s) ==
    CASE s \in {"QUEUED", "SENT_TO_POS", "ACCEPTED", "COOKING"} -> "ACCEPTED"
      [] s = "SAVED" -> "PLACED"
      [] s \in {"COMPLETED", "DONE"} -> "DONE"
      [] s \in {"FAILED", "CANCELLED"} -> "CANCELLED"

\* mapStatus: what customers and terminals are shown of a status.
MapStatus(s) ==
    CASE s \in {"QUEUED", "SAVED"} -> "PLACED"
      [] s \in {"SENT_TO_POS", "ACCEPTED", "COOKING"} -> "ACCEPTED"
      [] s \in {"COMPLETED", "DONE"} -> "DONE"
      [] s \in {"FAILED", "CANCELLED"} -> "CANCELLED"

\* GET /order-status/:id, for an order with a row.
GetOrderStatus(o) == MapStatus(status[o])

-----------------------------------------------------------------------------
(* GET /sales: three queries, one after the other, in no transaction.      *)

\* Mutation of CountsAsSold: an order counts from its SAVED on.
CountsAsSoldEarly(s) == s \notin {"FAILED", "CANCELLED", "QUEUED"}

CountsAsSold(s) == s \notin {"FAILED", "CANCELLED", "QUEUED", "SAVED"}

SoldBetween(from, until) == {o \in Created(from, until) : CountsAsSold(status[o])}

ReportStep(step, field, orders) ==
    /\ report' = [report EXCEPT !.step = step, ![field] = orders]
    /\ UNCHANGED <<ledgerVars, now, rowTimes, sockets, patchVars, polls, reports>>

GetSales(from, until) ==
    /\ report.step \in {"idle", "done"}
    /\ reports < MaxReports
    /\ reports' = reports + 1
    /\ report' = [NoReport EXCEPT !.step = "totals", !.from = from, !.until = until]
    /\ UNCHANGED <<ledgerVars, now, rowTimes, sockets, patchVars, polls>>

QueryTotals ==
    report.step = "totals" /\ ReportStep("cancels", "sold", SoldBetween(report.from, report.until))

QueryCancels ==
    /\ report.step = "cancels"
    /\ ReportStep("byDate", "cancelled",
          {o \in Created(report.from, report.until) \cap Charged : status[o] = "CANCELLED"})

QueryByDate ==
    report.step = "byDate" /\ ReportStep("done", "dated", SoldBetween(report.from, report.until))

-----------------------------------------------------------------------------

WorkerStep(o) == CreateRow(o) \/ SubmitRow(o) \/ \E to \in Status : AdvanceRow(o, to)

DeskNext ==
    \/ Tick
    \/ \E o \in Orders : WorkerStep(o) \/ EmitNewOrder(o)
    \/ \E t \in Terminals :
          \/ JoinStoreRoom(t) \/ HandleDisconnect(t)
          \/ GetMissedOrders(t) \/ GetOrders(t)
          \/ \E from, until \in 1 .. now : GetOrdersByDate(t, from, until)
    \/ \E a \in Patches :
          FinishPatch(a) \/ \E o \in Orders, to \in DeskStatuses : StartPatch(a, o, to)
    \/ \E from, until \in 1 .. now : GetSales(from, until)
    \/ QueryTotals \/ QueryCancels \/ QueryByDate

DeskSpec == DeskInit /\ [][DeskNext]_vars

-----------------------------------------------------------------------------
(* Properties.                                                             *)

\* What the customer is shown moves from PLACED over ACCEPTED to an end and stays
\* there, unless a terminal changes the order: workers that complete, fail or are
\* late never take back what the customer has already been told.
CustomerNeverSetBack ==
    [][\A o \in Orders : RowExists(o) /\ done' = done =>
          LET rank  == [PLACED |-> 1, ACCEPTED |-> 2, DONE |-> 3, CANCELLED |-> 3]
              shown == GetOrderStatus(o)
              next  == GetOrderStatus(o)'
          IN next = shown \/ rank[next] > rank[shown]]_vars

\* A terminal that asks again and again for what it missed since it last asked is
\* sent every change a terminal made, unless the PATCH had started when it last
\* asked and was committed later: updated_at is then not later than the next since.
PollsMissOnlyOverlaps ==
    \A t \in Terminals : \A o \in unseen[t] :
        updated[o] > since[t] \/ o \in overlapped[t]

\* Workers and failure handlers that move an order between the three queries of a
\* sales report never take a sale back: an order in the totals is in the figures by
\* date as well, and one counted as cancelled is in neither, unless a terminal's
\* PATCH hit it in between.
ReportKeepsSales ==
    report.step = "done" =>
        \A o \in Orders \ report.patched :
            /\ o \in report.sold => o \in report.dated
            /\ o \in report.cancelled => o \notin report.sold \cup report.dated

-----------------------------------------------------------------------------
(* What a comment says and the code does not do.                           *)

\* order.gateway.ts: a status change is emitted to the store's terminals.
UpdateReachesStore ==
    [][\A a \in done' \ done, t \in Terminals :
          patch[a].found /\ StoreRoom \in rooms[t]
              => <<"order_updated", patch[a].order>> \in inbox'[t]]_vars

=============================================================================
