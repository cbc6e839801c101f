-------------------------- MODULE StoreDeskProofs --------------------------
(***************************************************************************)
(* Proofs about StoreDesk, for any number of orders, terminals and PATCH   *)
(* requests and any clock: what polling terminals miss, that no worker     *)
(* takes a sale out of a report, and what customers are shown.             *)
(***************************************************************************)
EXTENDS StoreDesk, TLAPS

\* A row has a creation time; the times of rows and of UPDATEs are in order.
TimeInv ==
    /\ \A o \in Orders : created[o] <= now /\ updated[o] <= now
    /\ \A o \in Orders : RowExists(o) => created[o] >= 1
    /\ \A o \in Orders : updated[o] # 0 => RowExists(o)
    /\ \A a \in Patches : patch[a] # Idle =>
          /\ a \notin done
          /\ patch[a].at <= now
          /\ patch[a].found => RowExists(patch[a].order) /\ created[patch[a].order] <= patch[a].at

\* What the queries that have run say of the orders no terminal has touched since:
\* one in the totals still counts as sold, a cancelled one still is.
ReportInv ==
    \A o \in Orders \ report.patched :
        /\ report.step \in {"cancels", "byDate"} /\ o \in report.sold =>
              o \in SoldBetween(report.from, report.until)
        /\ report.step = "byDate" /\ o \in report.cancelled =>
              status[o] = "CANCELLED" /\ o \notin report.sold
        /\ report.step = "done" =>
              /\ o \in report.sold => o \in report.dated
              /\ o \in report.cancelled => o \notin report.sold \cup report.dated

DeskInv == TypeOK /\ TimeInv /\ PollsMissOnlyOverlaps /\ ReportInv

-----------------------------------------------------------------------------
(* Types.                                                                  *)

LEMMA InitDesk == DeskInit => DeskInv
<1> SUFFICES ASSUME DeskInit PROVE DeskInv
  OBVIOUS
<1>1. report = NoReport /\ report.step = "idle"
  BY DEF DeskInit, NoReport
<1>2. NoReport \in Report
  BY DeskAssumption DEF NoReport, Report, Time
<1>3. TypeOK
  BY <1>2, DeskAssumption DEF DeskInit, LedgerInit, TypeOK, Time
<1>4. TimeInv
  BY DEF DeskInit, LedgerInit, TimeInv, RowExists
<1>5. PollsMissOnlyOverlaps
  BY DEF DeskInit, PollsMissOnlyOverlaps
<1>6. ReportInv
  BY <1>1 DEF ReportInv
<1> QED
  BY <1>3, <1>4, <1>5, <1>6 DEF DeskInv

\* An order a terminal changes is noted while a report is under way.
LEMMA NotePatchType ==
    ASSUME TypeOK, NEW o \in Orders, NotePatch(o) PROVE report' \in Report
BY DEF TypeOK, NotePatch, Report

LEMMA CreateRowTypes == ASSUME DeskInv, NEW o \in Orders, CreateRow(o) PROVE TypeOK'
<1>1. /\ status' = [status EXCEPT ![o] = "QUEUED"] /\ created' = [created EXCEPT ![o] = now]
      /\ status[o] = Absent
      /\ UNCHANGED <<now, updated, announced, rooms, inbox, patch, done, since, unseen,
                     overlapped, reports>>
  BY DEF CreateRow, Create, sockets, patchVars, polls, sales
<1>2. report' \in Report
  BY DEF CreateRow, sales, DeskInv, TypeOK
<1>3. "QUEUED" \in Status /\ now \in Time
  BY DeskAssumption DEF Status, WorkerStatus, DeskInv, TypeOK, Time
<1>4. /\ status' \in [Orders -> Status \cup {Absent}] /\ created' \in [Orders -> Time]
  BY <1>1, <1>3 DEF DeskInv, TypeOK
<1>5. updated[o] = 0
  BY <1>1 DEF DeskInv, TimeInv, RowExists
<1>6. \A q \in Orders : updated'[q] # 0 => created'[q] \in 1 .. updated'[q]
  BY <1>1, <1>5 DEF DeskInv, TypeOK
<1> QED
  BY <1>1, <1>2, <1>4, <1>6 DEF DeskInv, TypeOK

LEMMA AdvanceRowTypes ==
    ASSUME DeskInv, NEW o \in Orders, NEW to \in Status, AdvanceRow(o, to) PROVE TypeOK'
<1>1. /\ status' = [status EXCEPT ![o] = to]
      /\ UNCHANGED <<now, created, updated, announced, rooms, inbox, patch, done, since, unseen,
                     overlapped, reports>>
  BY DEF AdvanceRow, Advance, rowTimes, sockets, patchVars, polls, sales
<1>2. report' \in Report
  BY DEF AdvanceRow, sales, DeskInv, TypeOK
<1> QED
  BY <1>1, <1>2 DEF DeskInv, TypeOK

LEMMA FinishPatchTypes == ASSUME DeskInv, NEW a \in Patches, FinishPatch(a) PROVE TypeOK'
<1> DEFINE p == patch[a]
<1>1. p \in Update /\ p.order \in Orders /\ p.to \in Status /\ p.at \in Time
  BY DeskAssumption DEF FinishPatch, DeskInv, TypeOK, Update
<1>2. /\ inbox' = [t \in Terminals |-> IF UndefinedRoom \in rooms[t]
                      THEN inbox[t] \cup {<<"order_updated", p.order>>} ELSE inbox[t]]
      /\ patch' = [patch EXCEPT ![a] = Idle] /\ done' = done \cup {a}
      /\ UNCHANGED <<now, announced, rooms, since, reports>>
  BY DEF FinishPatch, Emit
<1>3. inbox' \in [Terminals -> SUBSET ({"new_order", "order_updated"} \X Orders)]
  BY <1>1, <1>2 DEF DeskInv, TypeOK
<1>4. /\ status' \in [Orders -> Status \cup {Absent}] /\ created' \in [Orders -> Time]
      /\ updated' \in [Orders -> Time] /\ report' \in Report
      /\ unseen' \in [Terminals -> SUBSET Orders] /\ overlapped' \in [Terminals -> SUBSET Orders]
      /\ \A o \in Orders : updated'[o] # 0 => created'[o] \in 1 .. updated'[o]
  <2>1. CASE ~p.found /\ UNCHANGED <<ledgerVars, rowTimes, unseen, overlapped, report>>
    BY <2>1 DEF ledgerVars, rowTimes, DeskInv, TypeOK
  <2>2. CASE /\ p.found /\ SetRow(p.order, p.to, p.at)
             /\ unseen' = [t \in Terminals |-> unseen[t] \cup {p.order}]
             /\ overlapped' = [t \in Terminals |->
                   IF p.at <= since[t] THEN overlapped[t] \cup {p.order} ELSE overlapped[t]]
             /\ NotePatch(p.order)
    <3>1. report' \in Report
      BY <1>1, <2>2, NotePatchType DEF DeskInv
    <3>2. /\ status' = [status EXCEPT ![p.order] = p.to]
          /\ updated' = [updated EXCEPT ![p.order] = p.at] /\ created' = created
      BY <2>2 DEF SetRow, Override
    <3>3. created[p.order] \in 1 .. p.at
      <4>1. created[p.order] <= p.at /\ created[p.order] >= 1 /\ created[p.order] \in Time
        BY <1>1, <2>2 DEF FinishPatch, DeskInv, TimeInv, TypeOK
      <4> QED
        BY <4>1, <1>1, DeskAssumption DEF Time
    <3>4. /\ status' \in [Orders -> Status \cup {Absent}] /\ updated' \in [Orders -> Time]
          /\ created' \in [Orders -> Time]
      BY <1>1, <3>2 DEF DeskInv, TypeOK
    <3>5. \A o \in Orders : updated'[o] # 0 => created'[o] \in 1 .. updated'[o]
      BY <1>1, <3>2, <3>3 DEF DeskInv, TypeOK
    <3>6. unseen' \in [Terminals -> SUBSET Orders] /\ overlapped' \in [Terminals -> SUBSET Orders]
      BY <1>1, <2>2 DEF DeskInv, TypeOK
    <3> QED
      BY <3>1, <3>4, <3>5, <3>6
  <2> QED
    BY <2>1, <2>2 DEF FinishPatch
<1>5. patch' \in [Patches -> Update \cup {Idle}] /\ done' \subseteq Patches
  BY <1>2 DEF DeskInv, TypeOK
<1> QED
  BY <1>2, <1>3, <1>4, <1>5 DEF DeskInv, TypeOK

LEMMA StartPatchTypes ==
    ASSUME DeskInv, NEW a \in Patches, NEW o \in Orders, NEW to \in DeskStatuses, StartPatch(a, o, to)
    PROVE  TypeOK'
<1>1. /\ patch' = [patch EXCEPT ![a] = [order |-> o, to |-> to, at |-> now, found |-> RowExists(o)]]
      /\ UNCHANGED <<status, now, created, updated, announced, rooms, inbox, done, since, unseen,
                     overlapped, report, reports>>
  BY DEF StartPatch, ledgerVars, rowTimes, sockets, polls, sales
<1>2. now \in Time
  BY DeskAssumption DEF DeskInv, TypeOK, Time
<1>3. [order |-> o, to |-> to, at |-> now, found |-> RowExists(o)] \in Update
  BY <1>2 DEF Update, RowExists
<1>4. patch' \in [Patches -> Update \cup {Idle}]
  BY <1>1, <1>3 DEF DeskInv, TypeOK
<1> QED
  BY <1>1, <1>4 DEF DeskInv, TypeOK

LEMMA RoomTypes ==
    ASSUME DeskInv, (\E o \in Orders : EmitNewOrder(o))
                    \/ \E t \in Terminals : JoinStoreRoom(t) \/ HandleDisconnect(t)
    PROVE  TypeOK'
<1>1. UNCHANGED <<status, now, created, updated, patch, done, since, unseen, overlapped,
                  report, reports>>
  BY DEF EmitNewOrder, JoinStoreRoom, HandleDisconnect, ledgerVars, rowTimes, patchVars, polls, sales
<1>2. announced' \subseteq Orders /\ rooms' \in [Terminals -> SUBSET {StoreRoom, UndefinedRoom}]
  <2>1. ASSUME NEW o \in Orders, EmitNewOrder(o)
        PROVE  announced' \subseteq Orders /\ rooms' = rooms
    BY <2>1 DEF EmitNewOrder, DeskInv, TypeOK
  <2>2. ASSUME NEW t \in Terminals, JoinStoreRoom(t) \/ HandleDisconnect(t)
        PROVE  announced' = announced /\ rooms' \in [Terminals -> SUBSET {StoreRoom, UndefinedRoom}]
    BY <2>2, DeskAssumption DEF JoinStoreRoom, HandleDisconnect, DeskInv, TypeOK
  <2> QED
    BY <2>1, <2>2 DEF DeskInv, TypeOK
<1>3. inbox' \in [Terminals -> SUBSET ({"new_order", "order_updated"} \X Orders)]
  BY DEF EmitNewOrder, Emit, JoinStoreRoom, HandleDisconnect, DeskInv, TypeOK
<1> QED
  BY <1>1, <1>2, <1>3 DEF DeskInv, TypeOK

LEMMA PollTypes ==
    ASSUME DeskInv, NEW t \in Terminals,
           GetMissedOrders(t) \/ \E from, until : GetOrdersByDate(t, from, until)
    PROVE  TypeOK'
<1>1. UNCHANGED <<status, now, created, updated, announced, rooms, inbox, patch, done,
                  report, reports>>
  BY DEF GetMissedOrders, GetOrdersByDate, ledgerVars, rowTimes, sockets, patchVars, sales
<1>2. unseen' \in [Terminals -> SUBSET Orders] /\ overlapped' \in [Terminals -> SUBSET Orders]
  BY DEF GetMissedOrders, GetOrdersByDate, Sent, DeskInv, TypeOK
<1>3. since' \in [Terminals -> Time]
  BY DeskAssumption DEF GetMissedOrders, GetOrdersByDate, DeskInv, TypeOK, Time
<1> QED
  BY <1>1, <1>2, <1>3 DEF DeskInv, TypeOK

LEMMA ReportTypes ==
    ASSUME DeskInv,
           (\E from, until \in 1 .. now : GetSales(from, until))
               \/ QueryTotals \/ QueryCancels \/ QueryByDate
    PROVE  TypeOK'
<1>1. UNCHANGED <<status, now, created, updated, announced, rooms, inbox, patch, done, since,
                  unseen, overlapped>>
  BY DEF GetSales, QueryTotals, QueryCancels, QueryByDate, ReportStep,
         ledgerVars, rowTimes, sockets, patchVars, polls
<1>2. report' \in Report /\ reports' \in 0 .. MaxReports
  <2>1. ASSUME NEW from \in 1 .. now, NEW until \in 1 .. now, GetSales(from, until)
        PROVE report' \in Report /\ reports' \in 0 .. MaxReports
    <3>1. from \in Time /\ until \in Time
      BY DeskAssumption DEF DeskInv, TypeOK, Time
    <3>2. report' \in Report
      BY <2>1, <3>1 DEF GetSales, NoReport, Report
    <3>3. reports \in 0 .. MaxReports /\ reports < MaxReports /\ reports' = reports + 1
      BY <2>1 DEF GetSales, DeskInv, TypeOK
    <3>4. reports' \in 0 .. MaxReports
      BY <3>3, DeskAssumption
    <3> QED
      BY <3>2, <3>4
  <2>2. \A from, until : SoldBetween(from, until) \subseteq Orders /\ Created(from, until) \subseteq Orders
    BY DEF SoldBetween, Created
  <2>3. CASE QueryTotals
    BY <2>2, <2>3 DEF QueryTotals, ReportStep, DeskInv, TypeOK, Report
  <2>4. CASE QueryCancels
    BY <2>2, <2>4 DEF QueryCancels, ReportStep, DeskInv, TypeOK, Report
  <2>5. CASE QueryByDate
    BY <2>2, <2>5 DEF QueryByDate, ReportStep, DeskInv, TypeOK, Report
  <2> QED
    BY <2>1, <2>3, <2>4, <2>5
<1> QED
  BY <1>1, <1>2 DEF DeskInv, TypeOK

LEMMA QuietTypes ==
    ASSUME DeskInv, Tick \/ (\E o \in Orders : SubmitRow(o)) \/ UNCHANGED vars PROVE TypeOK'
<1>1. UNCHANGED <<status, created, updated, announced, rooms, inbox, patch, done, since,
                  unseen, overlapped, report, reports>>
  BY DEF Tick, SubmitRow, Submit, vars, ledgerVars, rowTimes, sockets, patchVars, polls, sales
<1>2. now' \in 1 .. MaxTime
  BY DeskAssumption DEF Tick, SubmitRow, vars, DeskInv, TypeOK
<1> QED
  BY <1>1, <1>2 DEF DeskInv, TypeOK

LEMMA NextTypes == DeskInv /\ [DeskNext]_vars => TypeOK'
<1> SUFFICES ASSUME DeskInv, [DeskNext]_vars PROVE TypeOK'
  OBVIOUS
<1>1. ASSUME NEW o \in Orders, WorkerStep(o) \/ EmitNewOrder(o) PROVE TypeOK'
  BY <1>1, CreateRowTypes, AdvanceRowTypes, QuietTypes, RoomTypes DEF WorkerStep
<1>2. ASSUME NEW t \in Terminals,
             \/ JoinStoreRoom(t) \/ HandleDisconnect(t) \/ GetMissedOrders(t) \/ GetOrders(t)
             \/ \E from, until \in 1 .. now : GetOrdersByDate(t, from, until)
      PROVE TypeOK'
  BY <1>2, RoomTypes, PollTypes DEF GetOrders
<1>3. ASSUME NEW a \in Patches,
             FinishPatch(a) \/ \E o \in Orders, to \in DeskStatuses : StartPatch(a, o, to)
      PROVE TypeOK'
  BY <1>3, FinishPatchTypes, StartPatchTypes
<1> QED
  BY <1>1, <1>2, <1>3, ReportTypes, QuietTypes DEF DeskNext

-----------------------------------------------------------------------------
(* Times.                                                                  *)

\* Steps that leave rows, clock and PATCH requests alone leave TimeInv alone.
LEMMA SameTimes ==
    ASSUME TimeInv, UNCHANGED <<status, now, created, updated, patch, done>> PROVE TimeInv'
BY DEF TimeInv, RowExists

LEMMA AbsentIsNoStatus == Absent \notin Status
BY DEF Absent, Status, WorkerStatus, PosStatus

LEMMA TickTimes == ASSUME DeskInv, Tick PROVE TimeInv'
<1>1. now' = now + 1 /\ UNCHANGED <<status, created, updated, patch, done>>
  BY DEF Tick, ledgerVars, rowTimes, patchVars
<1>2. now \in Nat /\ \A o \in Orders : created[o] \in Nat /\ updated[o] \in Nat
  BY DeskAssumption DEF DeskInv, TypeOK, Time
<1>3. \A a \in Patches : patch[a] # Idle => patch[a].at \in Nat
  BY DeskAssumption DEF DeskInv, TypeOK, Update, Time
<1>4. \A o \in Orders : created'[o] <= now' /\ updated'[o] <= now'
  BY <1>1, <1>2 DEF DeskInv, TimeInv
<1>5. \A a \in Patches : patch'[a] # Idle => patch'[a].at <= now'
  BY <1>1, <1>2, <1>3 DEF DeskInv, TimeInv
<1> QED
  BY <1>1, <1>4, <1>5 DEF DeskInv, TimeInv, RowExists

LEMMA CreateRowTimes == ASSUME DeskInv, NEW o \in Orders, CreateRow(o) PROVE TimeInv'
<1>1. /\ status' = [status EXCEPT ![o] = "QUEUED"] /\ created' = [created EXCEPT ![o] = now]
      /\ status[o] = Absent /\ UNCHANGED <<now, updated, patch, done>>
  BY DEF CreateRow, Create, patchVars
<1>2. now \in Nat /\ now >= 1 /\ now <= now
  BY DeskAssumption DEF DeskInv, TypeOK
<1>3. /\ status'[o] # Absent /\ created'[o] = now
      /\ \A q \in Orders : q # o => status'[q] = status[q] /\ created'[q] = created[q]
  BY <1>1 DEF DeskInv, TypeOK, Absent
<1>4. \A a \in Patches : patch[a] # Idle /\ patch[a].found => patch[a].order # o
  BY <1>1 DEF DeskInv, TimeInv, RowExists
<1>5. \A a \in Patches : patch[a] # Idle => patch[a].order \in Orders
  BY DEF DeskInv, TypeOK, Update
<1> QED
  BY <1>1, <1>2, <1>3, <1>4, <1>5 DEF DeskInv, TimeInv, RowExists

\* Overwriting the status of a row that is there.
LEMMA MoveTimes ==
    ASSUME DeskInv, NEW o \in Orders, NEW to \in Status, RowExists(o),
           status' = [status EXCEPT ![o] = to], UNCHANGED <<now, created>>
    PROVE  /\ \A q \in Orders : RowExists(q)' <=> RowExists(q)
           /\ \A q \in Orders : created'[q] <= now' /\ (RowExists(q)' => created'[q] >= 1)
<1>1. status'[o] # Absent /\ \A q \in Orders : q # o => status'[q] = status[q]
  BY AbsentIsNoStatus DEF DeskInv, TypeOK
<1>2. \A q \in Orders : RowExists(q)' <=> RowExists(q)
  BY <1>1 DEF RowExists
<1> QED
  BY <1>2 DEF DeskInv, TimeInv

LEMMA AdvanceRowTimes ==
    ASSUME DeskInv, NEW o \in Orders, NEW to \in Status, AdvanceRow(o, to) PROVE TimeInv'
<1>1. /\ status' = [status EXCEPT ![o] = to] /\ UNCHANGED <<now, created, updated, patch, done>>
      /\ status[o] \in DOMAIN AllowedTransitions
  BY DEF AdvanceRow, Advance, Validate, rowTimes, patchVars
<1>2. RowExists(o)
  BY <1>1 DEF RowExists, AllowedTransitions, Absent
<1>3. \A q \in Orders : RowExists(q)' <=> RowExists(q)
  BY <1>1, <1>2, MoveTimes
<1>4. \A a \in Patches : patch[a] # Idle => patch[a].order \in Orders
  BY DEF DeskInv, TypeOK, Update
<1> QED
  BY <1>1, <1>3, <1>4 DEF DeskInv, TimeInv

LEMMA StartPatchTimes ==
    ASSUME DeskInv, NEW a \in Patches, NEW o \in Orders, NEW to \in DeskStatuses, StartPatch(a, o, to)
    PROVE  TimeInv'
<1>1. /\ patch' = [patch EXCEPT ![a] = [order |-> o, to |-> to, at |-> now, found |-> RowExists(o)]]
      /\ a \notin done /\ UNCHANGED <<status, now, created, updated, done>>
  BY DEF StartPatch, ledgerVars, rowTimes
<1>2. now <= now
  BY DeskAssumption DEF DeskInv, TypeOK
<1>3. /\ patch'[a] = [order |-> o, to |-> to, at |-> now, found |-> RowExists(o)]
      /\ \A b \in Patches : b # a => patch'[b] = patch[b]
  BY <1>1 DEF DeskInv, TypeOK
<1>4. /\ patch'[a].at = now /\ patch'[a].order = o /\ patch'[a].found = RowExists(o)
  BY <1>3
<1>5. created[o] <= now
  BY DEF DeskInv, TimeInv
<1>6. \A q \in Orders : RowExists(q)' <=> RowExists(q)
  BY <1>1 DEF RowExists
<1>7. \A b \in Patches : patch[b] # Idle => patch[b].order \in Orders
  BY DEF DeskInv, TypeOK, Update
<1>8. \A b \in Patches : patch'[b] # Idle =>
          /\ b \notin done'
          /\ patch'[b].at <= now'
          /\ patch'[b].found =>
                status'[patch'[b].order] # Absent /\ created'[patch'[b].order] <= patch'[b].at
  <2> SUFFICES ASSUME NEW b \in Patches, patch'[b] # Idle
               PROVE  /\ b \notin done'
                      /\ patch'[b].at <= now'
                      /\ patch'[b].found => /\ status'[patch'[b].order] # Absent
                                            /\ created'[patch'[b].order] <= patch'[b].at
    OBVIOUS
  <2>1. CASE b = a
    BY <1>1, <1>2, <1>4, <1>5, <2>1 DEF RowExists
  <2>2. CASE b # a
    BY <1>1, <1>3, <2>2 DEF DeskInv, TimeInv, RowExists
  <2> QED
    BY <2>1, <2>2
<1> QED
  BY <1>1, <1>6, <1>8 DEF DeskInv, TimeInv, RowExists

LEMMA FinishPatchTimes == ASSUME DeskInv, NEW a \in Patches, FinishPatch(a) PROVE TimeInv'
<1>1. PICK p : p = patch[a]
  OBVIOUS
<1>2. /\ p \in Update /\ p.order \in Orders /\ p.to \in Status /\ p.at <= now
      /\ p.found => RowExists(p.order)
  BY <1>1, DeskAssumption DEF FinishPatch, DeskInv, TypeOK, TimeInv, Update
<1>3. /\ patch' = [patch EXCEPT ![a] = Idle] /\ done' = done \cup {a} /\ now' = now
      /\ created' = created
  BY DEF FinishPatch, SetRow, rowTimes
<1>4. patch'[a] = Idle /\ \A b \in Patches : b # a => patch'[b] = patch[b]
  BY <1>3 DEF DeskInv, TypeOK
<1>5. \A b \in Patches : patch[b] # Idle => patch[b].order \in Orders
  BY DEF DeskInv, TypeOK, Update
<1>6. /\ \A q \in Orders : RowExists(q)' <=> RowExists(q)
      /\ \A q \in Orders : updated'[q] <= now' /\ (updated'[q] # 0 => RowExists(q)')
  <2>1. CASE ~p.found /\ UNCHANGED <<ledgerVars, rowTimes>>
    BY <1>3, <2>1 DEF ledgerVars, rowTimes, DeskInv, TimeInv, RowExists
  <2>2. CASE p.found /\ SetRow(p.order, p.to, p.at)
    <3>1. /\ status' = [status EXCEPT ![p.order] = p.to]
          /\ updated' = [updated EXCEPT ![p.order] = p.at]
      BY <2>2 DEF SetRow, Override
    <3>2. \A q \in Orders : RowExists(q)' <=> RowExists(q)
      BY <1>2, <1>3, <2>2, <3>1, MoveTimes
    <3>3. updated'[p.order] = p.at /\ \A q \in Orders : q # p.order => updated'[q] = updated[q]
      BY <1>2, <3>1 DEF DeskInv, TypeOK
    <3> QED
      BY <1>2, <1>3, <2>2, <3>2, <3>3 DEF DeskInv, TimeInv
  <2> QED
    BY <1>1, <2>1, <2>2 DEF FinishPatch
<1> QED
  BY <1>3, <1>4, <1>5, <1>6 DEF DeskInv, TimeInv

LEMMA NextTimes == DeskInv /\ [DeskNext]_vars => TimeInv'
<1> SUFFICES ASSUME DeskInv, [DeskNext]_vars PROVE TimeInv'
  OBVIOUS
<1> USE DEF ledgerVars, rowTimes, patchVars
<1>1. ASSUME NEW o \in Orders, WorkerStep(o) \/ EmitNewOrder(o) PROVE TimeInv'
  <2>1. CASE SubmitRow(o) \/ EmitNewOrder(o)
    BY <2>1, SameTimes DEF SubmitRow, Submit, EmitNewOrder, DeskInv
  <2> QED
    BY <1>1, <2>1, CreateRowTimes, AdvanceRowTimes DEF WorkerStep
<1>2. ASSUME NEW t \in Terminals,
             \/ JoinStoreRoom(t) \/ HandleDisconnect(t) \/ GetMissedOrders(t) \/ GetOrders(t)
             \/ \E from, until \in 1 .. now : GetOrdersByDate(t, from, until)
      PROVE TimeInv'
  BY <1>2, SameTimes
     DEF JoinStoreRoom, HandleDisconnect, GetMissedOrders, GetOrders, GetOrdersByDate, DeskInv
<1>3. ASSUME NEW a \in Patches,
             FinishPatch(a) \/ \E o \in Orders, to \in DeskStatuses : StartPatch(a, o, to)
      PROVE TimeInv'
  BY <1>3, FinishPatchTimes, StartPatchTimes
<1>4. CASE (\E from, until \in 1 .. now : GetSales(from, until))
           \/ QueryTotals \/ QueryCancels \/ QueryByDate
  BY <1>4, SameTimes DEF GetSales, QueryTotals, QueryCancels, QueryByDate, ReportStep, DeskInv
<1>5. CASE UNCHANGED vars
  BY <1>5, SameTimes DEF vars, DeskInv
<1> QED
  BY <1>1, <1>2, <1>3, <1>4, <1>5, TickTimes DEF DeskNext

-----------------------------------------------------------------------------
(* What polling misses.                                                    *)

LEMMA SamePolls ==
    ASSUME PollsMissOnlyOverlaps, UNCHANGED <<updated, since, unseen, overlapped>>
    PROVE  PollsMissOnlyOverlaps'
BY DEF PollsMissOnlyOverlaps

\* A poll moves since to now and is sent what changed after the previous one; what
\* stays unseen was overlapped before.
LEMMA MissedOrdersPolls ==
    ASSUME DeskInv, NEW t \in Terminals, GetMissedOrders(t) PROVE PollsMissOnlyOverlaps'
<1>1. PICK sent : sent = Missed(since[t])
  OBVIOUS
<1>2. /\ since' = [since EXCEPT ![t] = now] /\ updated' = updated
      /\ unseen' = [unseen EXCEPT ![t] = @ \ sent]
      /\ overlapped' = [overlapped EXCEPT ![t] = @ \ sent]
  BY <1>1 DEF GetMissedOrders, Sent, rowTimes
<1>3. /\ unseen'[t] = unseen[t] \ sent /\ overlapped'[t] = overlapped[t] \ sent
      /\ \A u \in Terminals : u # t => /\ unseen'[u] = unseen[u] /\ overlapped'[u] = overlapped[u]
                                       /\ since'[u] = since[u]
  BY <1>2 DEF DeskInv, TypeOK
<1>4. \A o \in unseen[t] : o \in Orders
  BY DEF DeskInv, TypeOK
<1>5. \A o \in unseen[t] \ sent : o \in overlapped[t] \ sent
  BY <1>1, <1>4 DEF Missed, DeskInv, PollsMissOnlyOverlaps
<1> QED
  BY <1>2, <1>3, <1>5 DEF DeskInv, PollsMissOnlyOverlaps

LEMMA OrdersByDatePolls ==
    ASSUME DeskInv, NEW t \in Terminals, NEW from, NEW until, GetOrdersByDate(t, from, until)
    PROVE  PollsMissOnlyOverlaps'
<1>1. PICK sent : sent = Created(from, until)
  OBVIOUS
<1>2. /\ since' = since /\ updated' = updated
      /\ unseen' = [unseen EXCEPT ![t] = @ \ sent]
      /\ overlapped' = [overlapped EXCEPT ![t] = @ \ sent]
  BY <1>1 DEF GetOrdersByDate, Sent, rowTimes
<1>3. /\ unseen'[t] = unseen[t] \ sent /\ overlapped'[t] = overlapped[t] \ sent
      /\ \A u \in Terminals : u # t => unseen'[u] = unseen[u] /\ overlapped'[u] = overlapped[u]
  BY <1>2 DEF DeskInv, TypeOK
<1> QED
  BY <1>2, <1>3 DEF DeskInv, PollsMissOnlyOverlaps

\* A PATCH that is committed is either later than the terminal's last poll or
\* recorded as having overlapped it.
LEMMA FinishPatchPolls ==
    ASSUME DeskInv, NEW a \in Patches, FinishPatch(a) PROVE PollsMissOnlyOverlaps'
<1>1. PICK p : p = patch[a]
  OBVIOUS
<1>2. p.order \in Orders /\ p.at \in Time /\ since' = since
  BY <1>1 DEF FinishPatch, DeskInv, TypeOK, Update
<1>3. CASE ~p.found /\ UNCHANGED <<ledgerVars, rowTimes, unseen, overlapped, report>>
  BY <1>2, <1>3, SamePolls DEF rowTimes, DeskInv
<1>4. CASE /\ SetRow(p.order, p.to, p.at)
           /\ unseen' = [t \in Terminals |-> unseen[t] \cup {p.order}]
           /\ overlapped' = [t \in Terminals |->
                 IF p.at <= since[t] THEN overlapped[t] \cup {p.order} ELSE overlapped[t]]
  <2>1. updated'[p.order] = p.at /\ \A q \in Orders : q # p.order => updated'[q] = updated[q]
    BY <1>2, <1>4 DEF SetRow, DeskInv, TypeOK
  <2> SUFFICES ASSUME NEW t \in Terminals, NEW o \in unseen'[t]
               PROVE  updated'[o] > since'[t] \/ o \in overlapped'[t]
    BY DEF PollsMissOnlyOverlaps
  <2>2. since[t] \in Time
    BY DEF DeskInv, TypeOK
  <2>3. CASE o = p.order
    <3>1. p.at <= since[t] \/ p.at > since[t]
      BY <1>2, <2>2, DeskAssumption DEF Time
    <3> QED
      BY <1>2, <1>4, <2>1, <2>3, <3>1
  <2>4. CASE o # p.order
    <3>1. o \in unseen[t] /\ o \in Orders
      BY <1>4, <2>4 DEF DeskInv, TypeOK
    <3>2. updated[o] > since[t] \/ o \in overlapped[t]
      BY <3>1 DEF DeskInv, PollsMissOnlyOverlaps
    <3> QED
      BY <1>2, <1>4, <2>1, <2>4, <3>1, <3>2
  <2> QED
    BY <2>3, <2>4
<1> QED
  BY <1>1, <1>3, <1>4 DEF FinishPatch

LEMMA NextPolls == DeskInv /\ [DeskNext]_vars => PollsMissOnlyOverlaps'
<1> SUFFICES ASSUME DeskInv, [DeskNext]_vars PROVE PollsMissOnlyOverlaps'
  OBVIOUS
<1> USE DEF rowTimes, polls
<1>1. ASSUME NEW o \in Orders, WorkerStep(o) \/ EmitNewOrder(o) PROVE PollsMissOnlyOverlaps'
  BY <1>1, SamePolls DEF WorkerStep, CreateRow, SubmitRow, AdvanceRow, EmitNewOrder, DeskInv
<1>2. ASSUME NEW t \in Terminals,
             \/ JoinStoreRoom(t) \/ HandleDisconnect(t) \/ GetMissedOrders(t) \/ GetOrders(t)
             \/ \E from, until \in 1 .. now : GetOrdersByDate(t, from, until)
      PROVE PollsMissOnlyOverlaps'
  <2>1. CASE JoinStoreRoom(t) \/ HandleDisconnect(t)
    BY <2>1, SamePolls DEF JoinStoreRoom, HandleDisconnect, DeskInv
  <2> QED
    BY <1>2, <2>1, MissedOrdersPolls, OrdersByDatePolls DEF GetOrders
<1>3. ASSUME NEW a \in Patches,
             FinishPatch(a) \/ \E o \in Orders, to \in DeskStatuses : StartPatch(a, o, to)
      PROVE PollsMissOnlyOverlaps'
  BY <1>3, FinishPatchPolls, SamePolls DEF StartPatch, DeskInv
<1>4. CASE \/ \E from, until \in 1 .. now : GetSales(from, until)
           \/ QueryTotals \/ QueryCancels \/ QueryByDate
  BY <1>4, SamePolls DEF GetSales, QueryTotals, QueryCancels, QueryByDate, ReportStep, DeskInv
<1>5. CASE Tick \/ UNCHANGED vars
  BY <1>5, SamePolls DEF Tick, vars, DeskInv
<1> QED
  BY <1>1, <1>2, <1>3, <1>4, <1>5 DEF DeskNext

-----------------------------------------------------------------------------
(* The sales report.                                                       *)

LEMMA SameReport ==
    ASSUME ReportInv, UNCHANGED <<status, created, report>> PROVE ReportInv'
BY DEF ReportInv, SoldBetween, Created, RowExists

\* Only the order a terminal changes can lose its place in the report, and it is noted.
LEMMA NotedPatch ==
    ASSUME DeskInv, NEW o \in Orders, NotePatch(o),
           \A q \in Orders : q # o => status'[q] = status[q] /\ created'[q] = created[q]
    PROVE  ReportInv'
<1>1. CASE report.step \in {"idle", "done"}
  <2>1. report' = report
    BY <1>1 DEF NotePatch
  <2> QED
    BY <1>1, <2>1 DEF DeskInv, ReportInv
<1>2. CASE report.step \notin {"idle", "done"}
  <2>1. report' = [report EXCEPT !.patched = @ \cup {o}]
    BY <1>2 DEF NotePatch
  <2>2. /\ report'.step = report.step /\ report'.from = report.from /\ report'.until = report.until
        /\ report'.sold = report.sold /\ report'.cancelled = report.cancelled
        /\ report'.dated = report.dated /\ report'.patched = report.patched \cup {o}
    BY <2>1 DEF DeskInv, TypeOK, Report
  <2>3. \A q \in Orders : \A from, until : q # o =>
            (q \in SoldBetween(from, until)' <=> q \in SoldBetween(from, until))
    BY DEF SoldBetween, Created, RowExists
  <2> QED
    BY <1>2, <2>2, <2>3 DEF DeskInv, ReportInv
<1> QED
  BY <1>1, <1>2

\* The workers' map leads from a status that counts as sold only to another one, and
\* from CANCELLED nowhere.
LEMMA WorkersKeepSales ==
    ASSUME DeskInv, NEW o \in Orders, CreateRow(o) \/ \E to \in Status : AdvanceRow(o, to)
    PROVE  /\ \A q \in Orders : \A from, until :
                 q \in SoldBetween(from, until) => q \in SoldBetween(from, until)'
           /\ \A q \in Orders : status[q] = "CANCELLED" => status'[q] = "CANCELLED"
           /\ report' = report
<1>1. CASE CreateRow(o)
  <2>1. /\ status[o] = Absent /\ report' = report
        /\ \A q \in Orders : q # o => status'[q] = status[q] /\ created'[q] = created[q]
    BY <1>1 DEF CreateRow, Create, sales, DeskInv, TypeOK
  <2> QED
    BY <2>1 DEF SoldBetween, Created, RowExists, Absent
<1>2. ASSUME NEW to \in Status, AdvanceRow(o, to)
      PROVE  /\ \A q \in Orders : \A from, until :
                   q \in SoldBetween(from, until) => q \in SoldBetween(from, until)'
             /\ \A q \in Orders : status[q] = "CANCELLED" => status'[q] = "CANCELLED"
             /\ report' = report
  <2>1. /\ Validate(status[o], to) /\ created' = created /\ report' = report
        /\ status' = [status EXCEPT ![o] = to]
    BY <1>2 DEF AdvanceRow, Advance, rowTimes, sales
  <2>2. /\ status[o] # "CANCELLED"
        /\ CountsAsSold(status[o]) => CountsAsSold(to)
    BY <2>1 DEF Validate, AllowedTransitions, CountsAsSold
  <2>3. \A q \in Orders : /\ CountsAsSold(status[q]) => CountsAsSold(status'[q])
                          /\ status[q] = "CANCELLED" => status'[q] = "CANCELLED"
                          /\ RowExists(q) => RowExists(q)'
    BY <2>1, <2>2 DEF DeskInv, TypeOK, RowExists, Absent, Status, WorkerStatus, PosStatus
  <2> QED
    BY <2>1, <2>3 DEF SoldBetween, Created
<1> QED
  BY <1>1, <1>2

\* A report that has just begun has counted nothing.
LEMMA NewReport == ASSUME DeskInv, NEW from, NEW until, GetSales(from, until) PROVE ReportInv'
<1>1. report'.step = "totals"
  BY DEF GetSales, NoReport
<1> QED
  BY <1>1 DEF ReportInv

\* Each query finds what the rows say when it runs.
LEMMA QueriesReport == ASSUME DeskInv, QueryTotals \/ QueryCancels \/ QueryByDate PROVE ReportInv'
<1>1. UNCHANGED <<status, created>>
  BY DEF QueryTotals, QueryCancels, QueryByDate, ReportStep, ledgerVars, rowTimes
<1>2. \A q, from, until : q \in SoldBetween(from, until)' <=> q \in SoldBetween(from, until)
  BY <1>1 DEF SoldBetween, Created, RowExists
<1>3. CASE QueryTotals
  <2>1. /\ report'.step = "cancels" /\ report'.sold = SoldBetween(report.from, report.until)
        /\ report'.from = report.from /\ report'.until = report.until
    BY <1>3 DEF QueryTotals, ReportStep, DeskInv, TypeOK, Report
  <2> QED
    BY <1>2, <2>1 DEF ReportInv
<1>4. CASE QueryCancels
  <2>1. /\ report.step = "cancels" /\ report'.step = "byDate" /\ report'.sold = report.sold
        /\ report'.cancelled =
              {o \in Created(report.from, report.until) \cap Charged : status[o] = "CANCELLED"}
        /\ report'.from = report.from /\ report'.until = report.until
        /\ report'.patched = report.patched
    BY <1>4 DEF QueryCancels, ReportStep, DeskInv, TypeOK, Report
  <2>2. \A o \in SoldBetween(report.from, report.until) : o \notin report'.cancelled
    BY <2>1 DEF SoldBetween, CountsAsSold
  <2>3. \A o \in report'.cancelled : status'[o] = "CANCELLED"
    BY <1>1, <2>1
  <2> QED
    BY <1>2, <2>1, <2>2, <2>3 DEF DeskInv, ReportInv
<1>5. CASE QueryByDate
  <2>1. /\ report.step = "byDate" /\ report'.step = "done" /\ report'.sold = report.sold
        /\ report'.cancelled = report.cancelled
        /\ report'.dated = SoldBetween(report.from, report.until)
        /\ report'.patched = report.patched
    BY <1>5 DEF QueryByDate, ReportStep, DeskInv, TypeOK, Report
  <2>2. \A o \in SoldBetween(report.from, report.until) : status[o] # "CANCELLED"
    BY DEF SoldBetween, CountsAsSold
  <2> QED
    BY <2>1, <2>2 DEF DeskInv, ReportInv
<1> QED
  BY <1>3, <1>4, <1>5

LEMMA FinishPatchReport == ASSUME DeskInv, NEW a \in Patches, FinishPatch(a) PROVE ReportInv'
<1>1. PICK p : p = patch[a]
  OBVIOUS
<1>2. p.order \in Orders
  BY <1>1 DEF FinishPatch, DeskInv, TypeOK, Update
<1>3. CASE ~p.found /\ UNCHANGED <<ledgerVars, rowTimes, unseen, overlapped, report>>
  BY <1>3, SameReport DEF ledgerVars, rowTimes, DeskInv
<1>4. CASE SetRow(p.order, p.to, p.at) /\ NotePatch(p.order)
  <2>1. \A q \in Orders : q # p.order => status'[q] = status[q] /\ created'[q] = created[q]
    BY <1>2, <1>4 DEF SetRow, Override, DeskInv, TypeOK
  <2> QED
    BY <1>2, <1>4, <2>1, NotedPatch
<1> QED
  BY <1>1, <1>3, <1>4 DEF FinishPatch

LEMMA NextReport == DeskInv /\ [DeskNext]_vars => ReportInv'
<1> SUFFICES ASSUME DeskInv, [DeskNext]_vars PROVE ReportInv'
  OBVIOUS
<1> USE DEF ledgerVars, rowTimes, sales
<1>1. ASSUME NEW o \in Orders, WorkerStep(o) \/ EmitNewOrder(o) PROVE ReportInv'
  <2>1. CASE SubmitRow(o) \/ EmitNewOrder(o)
    BY <2>1, SameReport DEF SubmitRow, Submit, EmitNewOrder, DeskInv
  <2>2. CASE CreateRow(o) \/ \E to \in Status : AdvanceRow(o, to)
    <3>1. /\ \A q \in Orders : \A from, until :
                q \in SoldBetween(from, until) => q \in SoldBetween(from, until)'
          /\ \A q \in Orders : status[q] = "CANCELLED" => status'[q] = "CANCELLED"
          /\ report' = report
      BY <2>2, WorkersKeepSales
    <3> QED
      BY <3>1 DEF DeskInv, ReportInv
  <2> QED
    BY <1>1, <2>1, <2>2 DEF WorkerStep
<1>2. ASSUME NEW t \in Terminals,
             \/ JoinStoreRoom(t) \/ HandleDisconnect(t) \/ GetMissedOrders(t) \/ GetOrders(t)
             \/ \E from, until \in 1 .. now : GetOrdersByDate(t, from, until)
      PROVE ReportInv'
  BY <1>2, SameReport
     DEF JoinStoreRoom, HandleDisconnect, GetMissedOrders, GetOrders, GetOrdersByDate, DeskInv
<1>3. ASSUME NEW a \in Patches,
             FinishPatch(a) \/ \E o \in Orders, to \in DeskStatuses : StartPatch(a, o, to)
      PROVE ReportInv'
  BY <1>3, FinishPatchReport, SameReport DEF StartPatch, DeskInv
<1>4. CASE Tick \/ UNCHANGED vars
  BY <1>4, SameReport DEF Tick, vars, DeskInv
<1> QED
  BY <1>1, <1>2, <1>3, <1>4, NewReport, QueriesReport DEF DeskNext

-----------------------------------------------------------------------------
(* The theorems.                                                           *)

\* DeskInv is inductive: the initial states have it and every step keeps it.
THEOREM DeskInvHolds == DeskSpec => []DeskInv
<1>1. DeskInv /\ [DeskNext]_vars => DeskInv'
  BY NextTypes, NextTimes, NextPolls, NextReport DEF DeskInv
<1> QED
  BY <1>1, InitDesk, PTL DEF DeskSpec

\* The store's rows, sockets, requests and reports have the types the code gives
\* them, and no row was updated before it was created.
THEOREM DeskTypeCorrect == DeskSpec => []TypeOK
<1>1. DeskInv => TypeOK
  BY DEF DeskInv
<1> QED
  BY <1>1, DeskInvHolds, PTL

\* GET /orders/missed with the time of the last poll sends a terminal every change
\* the terminals make, save those whose UPDATE overlapped that poll.
THEOREM OnlyOverlapsAreMissed == DeskSpec => []PollsMissOnlyOverlaps
<1>1. DeskInv => PollsMissOnlyOverlaps
  BY DEF DeskInv
<1> QED
  BY <1>1, DeskInvHolds, PTL

\* However workers and handlers move orders between the three queries of GET /sales,
\* what the totals count the days count, too, and nothing cancelled is among it,
\* save the orders a terminal changed meanwhile: the statuses that count as sold
\* are closed under the workers' map.
THEOREM WorkersTakeNoSaleBack == DeskSpec => []ReportKeepsSales
<1>1. DeskInv => ReportKeepsSales
  BY DEF DeskInv, ReportInv, ReportKeepsSales
<1> QED
  BY <1>1, DeskInvHolds, PTL

\* What mapStatus shows of the workers' statuses.
LEMMA ShownStatuses ==
    /\ MapStatus("QUEUED") = "PLACED" /\ MapStatus("SAVED") = "PLACED"
    /\ MapStatus("SENT_TO_POS") = "ACCEPTED" /\ MapStatus("COMPLETED") = "DONE"
    /\ MapStatus("FAILED") = "CANCELLED"
BY DEF MapStatus

\* A step of the workers takes no order back from what mapStatus showed of it.
LEMMA AdvanceShowsMore ==
    ASSUME NEW from, NEW to, Validate(from, to),
           NEW rank, rank = [PLACED |-> 1, ACCEPTED |-> 2, DONE |-> 3, CANCELLED |-> 3]
    PROVE  MapStatus(to) = MapStatus(from) \/ rank[MapStatus(to)] > rank[MapStatus(from)]
<1>1. rank["PLACED"] = 1 /\ rank["ACCEPTED"] = 2 /\ rank["DONE"] = 3 /\ rank["CANCELLED"] = 3
  OBVIOUS
<1>2. \/ from = "QUEUED" /\ to \in {"SAVED", "FAILED"}
      \/ from = "SAVED" /\ to \in {"SENT_TO_POS", "FAILED"}
      \/ from = "SENT_TO_POS" /\ to = "COMPLETED"
  BY DEF Validate, AllowedTransitions
<1> QED
  BY <1>1, <1>2, ShownStatuses

\* A row's status moves along the workers' map, or a PATCH request ends.
LEMMA StatusSteps ==
    ASSUME DeskInv, [DeskNext]_vars, NEW o \in Orders, RowExists(o), done' = done
    PROVE  status'[o] = status[o] \/ Validate(status[o], status'[o])
<1> USE DEF ledgerVars
<1>1. ASSUME NEW q \in Orders, WorkerStep(q) \/ EmitNewOrder(q)
      PROVE  status'[o] = status[o] \/ Validate(status[o], status'[o])
  <2>1. CASE SubmitRow(q) \/ EmitNewOrder(q)
    BY <2>1 DEF SubmitRow, Submit, EmitNewOrder
  <2>2. CASE CreateRow(q)
    <3>1. status[q] = Absent /\ status' = [status EXCEPT ![q] = "QUEUED"]
      BY <2>2 DEF CreateRow, Create
    <3> QED
      BY <3>1 DEF RowExists, DeskInv, TypeOK
  <2>3. ASSUME NEW to \in Status, AdvanceRow(q, to)
        PROVE  status'[o] = status[o] \/ Validate(status[o], status'[o])
    <3>1. Validate(status[q], to) /\ status' = [status EXCEPT ![q] = to]
      BY <2>3 DEF AdvanceRow, Advance
    <3> QED
      BY <3>1 DEF DeskInv, TypeOK
  <2> QED
    BY <1>1, <2>1, <2>2, <2>3 DEF WorkerStep
<1>2. ASSUME NEW t \in Terminals,
             \/ JoinStoreRoom(t) \/ HandleDisconnect(t) \/ GetMissedOrders(t) \/ GetOrders(t)
             \/ \E from, until \in 1 .. now : GetOrdersByDate(t, from, until)
      PROVE status'[o] = status[o]
  BY <1>2 DEF JoinStoreRoom, HandleDisconnect, GetMissedOrders, GetOrders, GetOrdersByDate
<1>3. ASSUME NEW a \in Patches,
             FinishPatch(a) \/ \E q \in Orders, to \in DeskStatuses : StartPatch(a, q, to)
      PROVE status'[o] = status[o]
  <2>1. ~FinishPatch(a)
    BY DEF FinishPatch, DeskInv, TimeInv
  <2> QED
    BY <1>3, <2>1 DEF StartPatch
<1>4. CASE \/ \E from, until \in 1 .. now : GetSales(from, until)
           \/ QueryTotals \/ QueryCancels \/ QueryByDate
  BY <1>4 DEF GetSales, QueryTotals, QueryCancels, QueryByDate, ReportStep
<1>5. CASE Tick \/ UNCHANGED vars
  BY <1>5 DEF Tick, vars
<1> QED
  BY <1>1, <1>2, <1>3, <1>4, <1>5 DEF DeskNext

\* Only an answered PATCH request shows a customer less than he has been told.
THEOREM CustomersAreNotSetBack == DeskSpec => CustomerNeverSetBack
<1>1. ASSUME DeskInv, [DeskNext]_vars, NEW o \in Orders, RowExists(o), done' = done,
             NEW rank, rank = [PLACED |-> 1, ACCEPTED |-> 2, DONE |-> 3, CANCELLED |-> 3]
      PROVE  \/ GetOrderStatus(o)' = GetOrderStatus(o)
             \/ rank[GetOrderStatus(o)'] > rank[GetOrderStatus(o)]
  BY <1>1, StatusSteps, AdvanceShowsMore DEF GetOrderStatus
<1>2. DeskInv /\ [DeskNext]_vars =>
        [\A o \in Orders : RowExists(o) /\ done' = done =>
          LET rank  == [PLACED |-> 1, ACCEPTED |-> 2, DONE |-> 3, CANCELLED |-> 3]
              shown == GetOrderStatus(o)
              next  == GetOrderStatus(o)'
          IN next = shown \/ rank[next] > rank[shown]]_vars
  BY <1>1
<1> QED
  BY <1>2, DeskInvHolds, PTL DEF DeskSpec, CustomerNeverSetBack

-----------------------------------------------------------------------------
(* The desk and the ledger it extends.                                     *)

\* The PATCH requests, lists, reports and sockets around the rows never do to them what
\* the ledger does not allow: an UPDATE that ends overwrites the status of a row that
\* was there when it began, and touches neither the log nor the dealings with the POS.
THEOREM DeskImplementsLedger == DeskSpec => LedgerSpec
<1>1. DeskInit => LedgerInit
  BY DEF DeskInit
<1>2. ASSUME DeskInv, [DeskNext]_vars PROVE [LedgerNext]_ledgerVars
  <2>1. ASSUME NEW o \in Orders, WorkerStep(o) \/ EmitNewOrder(o) PROVE [LedgerNext]_ledgerVars
    BY <2>1 DEF WorkerStep, CreateRow, SubmitRow, AdvanceRow, EmitNewOrder, LedgerNext
  <2>2. ASSUME NEW t \in Terminals,
               \/ JoinStoreRoom(t) \/ HandleDisconnect(t) \/ GetMissedOrders(t) \/ GetOrders(t)
               \/ \E from, until \in 1 .. now : GetOrdersByDate(t, from, until)
        PROVE  UNCHANGED ledgerVars
    BY <2>2 DEF JoinStoreRoom, HandleDisconnect, GetMissedOrders, GetOrders, GetOrdersByDate
  <2>3. ASSUME NEW a \in Patches, FinishPatch(a) PROVE [LedgerNext]_ledgerVars
    <3>1. patch[a] \in Update
      BY <1>2, <2>3 DEF FinishPatch, DeskInv, TypeOK
    <3>2. patch[a].order \in Orders /\ patch[a].to \in Status
      BY <3>1, DeskAssumption DEF Update
    <3>3. UNCHANGED ledgerVars \/ Override(patch[a].order, patch[a].to)
      BY <2>3 DEF FinishPatch, SetRow
    <3> QED
      BY <3>2, <3>3 DEF LedgerNext
  <2>4. ASSUME NEW a \in Patches, NEW o \in Orders, NEW to \in DeskStatuses, StartPatch(a, o, to)
        PROVE  UNCHANGED ledgerVars
    BY <2>4 DEF StartPatch
  <2>5. CASE \/ \E from, until \in 1 .. now : GetSales(from, until)
             \/ QueryTotals \/ QueryCancels \/ QueryByDate
    BY <2>5 DEF GetSales, QueryTotals, QueryCancels, QueryByDate, ReportStep
  <2>6. CASE Tick \/ UNCHANGED vars
    BY <2>6 DEF Tick, vars
  <2> QED
    BY <1>2, <2>1, <2>2, <2>3, <2>4, <2>5, <2>6 DEF DeskNext
<1> QED
  BY <1>1, <1>2, DeskInvHolds, PTL DEF DeskSpec, LedgerSpec

-----------------------------------------------------------------------------
(* Whom the events reach.                                                  *)

\* A terminal is sent the event of a status change only when its socket is in the
\* room of an undefined store id.
UpdatesGoAstray ==
    [][\A t \in Terminals : \A o \in Orders :
          <<"order_updated", o>> \in inbox'[t] /\ <<"order_updated", o>> \notin inbox[t]
              => UndefinedRoom \in rooms[t]]_vars

\* Whatever rooms terminals join and whenever, the order_updated event of a PATCH
\* reaches none that has only joined its store's: what desk_update shows for one order
\* and one terminal, for every instance.  Such terminals learn of each other's changes
\* by asking only.
THEOREM UpdatesMissTheStore == DeskSpec => UpdatesGoAstray
<1> DEFINE Astray == \A t \in Terminals : \A o \in Orders :
                <<"order_updated", o>> \in inbox'[t] /\ <<"order_updated", o>> \notin inbox[t]
                    => UndefinedRoom \in rooms[t]
<1>1. ASSUME DeskInv, [DeskNext]_vars PROVE Astray
  <2>1. ASSUME UNCHANGED inbox PROVE Astray
    BY <2>1
  <2>2. ASSUME NEW o \in Orders, EmitNewOrder(o) PROVE Astray
    BY <2>2 DEF EmitNewOrder, Emit
  <2>3. ASSUME NEW a \in Patches, FinishPatch(a) PROVE Astray
    <3>1. \A t \in Terminals : UndefinedRoom \notin rooms[t] => inbox'[t] = inbox[t]
      BY <2>3 DEF FinishPatch, Emit
    <3> QED
      BY <3>1
  <2>4. ASSUME NEW o \in Orders, WorkerStep(o) PROVE Astray
    BY <2>1, <2>4 DEF WorkerStep, CreateRow, SubmitRow, AdvanceRow, sockets
  <2>5. ASSUME NEW t \in Terminals,
               \/ JoinStoreRoom(t) \/ HandleDisconnect(t) \/ GetMissedOrders(t) \/ GetOrders(t)
               \/ \E from, until \in 1 .. now : GetOrdersByDate(t, from, until)
        PROVE  Astray
    BY <2>1, <2>5 DEF JoinStoreRoom, HandleDisconnect, GetMissedOrders, GetOrders, GetOrdersByDate, sockets
  <2>6. CASE \/ \E a \in Patches, o \in Orders, to \in DeskStatuses : StartPatch(a, o, to)
             \/ \E from, until \in 1 .. now : GetSales(from, until)
             \/ QueryTotals \/ QueryCancels \/ QueryByDate \/ Tick \/ UNCHANGED vars
    BY <2>1, <2>6
       DEF StartPatch, GetSales, QueryTotals, QueryCancels, QueryByDate, ReportStep, Tick, vars, sockets
  <2> QED
    BY <1>1, <2>2, <2>3, <2>4, <2>5, <2>6 DEF DeskNext
<1>2. DeskInv /\ [DeskNext]_vars => [Astray]_vars
  BY <1>1
<1> QED
  BY <1>2, DeskInvHolds, PTL DEF DeskSpec, UpdatesGoAstray

=============================================================================
