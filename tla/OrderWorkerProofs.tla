------------------------- MODULE OrderWorkerProofs -------------------------
(* Proofs about OrderWorker, for every number of orders, keys, processes,  *)
(* executions, attempts, failures and PATCH calls.                         *)
EXTENDS OrderWorker, TLAPS

-----------------------------------------------------------------------------
(* Types.  That the attempt counter stays within its range rests on two    *)
(* facts about the queue: a job that can still run has an attempt left,    *)
(* and only an active job has an owner.                                    *)

SlotInv == \A s \in Slots : pc[s] # "idle" => at[s] \in Orders

JobInv ==
    \A o \in Orders :
        /\ jobState[o] \in {"none", "wait", "active"} => attemptsMade[o] < MaxAttempts
        /\ owner[o] # None => jobState[o] = "active"

TypeInv == TypeOK /\ SlotInv /\ JobInv

LEMMA InitTypeInv == Init => TypeInv
  BY WorkerAssumption, SMT DEF Init, TypeInv, TypeOK, QueueType, ExecType, TableType, HandlerType,
     RestType, LogLine, SlotInv, JobInv, Handlers, Attempts,
     Status, WorkerStatus, PosStatus, Absent, JobState, Pc, HandlerPc, Outcome

(* What the building blocks of the actions preserve.                       *)

LEMMA GotoType ==
  ASSUME ExecType, SlotInv, NEW s \in Slots, pc[s] # "idle", NEW l \in Pc, Goto(s, l) \/ ThrowTo(s, l)
  PROVE  ExecType' /\ SlotInv'
  BY DEF ExecType, SlotInv, Goto, ThrowTo, Outcome

LEMMA CreateRowType ==
  ASSUME TableType, NEW o \in Orders, CreateRow(o)
  PROVE  TableType'
<1>1. <<Absent, "QUEUED">> \in LogLine  BY DEF LogLine, Status, WorkerStatus, Absent
<1>2. QED BY <1>1 DEF TableType, CreateRow, Status, WorkerStatus

LEMMA MoveRowType ==
  ASSUME TableType, NEW o \in Orders, NEW from \in Status \cup {Absent}, NEW to \in Status,
         MoveRow(o, from, to)
  PROVE  TableType'
<1>1. <<from, to>> \in LogLine  BY DEF LogLine
<1>2. QED BY <1>1 DEF TableType, MoveRow

LEMMA HandlerStepType ==
  ASSUME HandlerType, NEW o \in Orders, NEW n \in Attempts, NEW l \in HandlerPc,
         HandlerGoto(o, n, l) \/ HandlerDone(o, n)
  PROVE  HandlerType'
<1>1. <<o, n>> \in Handlers BY DEF Handlers
<1>2. QED BY <1>1 DEF HandlerType, HandlerGoto, HandlerDone, HandlerPc

LEMMA DieType ==
  ASSUME TypeInv, NEW p, Die(p)
  PROVE  QueueType' /\ ExecType' /\ HandlerType' /\ SlotInv' /\ JobInv'
<1> USE DEF Die
<1>1. QueueType' /\ JobInv'  BY DEF TypeInv, TypeOK, QueueType, JobInv
<1>2. ExecType' /\ SlotInv'  BY DEF TypeInv, TypeOK, ExecType, SlotInv, Pc, Outcome
<1>3. HandlerType'  BY DEF TypeInv, TypeOK, HandlerType, HandlerPc
<1>4. QED BY <1>1, <1>2, <1>3

LEMMA StatusFacts ==
  /\ {"QUEUED", "SAVED", "SENT_TO_POS", "COMPLETED", "FAILED"} \subseteq Status
  /\ Absent \notin Status
  BY DEF Status, WorkerStatus, PosStatus, Absent

LEMMA ValidateType ==
  ASSUME NEW from, NEW to, Validate(from, to)
  PROVE  from \in Status /\ to \in Status
  BY DEF Validate, AllowedTransitions, Status, WorkerStatus

(* One lemma per group of actions.                                         *)

LEMMA RunTypeInv ==
  ASSUME TypeInv, NEW s \in Slots, Run(s)
  PROVE  TypeInv'
<1> DEFINE o == at[s]
<1> USE WorkerAssumption
<1>0. pc[s] # "idle" /\ o \in Orders
  BY DEF TypeInv, SlotInv, Run, Acquire, Insert, ReadRow, ReadNext, LookupStore, CallPos,
     TransitionToSaved, TransitionToSent, TransitionToCompleted, Release, Finish
<1> USE <1>0
<1>1. CASE Acquire(s)
  <2>1. ExecType' /\ SlotInv'  BY <1>1, GotoType DEF Acquire, TypeInv, TypeOK, Pc
  <2>2. RestType'  BY <1>1 DEF Acquire, TypeInv, TypeOK, RestType, posVars
  <2>3. QED BY <1>1, <2>1, <2>2
     DEF Acquire, TypeInv, TypeOK, QueueType, TableType, HandlerType, JobInv, queue, table, handlers
<1>2. CASE Insert(s)
  <2>1. ExecType' /\ SlotInv'  BY <1>2, GotoType DEF Insert, TypeInv, TypeOK, Pc
  <2>2. TableType'
    <3>1. CASE CreateRow(o)  BY <3>1, CreateRowType DEF TypeInv, TypeOK
    <3>2. CASE UNCHANGED table  BY <3>2 DEF TypeInv, TypeOK, TableType, table
    <3>3. QED BY <1>2, <3>1, <3>2 DEF Insert
  <2>3. QED BY <1>2, <2>1, <2>2
     DEF Insert, TypeInv, TypeOK, QueueType, HandlerType, RestType, JobInv, queue, handlers, posVars
<1>3. CASE ReadRow(s)
  <2>1. ExecType' /\ SlotInv'
    BY <1>3 DEF ReadRow, ReadNext, TypeInv, TypeOK, ExecType, TableType, SlotInv, Pc
  <2>2. QED BY <1>3, <2>1
     DEF ReadRow, TypeInv, TypeOK, QueueType, TableType, HandlerType, RestType, JobInv, queue, table,
         handlers, posVars
<1>4. ASSUME NEW from \in Status, NEW to \in Status, NEW next \in Pc, Transition(s, from, to, next)
      PROVE  TypeInv'
  <2>1. ExecType' /\ SlotInv'  BY <1>4, GotoType DEF Transition, Throw, TypeInv, TypeOK, Pc
  <2>2. TableType'
    <3>1. CASE MoveRow(o, from, to)  BY <3>1, MoveRowType DEF TypeInv, TypeOK
    <3>2. CASE UNCHANGED table  BY <3>2 DEF TypeInv, TypeOK, TableType, table
    <3>3. QED BY <1>4, <3>1, <3>2 DEF Transition
  <2>3. QED BY <1>4, <2>1, <2>2
     DEF Transition, TypeInv, TypeOK, QueueType, HandlerType, RestType, JobInv, queue, handlers, posVars
<1>5. CASE TransitionToSaved(s)  BY <1>4, <1>5, StatusFacts DEF TransitionToSaved, Pc
<1>6. CASE TransitionToSent(s)  BY <1>4, <1>6, StatusFacts DEF TransitionToSent, Pc
<1>7. CASE TransitionToCompleted(s)  BY <1>4, <1>7, StatusFacts DEF TransitionToCompleted, Pc
<1>8. CASE LookupStore(s)
  <2>1. ExecType' /\ SlotInv'  BY <1>8, GotoType DEF LookupStore, TypeInv, TypeOK, Pc
  <2>2. QED BY <1>8, <2>1
     DEF LookupStore, TypeInv, TypeOK, QueueType, TableType, HandlerType, RestType, JobInv, queue, table,
         handlers, posVars
<1>9. CASE CallPos(s)
  <2>1. ExecType' /\ SlotInv'  BY <1>9, GotoType DEF CallPos, TypeInv, TypeOK, Pc
  <2>2. RestType'  BY <1>9 DEF CallPos, TypeInv, TypeOK, RestType
  <2>3. QED BY <1>9, <2>1, <2>2
     DEF CallPos, TypeInv, TypeOK, QueueType, TableType, HandlerType, JobInv, queue, table, handlers
<1>10. CASE Release(s)
  <2>1. ExecType' /\ SlotInv'  BY <1>10, GotoType DEF Release, TypeInv, TypeOK, Pc
  <2>2. RestType'  BY <1>10 DEF Release, Unlock, TypeInv, TypeOK, RestType, posVars
  <2>3. QED BY <1>10, <2>1, <2>2
     DEF Release, TypeInv, TypeOK, QueueType, TableType, HandlerType, JobInv, queue, table, handlers
<1>11. CASE Finish(s)
  <2> DEFINE n == attemptsMade[o] + 1
  <2>1. ExecType' /\ SlotInv'
    BY <1>11 DEF Finish, Idle, TypeInv, TypeOK, ExecType, SlotInv, Pc, Outcome
  <2>2. owner[o] = s => n \in Attempts
    BY DEF TypeInv, TypeOK, QueueType, JobInv, Attempts
  <2>3. QueueType' /\ JobInv'
    <3>1. CASE UNCHANGED queue  BY <3>1 DEF TypeInv, TypeOK, QueueType, JobInv, queue
    <3>2. CASE owner[o] = s /\ outcome[s] = "ok"
      BY <1>11, <3>2 DEF Finish, TypeInv, TypeOK, QueueType, JobInv, JobState
    <3>3. CASE owner[o] = s /\ outcome[s] # "ok"
      BY <1>11, <2>2, <3>3 DEF Finish, Retries, TypeInv, TypeOK, QueueType, JobInv, JobState, Attempts
    <3>4. QED BY <1>11, <3>1, <3>2, <3>3 DEF Finish
  <2>4. HandlerType'
    <3>1. CASE UNCHANGED handlers  BY <3>1 DEF TypeInv, TypeOK, HandlerType, handlers
    <3>2. CASE owner[o] = s /\ StartHandler(s, o, n)
      <4>1. <<o, n>> \in Handlers  BY <2>2, <3>2 DEF Handlers
      <4>2. QED BY <3>2, <4>1 DEF StartHandler, TypeInv, TypeOK, HandlerType, HandlerPc
    <3>3. QED BY <1>11, <3>1, <3>2 DEF Finish
  <2>5. QED BY <1>11, <2>1, <2>3, <2>4
     DEF Finish, TypeInv, TypeOK, TableType, RestType, table, posVars
<1>12. QED BY <1>1, <1>2, <1>3, <1>5, <1>6, <1>7, <1>8, <1>9, <1>10, <1>11 DEF Run

LEMMA RunFailsTypeInv ==
  ASSUME TypeInv, NEW s \in Slots, RunFails(s)
  PROVE  TypeInv'
<1> DEFINE o == at[s]
<1> USE WorkerAssumption
<1>0. pc[s] # "idle" /\ o \in Orders
  BY DEF TypeInv, SlotInv, RunFails, AcquireFails, InsertFails, ReadFails, ReadNext, PosFails,
     BreakerOpen, ReleaseFails, AnyTransitionFails
<1> USE <1>0
<1>1. ExecType' /\ SlotInv'
  <2>1. ThrowTo(s, "release") \/ ThrowTo(s, "finish")
    BY DEF Throw, RunFails, AcquireFails, InsertFails, ReadFails, PosFails,
       BreakerOpen, ReleaseFails, AnyTransitionFails, TransitionFails
  <2>2. QED BY <2>1, GotoType DEF TypeInv, TypeOK, Pc
<1>2. QueueType' /\ HandlerType' /\ JobInv'
  BY DEF TypeInv, TypeOK, QueueType, HandlerType, JobInv, queue, handlers, RunFails, AcquireFails,
     InsertFails, ReadFails, PosFails, BreakerOpen, ReleaseFails, AnyTransitionFails, TransitionFails
<1>3. RestType'
  <2>1. Fault /\ UNCHANGED <<dlq, patches>>
    BY DEF RunFails, AcquireFails, InsertFails, ReadFails,
       PosFails, BreakerOpen, ReleaseFails, AnyTransitionFails, TransitionFails
  <2>2. \/ UNCHANGED lock
        \/ lock' = [lock EXCEPT ![o] = ProcOf[s]]
        \/ Unlock(o, ProcOf[s])
    BY DEF RunFails, AcquireFails, InsertFails, ReadFails,
       PosFails, BreakerOpen, ReleaseFails, AnyTransitionFails, TransitionFails
  <2>3. /\ UNCHANGED calls \/ calls' = [calls EXCEPT ![o] = @ + 1]
        /\ UNCHANGED accepted \/ accepted' = [accepted EXCEPT ![o] = TRUE]
    BY DEF posVars, RunFails, AcquireFails, InsertFails, ReadFails,
       PosFails, BreakerOpen, ReleaseFails, AnyTransitionFails, TransitionFails
  <2>4. faults' \in 0 .. MaxFaults  BY <2>1 DEF Fault, TypeInv, TypeOK, RestType
  <2>5. lock' \in [Orders -> Procs \cup {None}]
    BY <2>2 DEF Unlock, TypeInv, TypeOK, RestType
  <2>6. calls' \in [Orders -> Nat]  BY <2>3 DEF TypeInv, TypeOK, RestType
  <2>7. accepted' \in [Orders -> BOOLEAN]  BY <2>3 DEF TypeInv, TypeOK, RestType
  <2>8. QED BY <2>1, <2>4, <2>5, <2>6, <2>7 DEF TypeInv, TypeOK, RestType
<1>4. TableType'
  <2>1. CASE UNCHANGED table  BY <2>1 DEF TypeInv, TypeOK, TableType, table
  <2>2. CASE CreateRow(o)  BY <2>2, CreateRowType DEF TypeInv, TypeOK
  <2>3. ASSUME NEW from \in Status, NEW to \in Status, MoveRow(o, from, to)
        PROVE  TableType'
    BY <2>3, MoveRowType DEF TypeInv, TypeOK
  <2>4. QED BY <2>1, <2>2, <2>3, StatusFacts DEF RunFails, AcquireFails, InsertFails, ReadFails,
       PosFails, BreakerOpen, ReleaseFails, AnyTransitionFails, TransitionFails
<1>5. QED BY <1>1, <1>2, <1>3, <1>4 DEF TypeInv, TypeOK

LEMMA QueueStepTypeInv ==
  ASSUME TypeInv, NEW o \in Orders,
         PublishOrder(o) \/ Stalled(o) \/ LockExpires(o) \/ (\E s \in Slots : Pickup(s, o))
  PROVE  TypeInv'
<1> USE WorkerAssumption
<1>1. CASE PublishOrder(o)
  <2>1. QueueType' /\ JobInv'  BY <1>1 DEF PublishOrder, TypeInv, TypeOK, QueueType, JobInv, JobState
  <2>2. QED BY <1>1, <2>1
     DEF PublishOrder, TypeInv, TypeOK, ExecType, TableType, HandlerType, RestType, SlotInv, exec, table,
         handlers, posVars
<1>2. CASE Stalled(o)
  <2>1. QueueType' /\ JobInv'  BY <1>2 DEF Stalled, TypeInv, TypeOK, QueueType, JobInv, JobState
  <2>2. RestType'  BY <1>2 DEF Stalled, Fault, TypeInv, TypeOK, RestType, posVars
  <2>3. QED BY <1>2, <2>1, <2>2
     DEF Stalled, TypeInv, TypeOK, ExecType, TableType, HandlerType, SlotInv, exec, table, handlers
<1>3. CASE LockExpires(o)
  <2>1. RestType'
    <3>1. faults' \in 0 .. MaxFaults  BY <1>3 DEF LockExpires, Fault, TypeInv, TypeOK, RestType
    <3>2. lock' \in [Orders -> Procs \cup {None}]  BY <1>3 DEF LockExpires, TypeInv, TypeOK, RestType
    <3>3. QED BY <1>3, <3>1, <3>2 DEF LockExpires, TypeInv, TypeOK, RestType, posVars
  <2>2. ExecType' /\ SlotInv'
    <3>1. overrun' \in [Slots -> BOOLEAN]  BY <1>3 DEF LockExpires, TypeInv, TypeOK, ExecType
    <3>2. QED BY <1>3, <3>1 DEF LockExpires, TypeInv, TypeOK, ExecType, SlotInv
  <2>3. QED BY <1>3, <2>1, <2>2
     DEF LockExpires, TypeInv, TypeOK, QueueType, TableType, HandlerType, JobInv, queue, table, handlers
<1>4. ASSUME NEW s \in Slots, Pickup(s, o) PROVE TypeInv'
  <2>1. QueueType' /\ JobInv'  BY <1>4 DEF Pickup, TypeInv, TypeOK, QueueType, JobInv, JobState
  <2>2. ExecType' /\ SlotInv'  BY <1>4 DEF Pickup, TypeInv, TypeOK, ExecType, SlotInv, Pc, Outcome
  <2>3. QED BY <1>4, <2>1, <2>2
     DEF Pickup, TypeInv, TypeOK, TableType, HandlerType, RestType, table, handlers, posVars
<1>5. QED BY <1>1, <1>2, <1>3, <1>4

LEMMA HandlerTypeInv ==
  ASSUME TypeInv, NEW o \in Orders, NEW n \in Attempts, HandleFailure(o, n) \/ ProcessDlq(o, n)
  PROVE  TypeInv'
<1> DEFINE h == <<o, n>>
<1>0. h \in Handlers  BY DEF Handlers
<1> USE WorkerAssumption, <1>0
<1>1. CASE CountRetry(o, n)
  <2>1. HandlerType'  BY <1>1, HandlerStepType DEF CountRetry, TypeInv, TypeOK, HandlerPc
  <2>2. TableType'  BY <1>1 DEF CountRetry, TypeInv, TypeOK, TableType
  <2>3. QED BY <1>1, <2>1, <2>2
     DEF CountRetry, TypeInv, TypeOK, QueueType, ExecType, RestType, SlotInv, JobInv, queue, exec, posVars
<1>2. CASE ReadFailed(o, n)
  <2>1. HandlerType'  BY <1>2 DEF ReadFailed, TypeInv, TypeOK, HandlerType, TableType, HandlerPc
  <2>2. QED BY <1>2, <2>1
     DEF ReadFailed, TypeInv, TypeOK, QueueType, ExecType, TableType, RestType, SlotInv, JobInv, queue, exec,
         table, posVars
<1>3. CASE FailRow(o, n)
  <2>1. CASE Matches(o, hseen[h], "FAILED", hver[h]) /\ MoveRow(o, hseen[h], "FAILED")
                /\ HandlerGoto(o, n, "mark") /\ UNCHANGED <<queue, exec>>
    <3>1. TableType'
      BY <2>1, MoveRowType, ValidateType, StatusFacts DEF Matches, TypeInv, TypeOK
    <3>2. HandlerType'  BY <2>1, HandlerStepType DEF TypeInv, TypeOK, HandlerPc
    <3>3. QED BY <1>3, <2>1, <3>1, <3>2
       DEF FailRow, TypeInv, TypeOK, QueueType, ExecType, RestType, SlotInv, JobInv, queue, exec, posVars
  <2>2. CASE HandlerGoto(o, n, "mark") /\ UNCHANGED <<queue, exec, table>>
    <3>1. HandlerType'  BY <2>2, HandlerStepType DEF TypeInv, TypeOK, HandlerPc
    <3>2. QED BY <1>3, <2>2, <3>1
       DEF FailRow, TypeInv, TypeOK, QueueType, ExecType, TableType, RestType, SlotInv, JobInv, queue, exec,
           table, posVars
  <2>3. CASE Die(hproc[h]) /\ UNCHANGED table
    BY <1>3, <2>3, DieType DEF FailRow, TypeInv, TypeOK, TableType, RestType, table, posVars
  <2>4. QED BY <1>3, <2>1, <2>2, <2>3 DEF FailRow
<1>4. CASE MarkDlq(o, n)
  <2>1. HandlerType'  BY <1>4, HandlerStepType DEF MarkDlq, TypeInv, TypeOK, HandlerPc
  <2>2. TableType'  BY <1>4 DEF MarkDlq, RowExists, TypeInv, TypeOK, TableType
  <2>3. QED BY <1>4, <2>1, <2>2
     DEF MarkDlq, TypeInv, TypeOK, QueueType, ExecType, RestType, SlotInv, JobInv, queue, exec, posVars
<1>5. CASE PublishToDlq(o, n)
  <2>1. HandlerType'  BY <1>5, HandlerStepType DEF PublishToDlq, TypeInv, TypeOK, HandlerPc
  <2>2. RestType'  BY <1>5 DEF PublishToDlq, TypeInv, TypeOK, RestType, posVars
  <2>3. QED BY <1>5, <2>1, <2>2
     DEF PublishToDlq, TypeInv, TypeOK, QueueType, ExecType, TableType, SlotInv, JobInv, queue, exec, table
<1>6. CASE ProcessDlq(o, n)
  <2>1. RestType'  BY <1>6 DEF ProcessDlq, TypeInv, TypeOK, RestType, posVars
  <2>2. QED BY <1>6, <2>1
     DEF ProcessDlq, TypeInv, TypeOK, QueueType, ExecType, TableType, HandlerType, SlotInv, JobInv, queue,
         exec, table, handlers
<1>7. QED BY <1>1, <1>2, <1>3, <1>4, <1>5, <1>6 DEF HandleFailure

LEMMA NextTypeInv == TypeInv /\ [Next]_vars => TypeInv'
<1> SUFFICES ASSUME TypeInv, [Next]_vars PROVE TypeInv'  OBVIOUS
<1> USE WorkerAssumption
<1>1. ASSUME NEW o \in Orders, NEW to \in PatchStatuses, SetStatus(o, to) PROVE TypeInv'
  <2>1. TableType'  BY <1>1 DEF SetStatus, TypeInv, TypeOK, TableType
  <2>2. RestType'  BY <1>1 DEF SetStatus, TypeInv, TypeOK, RestType, posVars
  <2>3. QED BY <1>1, <2>1, <2>2
     DEF SetStatus, TypeInv, TypeOK, QueueType, ExecType, HandlerType, SlotInv, JobInv, queue, exec, handlers
<1>2. ASSUME NEW p \in Procs, Crash(p) PROVE TypeInv'
  <2>1. RestType'  BY <1>2 DEF Crash, Fault, TypeInv, TypeOK, RestType, posVars
  <2>2. QED BY <1>2, <2>1, DieType DEF Crash, TypeInv, TypeOK, TableType, table
<1>3. CASE UNCHANGED vars
  BY <1>3 DEF vars, TypeInv, TypeOK, QueueType, ExecType, TableType, HandlerType, RestType, SlotInv, JobInv,
     queue, exec, table, handlers, posVars
<1>4. QED BY <1>1, <1>2, <1>3, RunTypeInv, RunFailsTypeInv, QueueStepTypeInv, HandlerTypeInv
     DEF Next, UpdateStatus, UpdateOrderStatus

\* Every variable keeps its type, for every instance: in particular a job is never
\* attempted more than MaxAttempts times.
THEOREM TypeCorrect == Spec => []TypeOK
<1>1. Spec => []TypeInv  BY InitTypeInv, NextTypeInv, PTL DEF Spec
<1>2. TypeInv => TypeOK  BY DEF TypeInv
<1>3. QED BY <1>1, <1>2, PTL

-----------------------------------------------------------------------------
(* At most one call of the POS per key.  Only the execution whose insert   *)
(* created the row gets past the insert, and nothing ever brings another   *)
(* one there: not the lock, which may have expired, but the unique key     *)
(* carries the argument.                                                   *)

PrePos == {"reread", "save", "lookup", "pos"}

\* An execution on its way to the POS has a row that was not submitted yet,
OwnsRow ==
    \A s \in Slots : pc[s] \in PrePos => RowExists(at[s]) /\ calls[at[s]] = 0
\* it is the only one on its way with that row,
OwnsAlone ==
    \A s, t \in Slots : pc[s] \in PrePos /\ pc[t] \in PrePos /\ at[s] = at[t] => s = t
\* and what was submitted, once, has a row, the only one of its key.
CallsInv == \A o \in Orders : calls[o] <= 1 /\ (calls[o] > 0 => RowExists(o))
KeyInv == \A o, q \in Orders : KeyOf[o] = KeyOf[q] /\ RowExists(o) /\ RowExists(q) => o = q

PosInv == OwnsRow /\ OwnsAlone /\ CallsInv /\ KeyInv

\* Steps that put nobody on the way to the POS, create no row and call no POS.
NoNewOwner == \A s \in Slots : pc'[s] \in PrePos => pc[s] \in PrePos /\ at'[s] = at[s]
SameRows == \A o \in Orders : RowExists(o)' <=> RowExists(o)

LEMMA QuietPosInv ==
  ASSUME TypeInv, PosInv, NoNewOwner, SameRows, UNCHANGED calls
  PROVE  PosInv'
<1>1. \A s \in Slots : pc[s] \in PrePos => at[s] \in Orders  BY DEF TypeInv, SlotInv, PrePos
<1>2. OwnsRow'  BY <1>1 DEF PosInv, OwnsRow, NoNewOwner, SameRows
<1>3. OwnsAlone'  BY DEF PosInv, OwnsAlone, NoNewOwner
<1>4. CallsInv'  BY DEF PosInv, CallsInv, SameRows
<1>5. KeyInv'  BY DEF PosInv, KeyInv, SameRows
<1>6. QED BY <1>2, <1>3, <1>4, <1>5 DEF PosInv

LEMMA MoveRowSame ==
  ASSUME TypeInv, NEW o \in Orders, NEW from, NEW to, NEW v, Matches(o, from, to, v), MoveRow(o, from, to)
  PROVE  SameRows
  BY ValidateType, StatusFacts DEF Matches, MoveRow, SameRows, RowExists, TypeInv, TypeOK, TableType

LEMMA SameStatus == status' = status => SameRows
  BY DEF SameRows, RowExists

LEMMA StayOff ==
  ASSUME TypeInv, NEW s \in Slots, NEW l, Goto(s, l) \/ ThrowTo(s, l),
         pc[s] \in PrePos \/ l \notin PrePos
  PROVE  NoNewOwner
  BY DEF NoNewOwner, Goto, ThrowTo, TypeInv, TypeOK, ExecType

LEMMA DieNoNewOwner ==
  ASSUME TypeInv, NEW p, Die(p)
  PROVE  NoNewOwner
  BY DEF NoNewOwner, Die, PrePos, TypeInv, TypeOK, ExecType

\* The first row of a key.
LEMMA CreateRowKeys ==
  ASSUME TypeInv, PosInv, NEW o \in Orders, ~KeyTaken(o), CreateRow(o)
  PROVE  /\ KeyInv'
         /\ \A q \in Orders : RowExists(q)' <=> (q = o \/ RowExists(q))
<1>1. \A q \in Orders : status'[q] = IF q = o THEN "QUEUED" ELSE status[q]
  BY DEF CreateRow, TypeInv, TypeOK, TableType
<1>2. \A q \in Orders : RowExists(q)' <=> (q = o \/ RowExists(q))
  BY <1>1 DEF RowExists, Absent
<1>3. \A q \in Orders : KeyOf[q] = KeyOf[o] => ~RowExists(q)  BY DEF KeyTaken
<1>4. QED BY <1>2, <1>3 DEF PosInv, KeyInv

LEMMA CreateRowPosInv ==
  ASSUME TypeInv, PosInv, NEW s \in Slots, pc[s] = "insert", ~KeyTaken(at[s]), CreateRow(at[s]),
         UNCHANGED calls, Goto(s, "reread") \/ Throw(s)
  PROVE  PosInv'
<1> DEFINE o == at[s]
<1>1. o \in Orders  BY DEF TypeInv, SlotInv
<1>2. KeyInv' /\ \A q \in Orders : RowExists(q)' <=> (q = o \/ RowExists(q))
  BY <1>1, CreateRowKeys
<1>3. ~RowExists(o)  BY <1>1 DEF KeyTaken
<1>4. \A t \in Slots : at'[t] = at[t] /\ (t # s => pc'[t] = pc[t])
  BY DEF Goto, Throw, ThrowTo, TypeInv, TypeOK, ExecType
<1>5. \A t \in Slots : pc[t] \in PrePos => at[t] \in Orders /\ at[t] # o
  BY <1>3 DEF PosInv, OwnsRow, TypeInv, SlotInv, PrePos
<1>6. CallsInv'  BY <1>2 DEF PosInv, CallsInv
<1>7. calls[o] = 0  BY <1>1, <1>3 DEF PosInv, CallsInv, TypeInv, TypeOK, RestType
<1>8. OwnsRow'  BY <1>1, <1>2, <1>4, <1>5, <1>7 DEF PosInv, OwnsRow
<1>9. OwnsAlone'  BY <1>4, <1>5 DEF PosInv, OwnsAlone
<1>10. QED BY <1>2, <1>6, <1>8, <1>9 DEF PosInv

LEMMA CalledPosInv ==
  ASSUME TypeInv, PosInv, NEW s \in Slots, pc[s] = "pos", calls' = [calls EXCEPT ![at[s]] = @ + 1],
         UNCHANGED status, Goto(s, "readSaved") \/ Throw(s)
  PROVE  PosInv'
<1> DEFINE o == at[s]
<1>1. o \in Orders /\ RowExists(o) /\ calls[o] = 0
  BY DEF TypeInv, SlotInv, PosInv, OwnsRow, PrePos
<1>2. \A q \in Orders : calls'[q] = IF q = o THEN 1 ELSE calls[q]
  BY <1>1 DEF TypeInv, TypeOK, RestType
<1>3. \A t \in Slots : at'[t] = at[t] /\ (pc'[t] \in PrePos => pc[t] \in PrePos /\ t # s)
  BY DEF Goto, Throw, ThrowTo, PrePos, TypeInv, TypeOK, ExecType
<1>4. \A t \in Slots : pc'[t] \in PrePos => at[t] \in Orders /\ at[t] # o
  BY <1>3 DEF PosInv, OwnsAlone, TypeInv, SlotInv, PrePos
<1>5. SameRows  BY SameStatus
<1>6. OwnsRow'  BY <1>2, <1>3, <1>4, <1>5 DEF PosInv, OwnsRow, SameRows
<1>7. OwnsAlone'  BY <1>3 DEF PosInv, OwnsAlone
<1>8. CallsInv'  BY <1>1, <1>2, <1>5 DEF PosInv, CallsInv, SameRows
<1>9. KeyInv'  BY <1>5 DEF PosInv, KeyInv, SameRows
<1>10. QED BY <1>6, <1>7, <1>8, <1>9 DEF PosInv

LEMMA RunPosInv ==
  ASSUME TypeInv, PosInv, NEW s \in Slots, Run(s)
  PROVE  PosInv'
<1>1. CASE Acquire(s)
  BY <1>1, StayOff, SameStatus, QuietPosInv DEF Acquire, PrePos, table, posVars
<1>2. CASE Insert(s)
  <2>1. CASE ~KeyTaken(at[s]) /\ CreateRow(at[s]) /\ Goto(s, "reread")
    BY <1>2, <2>1, CreateRowPosInv DEF Insert, posVars
  <2>2. CASE Goto(s, "release") /\ UNCHANGED table
    BY <1>2, <2>2, StayOff, SameStatus, QuietPosInv DEF Insert, PrePos, table, posVars
  <2>3. QED BY <1>2, <2>1, <2>2 DEF Insert
<1>3. CASE ReadRow(s)
  <2>1. NoNewOwner  BY <1>3 DEF ReadRow, ReadNext, NoNewOwner, PrePos, TypeInv, TypeOK, ExecType
  <2>2. QED BY <1>3, <2>1, SameStatus, QuietPosInv DEF ReadRow, table, posVars
<1>4. ASSUME NEW from, NEW to, NEW next, Transition(s, from, to, next),
             pc[s] \in PrePos \/ next \notin PrePos, pc[s] # "idle"
      PROVE  PosInv'
  <2>1. NoNewOwner  BY <1>4, StayOff DEF Transition, Throw, PrePos
  <2>2. SameRows
    <3>1. at[s] \in Orders  BY <1>4 DEF TypeInv, SlotInv
    <3>2. QED BY <1>4, <3>1, MoveRowSame, SameStatus DEF Transition, table
  <2>3. QED BY <1>4, <2>1, <2>2, QuietPosInv DEF Transition, posVars
<1>5. CASE TransitionToSaved(s)  BY <1>4, <1>5 DEF TransitionToSaved, PrePos
<1>6. CASE TransitionToSent(s)  BY <1>4, <1>6 DEF TransitionToSent, PrePos
<1>7. CASE TransitionToCompleted(s)  BY <1>4, <1>7 DEF TransitionToCompleted, PrePos
<1>8. CASE LookupStore(s)
  BY <1>8, StayOff, SameStatus, QuietPosInv DEF LookupStore, PrePos, table, posVars
<1>9. CASE CallPos(s)  BY <1>9, CalledPosInv DEF CallPos, table
<1>10. CASE Release(s)
  BY <1>10, StayOff, SameStatus, QuietPosInv DEF Release, PrePos, table, posVars
<1>11. CASE Finish(s)
  <2>1. NoNewOwner  BY <1>11 DEF Finish, Idle, NoNewOwner, PrePos, TypeInv, TypeOK, ExecType
  <2>2. QED BY <1>11, <2>1, SameStatus, QuietPosInv DEF Finish, table, posVars
<1>12. QED BY <1>1, <1>2, <1>3, <1>5, <1>6, <1>7, <1>8, <1>9, <1>10, <1>11 DEF Run

LEMMA RunFailsPosInv ==
  ASSUME TypeInv, PosInv, NEW s \in Slots, RunFails(s)
  PROVE  PosInv'
<1>1. CASE AcquireFails(s)
  BY <1>1, StayOff, SameStatus, QuietPosInv DEF AcquireFails, PrePos, table, posVars
<1>2. CASE InsertFails(s)
  <2>1. CASE ~KeyTaken(at[s]) /\ CreateRow(at[s])
    BY <1>2, <2>1, CreateRowPosInv DEF InsertFails, posVars
  <2>2. CASE UNCHANGED table
    BY <1>2, <2>2, StayOff, SameStatus, QuietPosInv DEF InsertFails, Throw, PrePos, table, posVars
  <2>3. QED BY <1>2, <2>1, <2>2 DEF InsertFails
<1>3. CASE ReadFails(s) \/ BreakerOpen(s)
  BY <1>3, StayOff, SameStatus, QuietPosInv DEF ReadFails, BreakerOpen, Throw, PrePos, table, posVars
<1>4. ASSUME NEW from, NEW to, TransitionFails(s, from, to), pc[s] # "idle"
      PROVE  PosInv'
  <2>1. NoNewOwner  BY <1>4, StayOff DEF TransitionFails, Throw, PrePos
  <2>2. SameRows
    <3>1. at[s] \in Orders  BY <1>4 DEF TypeInv, SlotInv
    <3>2. QED BY <1>4, <3>1, MoveRowSame, SameStatus DEF TransitionFails, table
  <2>3. QED BY <1>4, <2>1, <2>2, QuietPosInv DEF TransitionFails, posVars
<1>5. CASE AnyTransitionFails(s)  BY <1>4, <1>5 DEF AnyTransitionFails
<1>6. CASE PosFails(s)  BY <1>6, CalledPosInv DEF PosFails, table
<1>7. CASE ReleaseFails(s)
  BY <1>7, StayOff, SameStatus, QuietPosInv DEF ReleaseFails, PrePos, table, posVars
<1>8. QED BY <1>1, <1>2, <1>3, <1>5, <1>6, <1>7 DEF RunFails

LEMMA NextPosInv == TypeInv /\ PosInv /\ [Next]_vars => PosInv'
<1> SUFFICES ASSUME TypeInv, PosInv, [Next]_vars PROVE PosInv'  OBVIOUS
<1>1. ASSUME UNCHANGED <<pc, at>>, SameRows, UNCHANGED calls PROVE PosInv'
  BY <1>1, QuietPosInv DEF NoNewOwner
<1>2. ASSUME NEW o \in Orders, PublishOrder(o) \/ Stalled(o) \/ LockExpires(o)
      PROVE  PosInv'
  BY <1>1, <1>2, SameStatus DEF PublishOrder, Stalled, LockExpires, exec, table, posVars
<1>3. ASSUME NEW o \in Orders, NEW s \in Slots, Pickup(s, o) PROVE PosInv'
  <2>1. NoNewOwner  BY <1>3 DEF Pickup, NoNewOwner, PrePos, TypeInv, TypeOK, ExecType
  <2>2. QED BY <1>3, <2>1, SameStatus, QuietPosInv DEF Pickup, table, posVars
<1>4. ASSUME NEW o \in Orders, NEW n \in Attempts, HandleFailure(o, n) \/ ProcessDlq(o, n)
      PROVE  PosInv'
  <2>1. CASE FailRow(o, n)
    <3>1. SameRows  BY <2>1, MoveRowSame, SameStatus DEF FailRow, table
    <3>2. NoNewOwner
      <4>1. CASE UNCHANGED exec  BY <4>1 DEF NoNewOwner, exec
      <4>2. CASE Die(hproc[<<o, n>>])  BY <4>2, DieNoNewOwner
      <4>3. QED BY <2>1, <4>1, <4>2 DEF FailRow
    <3>3. QED BY <2>1, <3>1, <3>2, QuietPosInv DEF FailRow, posVars
  <2>2. QED BY <1>1, <1>4, <2>1, SameStatus
     DEF HandleFailure, CountRetry, ReadFailed, MarkDlq, PublishToDlq, ProcessDlq, exec, table, posVars
<1>5. ASSUME NEW o \in Orders, NEW to \in PatchStatuses, SetStatus(o, to) PROVE PosInv'
  <2>1. SameRows
    BY <1>5, WorkerAssumption, StatusFacts DEF SetStatus, SameRows, RowExists, TypeInv, TypeOK, TableType
  <2>2. QED BY <1>1, <1>5, <2>1 DEF SetStatus, exec, posVars
<1>6. ASSUME NEW p \in Procs, Crash(p) PROVE PosInv'
  BY <1>6, DieNoNewOwner, SameStatus, QuietPosInv DEF Crash, table, posVars
<1>7. CASE UNCHANGED vars
  BY <1>1, <1>7, SameStatus DEF vars, exec, table, posVars
<1>8. QED BY <1>2, <1>3, <1>4, <1>5, <1>6, <1>7, RunPosInv, RunFailsPosInv
     DEF Next, UpdateStatus, UpdateOrderStatus

LEMMA PosInvHolds == Spec => [](TypeInv /\ PosInv)
<1>1. Init => PosInv
  BY DEF Init, PosInv, OwnsRow, OwnsAlone, CallsInv, KeyInv, RowExists, PrePos
<1>2. QED BY <1>1, InitTypeInv, NextTypeInv, NextPosInv, PTL DEF Spec

\* Under one idempotency key at most one execution calls the POS, for any number
\* of jobs, workers, attempts and failures and whatever becomes of the lock.
THEOREM PosCalledOnce == Spec => []PosOnce
<1>1. TypeInv /\ PosInv => PosOnce
  BY DEF PosInv, CallsInv, KeyInv, PosOnce
<1>2. QED BY <1>1, PosInvHolds, PTL

-----------------------------------------------------------------------------
(* What a step does to the rows.                                           *)

Creates(o) == ~KeyTaken(o) /\ CreateRow(o) /\ UNCHANGED patches
Moves(o, from, to) ==
    /\ Matches(o, from, to, version[o])
    /\ MoveRow(o, from, to)
    /\ UNCHANGED patches

\* A step leaves every row's status, version and log alone, creates the first row of
\* a key, moves a row along the map, or is a terminal's PATCH.
RowStep ==
    \/ UNCHANGED <<status, version, audit, patches>>
    \/ \E o \in Orders : Creates(o)
    \/ \E o \in Orders, from \in Status, to \in Status : Moves(o, from, to)
    \/ \E o \in Orders, to \in PatchStatuses : SetStatus(o, to)

LEMMA NextRowStep ==
  ASSUME TypeInv, [Next]_vars
  PROVE  RowStep
<1>1. ASSUME NEW s \in Slots, Run(s) \/ RunFails(s) PROVE RowStep
  <2>1. pc[s] # "idle" => at[s] \in Orders  BY DEF TypeInv, SlotInv
  <2>2. CASE Insert(s) \/ InsertFails(s)
    BY <2>1, <2>2 DEF Insert, InsertFails, RowStep, Creates, table
  <2>3. ASSUME NEW from \in Status, NEW to \in Status, NEW next, pc[s] # "idle",
               Transition(s, from, to, next) \/ TransitionFails(s, from, to)
        PROVE  RowStep
    <3>1. CASE UNCHANGED table
      BY <2>3, <3>1 DEF Transition, TransitionFails, RowStep, table
    <3>2. CASE Matches(at[s], from, to, ver[s]) /\ MoveRow(at[s], from, to)
      BY <2>1, <2>3, <3>2 DEF Transition, TransitionFails, RowStep, Moves, Matches
    <3>3. QED BY <2>3, <3>1, <3>2 DEF Transition, TransitionFails
  <2>4. CASE \/ TransitionToSaved(s) \/ TransitionToSent(s) \/ TransitionToCompleted(s)
             \/ AnyTransitionFails(s)
    BY <2>3, <2>4, StatusFacts
       DEF TransitionToSaved, TransitionToSent, TransitionToCompleted, AnyTransitionFails
  <2>5. CASE \/ Acquire(s) \/ ReadRow(s) \/ LookupStore(s) \/ CallPos(s) \/ Release(s) \/ Finish(s)
             \/ AcquireFails(s) \/ ReadFails(s) \/ PosFails(s) \/ BreakerOpen(s) \/ ReleaseFails(s)
    BY <2>5 DEF RowStep, table, Acquire, ReadRow, LookupStore, CallPos, Release, Finish, AcquireFails,
       ReadFails, PosFails, BreakerOpen, ReleaseFails
  <2>6. QED BY <1>1, <2>2, <2>4, <2>5 DEF Run, RunFails
<1>2. ASSUME NEW o \in Orders,
             PublishOrder(o) \/ Stalled(o) \/ LockExpires(o) \/ \E s \in Slots : Pickup(s, o)
      PROVE  RowStep
  BY <1>2 DEF PublishOrder, Stalled, LockExpires, Pickup, RowStep, table
<1>3. ASSUME NEW o \in Orders, NEW n \in Attempts, HandleFailure(o, n) \/ ProcessDlq(o, n)
      PROVE  RowStep
  <2>1. CASE FailRow(o, n) /\ ~UNCHANGED table
    <3>1. PICK from \in Status : Matches(o, from, "FAILED", hver[<<o, n>>]) /\ MoveRow(o, from, "FAILED")
      BY <2>1, ValidateType DEF FailRow, Matches
    <3>2. QED BY <2>1, <3>1, StatusFacts DEF FailRow, RowStep, Moves, Matches
  <2>2. QED BY <1>3, <2>1
     DEF HandleFailure, CountRetry, ReadFailed, FailRow, MarkDlq, PublishToDlq, ProcessDlq, RowStep, table
<1>4. ASSUME NEW p \in Procs, Crash(p) PROVE RowStep
  BY <1>4 DEF Crash, RowStep, table
<1>5. CASE UNCHANGED vars
  BY <1>5 DEF vars, table, RowStep
<1>6. ASSUME NEW o \in Orders, NEW to \in PatchStatuses, SetStatus(o, to) PROVE RowStep
  BY <1>6 DEF RowStep
<1>7. QED BY <1>1, <1>2, <1>3, <1>4, <1>5, <1>6 DEF Next, UpdateStatus, UpdateOrderStatus

\* Rows are never deleted,
RowsStay == \A o \in Orders : RowExists(o) => RowExists(o)'

LEMMA NextRowsStay ==
  ASSUME TypeInv, [Next]_vars
  PROVE  RowsStay
<1>1. RowStep  BY NextRowStep
<1>2. CASE UNCHANGED status  BY <1>2 DEF RowsStay, RowExists
<1>3. ASSUME NEW o \in Orders, Creates(o) PROVE RowsStay
  BY <1>3 DEF Creates, CreateRow, RowsStay, RowExists, Absent, TypeInv, TypeOK, TableType
<1>4. ASSUME NEW o \in Orders, NEW to \in Status, status' = [status EXCEPT ![o] = to]
      PROVE  RowsStay
  BY <1>4, StatusFacts DEF RowsStay, RowExists, TypeInv, TypeOK, TableType
<1>5. QED BY <1>1, <1>2, <1>3, <1>4, WorkerAssumption DEF RowStep, Moves, MoveRow, SetStatus

\* so a key that was taken once stays taken.
LEMMA KeysStay ==
  ASSUME RowsStay, NEW o \in Orders, KeyTaken(o)
  PROVE  KeyTaken(o)'
  BY DEF RowsStay, KeyTaken

-----------------------------------------------------------------------------
(* No job is acknowledged without a row.  An execution past its insert has *)
(* a row, one that ends well leaves a row of its key, and rows and taken   *)
(* keys stay.                                                              *)

PastInsert == {"reread", "save", "lookup", "pos", "readSaved", "sent", "readSent", "complete"}

StoredAt(s) ==
    /\ pc[s] # "idle" => jobState[at[s]] # "none"
    /\ pc[s] \in PastInsert => RowExists(at[s])
    /\ pc[s] \in {"release", "finish"} /\ outcome[s] = "ok" => KeyTaken(at[s])

StoredInv ==
    /\ \A s \in Slots : StoredAt(s)
    /\ \A o \in Orders : RowExists(o) => jobState[o] # "none"
    /\ AckedIsStored

\* A job's entry stays in the queue.
JobsStay == \A o \in Orders : jobState[o] # "none" => jobState'[o] # "none"

LEMMA NextJobsStay ==
  ASSUME TypeInv, [Next]_vars
  PROVE  JobsStay
<1> USE DEF TypeInv, TypeOK, QueueType, JobsStay
<1>1. CASE UNCHANGED jobState  BY <1>1
<1>2. ASSUME NEW o \in Orders, NEW j \in JobState \ {"none"}, jobState' = [jobState EXCEPT ![o] = j]
      PROVE  JobsStay
  BY <1>2
<1>3. ASSUME NEW s \in Slots, Finish(s) PROVE JobsStay
  <2>1. at[s] \in Orders  BY <1>3 DEF Finish, SlotInv
  <2>2. QED BY <1>1, <1>2, <1>3, <2>1 DEF Finish, queue, JobState
<1>4. ASSUME NEW s \in Slots, Run(s) \/ RunFails(s) PROVE JobsStay
  BY <1>1, <1>3, <1>4
     DEF queue, Run, RunFails, Acquire, Insert, ReadRow, LookupStore, CallPos, TransitionToSaved,
         TransitionToSent, TransitionToCompleted, Transition, Release, AcquireFails, InsertFails, ReadFails,
         AnyTransitionFails, TransitionFails, PosFails, BreakerOpen, ReleaseFails
<1>5. ASSUME NEW o \in Orders, NEW n \in Attempts, HandleFailure(o, n) \/ ProcessDlq(o, n)
      PROVE  JobsStay
  BY <1>1, <1>5
     DEF queue, HandleFailure, CountRetry, ReadFailed, FailRow, MarkDlq, PublishToDlq, ProcessDlq, Die
<1>6. ASSUME NEW o \in Orders,
             PublishOrder(o) \/ Stalled(o) \/ LockExpires(o) \/ \E s \in Slots : Pickup(s, o)
      PROVE  JobsStay
  BY <1>1, <1>2, <1>6 DEF PublishOrder, Stalled, LockExpires, Pickup, queue, JobState
<1>7. CASE UNCHANGED vars  BY <1>1, <1>7 DEF vars, queue
<1>8. ASSUME NEW p \in Procs, Crash(p) PROVE JobsStay  BY <1>1, <1>8 DEF Crash, Die
<1>9. ASSUME NEW o \in Orders, NEW to \in PatchStatuses, SetStatus(o, to) PROVE JobsStay
  BY <1>1, <1>9 DEF SetStatus, queue
<1>10. QED BY <1>4, <1>5, <1>6, <1>7, <1>8, <1>9 DEF Next, UpdateStatus, UpdateOrderStatus

\* The execution stays where it is.
SlotStays(s) == pc'[s] = pc[s] /\ at'[s] = at[s] /\ outcome'[s] = outcome[s]

\* A step of an execution is about an order, and leaves the other executions alone.
LEMMA ExecAt ==
  ASSUME TypeInv, NEW s \in Slots, Run(s) \/ RunFails(s)
  PROVE  pc[s] # "idle" /\ at[s] \in Orders
  BY DEF TypeInv, SlotInv, Run, Acquire, Insert, ReadRow, ReadNext, LookupStore, CallPos,
     TransitionToSaved, TransitionToSent, TransitionToCompleted, Release, Finish,
     RunFails, AcquireFails, InsertFails, ReadFails, PosFails, BreakerOpen, ReleaseFails, AnyTransitionFails

LEMMA OthersStay ==
  ASSUME TypeInv, NEW s \in Slots, Run(s) \/ RunFails(s)
  PROVE  \A t \in Slots : t # s => SlotStays(t)
  BY DEF SlotStays, TypeInv, TypeOK, ExecType, Goto, Throw, ThrowTo, Idle, Run, Acquire, Insert,
     ReadRow, LookupStore, CallPos, TransitionToSaved, TransitionToSent, TransitionToCompleted, Transition,
     Release, Finish, RunFails, AcquireFails, InsertFails, ReadFails, PosFails, BreakerOpen, ReleaseFails,
     AnyTransitionFails, TransitionFails

\* An execution that stays where it is, or ends, keeps its part of the invariant.
LEMMA StoredAtStays ==
  ASSUME TypeInv, StoredInv, RowsStay, JobsStay, NEW s \in Slots, SlotStays(s) \/ pc'[s] = "idle"
  PROVE  StoredAt(s)'
<1>1. CASE pc'[s] = "idle"  BY <1>1 DEF StoredAt, PastInsert
<1>2. CASE SlotStays(s) /\ pc[s] # "idle"
  <2>1. at[s] \in Orders  BY <1>2 DEF TypeInv, SlotInv
  <2>2. StoredAt(s)  BY DEF StoredInv
  <2>3. jobState'[at'[s]] # "none"  BY <1>2, <2>1, <2>2 DEF StoredAt, JobsStay, SlotStays
  <2>4. pc[s] \in PastInsert => RowExists(at[s])'
    BY <1>2, <2>1, <2>2 DEF StoredAt, RowsStay, SlotStays, RowExists
  <2>5. KeyTaken(at[s]) => KeyTaken(at[s])'  BY <1>2, <2>1, KeysStay DEF SlotStays, KeyTaken
  <2>6. QED BY <1>2, <2>2, <2>3, <2>4, <2>5 DEF StoredAt, SlotStays
<1>3. QED BY <1>1, <1>2 DEF SlotStays

\* Steps that create no row and acknowledge no job.
LEMMA QuietStored ==
  ASSUME TypeInv, StoredInv, RowsStay, JobsStay, SameRows,
         \A o \in Orders : jobState'[o] = "completed" => jobState[o] = "completed"
  PROVE  /\ \A o \in Orders : RowExists(o)' => jobState'[o] # "none"
         /\ AckedIsStored'
<1>1. \A o \in Orders : RowExists(o)' => jobState'[o] # "none"
  BY DEF StoredInv, SameRows, JobsStay
<1>2. \A o \in Orders : KeyTaken(o) => KeyTaken(o)'  BY KeysStay
<1>3. AckedIsStored'  BY <1>2 DEF StoredInv, AckedIsStored
<1>4. QED BY <1>1, <1>3

LEMMA RunStored ==
  ASSUME TypeInv, StoredInv, RowsStay, JobsStay, NEW s \in Slots, Run(s) \/ RunFails(s)
  PROVE  StoredInv'
<1>0. pc[s] # "idle" /\ at[s] \in Orders  BY ExecAt
<1> PICK o \in Orders : o = at[s]  BY <1>0
<1>1. /\ StoredAt(s)
      /\ jobState'[o] # "none"
      /\ RowExists(o) => RowExists(o)'
      /\ KeyTaken(o) => KeyTaken(o)'
      /\ RowExists(o) => KeyTaken(o)
  <2>1. StoredAt(s) /\ jobState'[o] # "none"  BY <1>0 DEF StoredInv, StoredAt, JobsStay
  <2>2. RowExists(o) => RowExists(o)'  BY <1>0 DEF RowsStay
  <2>3. KeyTaken(o) => KeyTaken(o)'  BY <1>0, KeysStay
  <2>4. QED BY <1>0, <2>1, <2>2, <2>3 DEF KeyTaken
\* The execution itself.
<1>2. StoredAt(s)'
  <2>1. ASSUME ThrowTo(s, "release") \/ ThrowTo(s, "finish") PROVE StoredAt(s)'
    BY <1>0, <1>1, <2>1 DEF ThrowTo, StoredAt, PastInsert, TypeInv, TypeOK, ExecType
  <2>2. ASSUME NEW l \in PastInsert, Goto(s, l), RowExists(o)' PROVE StoredAt(s)'
    BY <1>0, <1>1, <2>2 DEF Goto, StoredAt, PastInsert, TypeInv, TypeOK, ExecType, RowExists
  <2>3. ASSUME NEW l \in {"release", "finish"}, Goto(s, l), outcome[s] = "ok" => KeyTaken(o)'
        PROVE  StoredAt(s)'
    BY <1>0, <1>1, <2>3 DEF Goto, StoredAt, PastInsert, TypeInv, TypeOK, ExecType, KeyTaken
  <2>4. CASE RunFails(s)
    BY <2>1, <2>4 DEF Throw, RunFails, AcquireFails, InsertFails, ReadFails, PosFails,
       BreakerOpen, ReleaseFails, AnyTransitionFails, TransitionFails
  <2>5. CASE Acquire(s)
    <3>1. ASSUME Goto(s, "insert") PROVE StoredAt(s)'
      BY <1>0, <1>1, <3>1 DEF Goto, StoredAt, PastInsert, TypeInv, TypeOK, ExecType
    <3>2. QED BY <2>1, <2>5, <3>1 DEF Acquire
  <2>6. CASE Insert(s)
    <3>1. CASE CreateRow(o) /\ Goto(s, "reread")
      <4>1. RowExists(o)'
        BY <1>0, <3>1 DEF CreateRow, Goto, RowExists, Absent, TypeInv, TypeOK, TableType
      <4>2. QED BY <2>2, <3>1, <4>1 DEF PastInsert
    <3>2. CASE KeyTaken(o) /\ Goto(s, "release")  BY <1>1, <2>3, <3>2
    <3>3. QED BY <2>6, <3>1, <3>2 DEF Insert
  <2>7. CASE ReadRow(s)
    <3>1. RowExists(o)'  BY <1>1, <2>7 DEF ReadRow, ReadNext, StoredAt, PastInsert
    <3>2. QED BY <1>0, <1>1, <2>7, <3>1
       DEF ReadRow, ReadNext, StoredAt, PastInsert, TypeInv, TypeOK, ExecType, RowExists
  <2>8. CASE LookupStore(s) \/ CallPos(s)
    BY <1>1, <2>2, <2>8 DEF LookupStore, CallPos, StoredAt, PastInsert
  <2>9. CASE TransitionToSaved(s) \/ TransitionToSent(s)
    BY <1>1, <2>1, <2>2, <2>9 DEF TransitionToSaved, TransitionToSent, Transition, Throw, StoredAt, PastInsert
  <2>10. CASE TransitionToCompleted(s)
    BY <1>1, <2>1, <2>3, <2>10 DEF TransitionToCompleted, Transition, Throw, StoredAt, PastInsert
  <2>11. CASE Release(s)
    BY <1>1, <2>3, <2>11 DEF Release, StoredAt
  <2>12. CASE Finish(s)
    <3>1. pc'[s] = "idle"  BY <2>12 DEF Finish, Idle, TypeInv, TypeOK, ExecType
    <3>2. QED BY <3>1, StoredAtStays
  <2>13. QED BY <2>4, <2>5, <2>6, <2>7, <2>8, <2>9, <2>10, <2>11, <2>12 DEF Run
\* The others.
<1>3. \A t \in Slots : t # s => SlotStays(t)  BY OthersStay
<1>4. \A t \in Slots : StoredAt(t)'  BY <1>2, <1>3, StoredAtStays
\* Rows and jobs.
<1>5. \A q \in Orders : RowExists(q)' => jobState'[q] # "none"
  <2>1. \A q \in Orders : q # o => status'[q] = status[q]
    BY <1>0 DEF TypeInv, TypeOK, TableType, CreateRow, MoveRow, table, Run, Acquire, Insert,
     ReadRow, LookupStore, CallPos, TransitionToSaved, TransitionToSent, TransitionToCompleted, Transition,
     Release, Finish, RunFails, AcquireFails, InsertFails, ReadFails, PosFails, BreakerOpen, ReleaseFails,
     AnyTransitionFails, TransitionFails
  <2>2. QED BY <1>1, <2>1 DEF RowExists, StoredInv, JobsStay
<1>6. AckedIsStored'
  <2>1. \A q \in Orders : jobState'[q] = "completed" => jobState[q] = "completed" \/ (q = o /\ KeyTaken(o))
    <3>1. CASE Finish(s)
      BY <1>0, <1>1, <3>1 DEF Finish, queue, StoredAt, TypeInv, TypeOK, QueueType
    <3>2. CASE UNCHANGED queue  BY <3>2 DEF queue
    <3>3. QED BY <3>1, <3>2 DEF Run, Acquire, Insert,
     ReadRow, LookupStore, CallPos, TransitionToSaved, TransitionToSent, TransitionToCompleted, Transition,
     Release, RunFails, AcquireFails, InsertFails, ReadFails, PosFails, BreakerOpen, ReleaseFails,
     AnyTransitionFails, TransitionFails
  <2>2. \A q \in Orders : KeyTaken(q) => KeyTaken(q)'  BY KeysStay
  <2>3. QED BY <1>1, <2>1, <2>2 DEF StoredInv, AckedIsStored
<1>7. QED BY <1>4, <1>5, <1>6 DEF StoredInv

LEMMA NextStored == TypeInv /\ StoredInv /\ [Next]_vars => StoredInv'
<1> SUFFICES ASSUME TypeInv, StoredInv, [Next]_vars PROVE StoredInv'  OBVIOUS
<1>0. RowsStay /\ JobsStay  BY NextRowsStay, NextJobsStay
<1>1. ASSUME SameRows, \A s \in Slots : StoredAt(s)',
             \A o \in Orders : jobState'[o] = "completed" => jobState[o] = "completed"
      PROVE  StoredInv'
  BY <1>0, <1>1, QuietStored DEF StoredInv
<1>2. ASSUME SameRows, \A s \in Slots : SlotStays(s) \/ pc'[s] = "idle",
             \A o \in Orders : jobState'[o] = "completed" => jobState[o] = "completed"
      PROVE  StoredInv'
  BY <1>0, <1>1, <1>2, StoredAtStays
<1>3. ASSUME NEW o \in Orders, PublishOrder(o) \/ Stalled(o) \/ LockExpires(o)
      PROVE  StoredInv'
  BY <1>2, <1>3, SameStatus
     DEF PublishOrder, Stalled, LockExpires, exec, queue, table, SlotStays, TypeInv, TypeOK, QueueType
<1>4. ASSUME NEW o \in Orders, NEW s \in Slots, Pickup(s, o) PROVE StoredInv'
  <2>1. \A t \in Slots : t # s => SlotStays(t)
    BY <1>4 DEF Pickup, SlotStays, TypeInv, TypeOK, ExecType
  <2>2. StoredAt(s)'
    BY <1>4 DEF Pickup, StoredAt, PastInsert, TypeInv, TypeOK, ExecType, QueueType
  <2>3. \A t \in Slots : StoredAt(t)'  BY <1>0, <2>1, <2>2, StoredAtStays
  <2>4. QED BY <1>1, <1>4, <2>3, SameStatus DEF Pickup, table, TypeInv, TypeOK, QueueType
<1>5. ASSUME NEW p, Die(p), SameRows PROVE StoredInv'
  BY <1>2, <1>5 DEF Die, SlotStays, TypeInv, TypeOK, ExecType
<1>6. ASSUME NEW o \in Orders, NEW n \in Attempts, HandleFailure(o, n) \/ ProcessDlq(o, n)
      PROVE  StoredInv'
  <2>1. CASE FailRow(o, n)
    <3>1. SameRows  BY <2>1, MoveRowSame, SameStatus DEF FailRow, table
    <3>2. QED BY <1>2, <1>5, <2>1, <3>1 DEF FailRow, queue, exec, SlotStays
  <2>2. QED BY <1>2, <1>6, <2>1, SameStatus
     DEF HandleFailure, CountRetry, ReadFailed, MarkDlq, PublishToDlq, ProcessDlq, queue, exec, table, SlotStays
<1>7. ASSUME NEW o \in Orders, NEW to \in PatchStatuses, SetStatus(o, to) PROVE StoredInv'
  <2>1. SameRows
    BY <1>7, WorkerAssumption, StatusFacts DEF SetStatus, SameRows, RowExists, TypeInv, TypeOK, TableType
  <2>2. QED BY <1>2, <1>7, <2>1 DEF SetStatus, queue, exec, SlotStays
<1>8. ASSUME NEW p \in Procs, Crash(p) PROVE StoredInv'
  BY <1>5, <1>8, SameStatus DEF Crash, table
<1>9. CASE UNCHANGED vars
  BY <1>2, <1>9, SameStatus DEF vars, queue, exec, table, SlotStays
<1>10. QED BY <1>0, <1>3, <1>4, <1>6, <1>7, <1>8, <1>9, RunStored DEF Next, UpdateStatus, UpdateOrderStatus

LEMMA StoredInvHolds == Spec => [](TypeInv /\ StoredInv)
<1>1. Init => StoredInv
  BY DEF Init, StoredInv, StoredAt, AckedIsStored, RowExists, PastInsert
<1>2. QED BY <1>1, InitTypeInv, NextTypeInv, NextStored, PTL DEF Spec

\* A job reported as completed has left a row under its key, however the insert, its
\* conflicts, retries and lost answers went: no order is acknowledged unstored.
THEOREM NothingAckedUnstored == Spec => []AckedIsStored
<1>1. StoredInv => AckedIsStored  BY DEF StoredInv
<1>2. QED BY <1>1, StoredInvHolds, PTL

-----------------------------------------------------------------------------
(* The audit log.  An order without a row has an empty log and version 0;  *)
(* from there each kind of row step keeps the trail true.                  *)

TrailInv ==
    /\ AuditTrail
    /\ \A o \in Orders : ~RowExists(o) => audit[o] = <<>> /\ version[o] = 0

LEMMA AppendFacts ==
  ASSUME NEW S, NEW q \in Seq(S), NEW e \in S
  PROVE  /\ Len(Append(q, e)) = Len(q) + 1
         /\ Append(q, e)[Len(q) + 1] = e
         /\ \A i \in 1 .. Len(q) : Append(q, e)[i] = q[i]
  OBVIOUS

LEMMA NextTrail == TypeInv /\ TrailInv /\ [Next]_vars => TrailInv'
<1> SUFFICES ASSUME TypeInv, TrailInv, [Next]_vars PROVE TrailInv'  OBVIOUS
<1>0. RowStep  BY NextRowStep
<1>1. CASE UNCHANGED <<status, version, audit, patches>>
  BY <1>1 DEF TrailInv, AuditTrail, RowExists
<1>2. ASSUME NEW o \in Orders, Creates(o) PROVE TrailInv'
  <2>1. audit[o] = <<>> /\ version[o] = 0  BY <1>2 DEF Creates, KeyTaken, TrailInv
  <2>2. /\ audit'[o] = Append(<<>>, <<Absent, "QUEUED">>)
        /\ status'[o] = "QUEUED" /\ version'[o] = 0
        /\ \A q \in Orders : q # o => audit'[q] = audit[q] /\ status'[q] = status[q]
        /\ version' = version /\ patches' = patches
    BY <1>2, <2>1 DEF Creates, CreateRow, TypeInv, TypeOK, TableType
  <2>3. audit'[o] = <<<<Absent, "QUEUED">>>>  BY <2>2
  <2>4. Len(audit'[o]) = 1 /\ audit'[o][1][2] = "QUEUED"  BY <2>3
  <2>5. RowExists(o)'  BY <2>2 DEF RowExists, Absent
  <2>6. /\ Len(audit'[o]) = version'[o] + 1
        /\ \A i \in 2 .. Len(audit'[o]) : FALSE
        /\ audit'[o][Len(audit'[o])][2] = status'[o]
    BY <2>2, <2>4
  <2>7. \A q \in Orders : q # o =>
          audit'[q] = audit[q] /\ status'[q] = status[q] /\ version'[q] = version[q] /\ patches'[q] = patches[q]
    BY <2>2
  <2>8. QED BY <2>5, <2>6, <2>7 DEF TrailInv, AuditTrail, RowExists
<1>3. ASSUME NEW o \in Orders, NEW from \in Status, NEW to \in Status, Moves(o, from, to)
      PROVE  TrailInv'
  <2> DEFINE log == audit[o]
             e == <<from, to>>
  <2>1. /\ audit' = [audit EXCEPT ![o] = Append(log, e)]
        /\ status' = [status EXCEPT ![o] = to]
        /\ version' = [version EXCEPT ![o] = @ + 1]
        /\ patches' = patches
        /\ Validate(from, to)
        /\ status[o] = from
    BY <1>3 DEF Moves, Matches, MoveRow
  <2>2. RowExists(o) /\ RowExists(o)'
    BY <2>1, StatusFacts DEF RowExists, TypeInv, TypeOK, TableType
  <2>3. log \in Seq(LogLine) /\ e \in LogLine /\ Len(log) \in Nat
    BY DEF TypeInv, TypeOK, TableType, LogLine
  <2>4. /\ Len(log) = version[o] + 1
        /\ \A i \in 2 .. Len(log) : Validate(log[i][1], log[i][2])
        /\ patches[o] = 0 =>
              /\ log[Len(log)][2] = status[o]
              /\ \A i \in 2 .. Len(log) : log[i][1] = log[i - 1][2]
    BY <2>2 DEF TrailInv, AuditTrail
  <2>5. audit'[o] = Append(log, e) /\ status'[o] = to /\ version'[o] = version[o] + 1
    BY <2>1 DEF TypeInv, TypeOK, TableType
  <2>6. PICK new : new = audit'[o]  OBVIOUS
  <2>7. /\ Len(new) = Len(log) + 1
        /\ new[Len(log) + 1] = e
        /\ \A i \in 1 .. Len(log) : new[i] = log[i]
    BY <2>3, <2>5, <2>6, AppendFacts
  <2>8. Len(new) = version'[o] + 1 /\ version[o] \in Nat
    BY <2>4, <2>5, <2>7 DEF TypeInv, TypeOK, TableType
  <2>9. \A i \in 2 .. Len(new) : Validate(new[i][1], new[i][2])
    <3>1. Validate(e[1], e[2])  BY <2>1
    <3>2. \A i \in 2 .. Len(new) : i = Len(log) + 1 \/ i \in 2 .. Len(log)
      BY <2>3, <2>7
    <3>3. QED BY <2>3, <2>4, <2>7, <3>1, <3>2
  <2>10. ASSUME patches[o] = 0
         PROVE  new[Len(new)][2] = to /\ \A i \in 2 .. Len(new) : new[i][1] = new[i - 1][2]
    <3>1. e[1] = log[Len(log)][2]  BY <2>1, <2>4, <2>10
    <3>2. \A i \in 2 .. Len(new) : i = Len(log) + 1 \/ i \in 2 .. Len(log)
      BY <2>3, <2>7
    <3>3. Len(log) \in 1 .. Len(log)  BY <2>3, <2>4, <2>8
    <3>4. \A i \in 2 .. Len(log) : i - 1 \in 1 .. Len(log) /\ i \in 1 .. Len(log)  BY <2>3
    <3>5. ASSUME NEW i \in 2 .. Len(log) PROVE new[i][1] = new[i - 1][2]
      BY <2>4, <2>7, <2>10, <3>4
    <3>6. new[Len(log) + 1][1] = new[(Len(log) + 1) - 1][2]
      BY <2>3, <2>7, <3>1, <3>3
    <3>7. QED BY <2>7, <3>2, <3>5, <3>6
  <2>11. /\ Len(audit'[o]) = version'[o] + 1
         /\ \A i \in 2 .. Len(audit'[o]) : Validate(audit'[o][i][1], audit'[o][i][2])
         /\ patches'[o] = 0 =>
               /\ audit'[o][Len(audit'[o])][2] = status'[o]
               /\ \A i \in 2 .. Len(audit'[o]) : audit'[o][i][1] = audit'[o][i - 1][2]
    BY <2>1, <2>5, <2>6, <2>8, <2>9, <2>10
  <2>12. \A q \in Orders : q # o =>
           audit'[q] = audit[q] /\ status'[q] = status[q] /\ version'[q] = version[q] /\ patches'[q] = patches[q]
    BY <2>1 DEF TypeInv, TypeOK, TableType
  <2>13. QED BY <2>2, <2>11, <2>12 DEF TrailInv, AuditTrail, RowExists
<1>4. ASSUME NEW o \in Orders, NEW to \in PatchStatuses, SetStatus(o, to) PROVE TrailInv'
  <2>1. patches'[o] # 0 /\ \A q \in Orders : q # o => patches'[q] = patches[q] /\ status'[q] = status[q]
    BY <1>4, WorkerAssumption DEF SetStatus, TypeInv, TypeOK, TableType, RestType
  <2>2. RowExists(o) /\ RowExists(o)' /\ audit' = audit /\ version' = version
    BY <1>4, WorkerAssumption, StatusFacts DEF SetStatus, RowExists, TypeInv, TypeOK, TableType
  <2>3. QED BY <2>1, <2>2 DEF TrailInv, AuditTrail, RowExists
<1>5. QED BY <1>0, <1>1, <1>2, <1>3, <1>4 DEF RowStep

\* For every number of executions, attempts and terminals the audit log tells the
\* row's true history: as many lines as versions, only moves of the map, and joined
\* up to the present status as long as no terminal overwrote it.
THEOREM LogIsTrue == Spec => []AuditTrail
<1>1. Init => TrailInv
  BY DEF Init, TrailInv, AuditTrail, RowExists
<1>2. Spec => [](TypeInv /\ TrailInv)
  BY <1>1, InitTypeInv, NextTypeInv, NextTrail, PTL DEF Spec
<1>3. TrailInv => AuditTrail  BY DEF TrailInv
<1>4. QED BY <1>2, <1>3, PTL

-----------------------------------------------------------------------------
(* The worker implements the ledger.  Beyond PosInv this takes that an     *)
(* execution about to call the POS has SAVED in its row's log, and that    *)
(* one past the call has the POS's consent; neither is ever taken back.    *)

Saved(o) == \E i \in DOMAIN audit[o] : audit[o][i][2] = "SAVED"

ConsentAt(s) ==
    /\ pc[s] \in {"lookup", "pos"} => Saved(at[s])
    /\ pc[s] \in {"readSaved", "sent", "readSent", "complete"} => accepted[at[s]]

ConsentInv ==
    /\ \A s \in Slots : ConsentAt(s)
    /\ \A o \in Orders : accepted[o] => calls[o] > 0

LEMMA SavedStays ==
  ASSUME TypeInv, [Next]_vars, NEW o \in Orders, Saved(o)
  PROVE  Saved(o)'
<1>1. PICK i \in DOMAIN audit[o] : audit[o][i][2] = "SAVED"  BY DEF Saved
<1>2. audit[o] \in Seq(LogLine)  BY DEF TypeInv, TypeOK, TableType
<1>3. i \in 1 .. Len(audit[o])  BY <1>1, <1>2
<1>4. ASSUME NEW e \in LogLine, audit'[o] = Append(audit[o], e) PROVE Saved(o)'
  <2>1. i \in DOMAIN audit'[o]  BY <1>2, <1>3, <1>4
  <2>2. audit'[o][i] = audit[o][i]  BY <1>2, <1>3, <1>4, AppendFacts
  <2>3. QED BY <1>1, <2>1, <2>2 DEF Saved
<1>5. CASE audit'[o] = audit[o]  BY <1>1, <1>5 DEF Saved
<1>6. audit'[o] = audit[o] \/ \E e \in LogLine : audit'[o] = Append(audit[o], e)
  <2>1. <<Absent, "QUEUED">> \in LogLine  BY DEF LogLine, Status, WorkerStatus, Absent
  <2>2. \A from, to \in Status : <<from, to>> \in LogLine  BY DEF LogLine
  <2>3. RowStep  BY NextRowStep
  <2>4. ASSUME NEW q \in Orders, NEW e \in LogLine, audit' = [audit EXCEPT ![q] = Append(@, e)]
        PROVE  audit'[o] = audit[o] \/ audit'[o] = Append(audit[o], e)
    BY <2>4 DEF TypeInv, TypeOK, TableType
  <2>5. \/ audit' = audit
        \/ \E q \in Orders, e \in LogLine : audit' = [audit EXCEPT ![q] = Append(@, e)]
    <3>1. ASSUME NEW q \in Orders, Creates(q)
          PROVE  \E e \in LogLine : audit' = [audit EXCEPT ![q] = Append(@, e)]
      BY <2>1, <3>1 DEF Creates, CreateRow
    <3>2. ASSUME NEW q \in Orders, NEW from \in Status, NEW to \in Status, Moves(q, from, to)
          PROVE  \E e \in LogLine : audit' = [audit EXCEPT ![q] = Append(@, e)]
      BY <2>2, <3>2 DEF Moves, MoveRow
    <3>3. QED BY <2>3, <3>1, <3>2 DEF RowStep, SetStatus
  <2>6. QED BY <2>4, <2>5
<1>7. QED BY <1>4, <1>5, <1>6

\* Only the two outcomes of a POS call change what the POS knows.
LEMMA PosVarsStay ==
  ASSUME TypeInv, [Next]_vars
  PROVE  \/ UNCHANGED <<calls, accepted>>
         \/ \E s \in Slots : CallPos(s) \/ PosFails(s)
<1>1. ASSUME NEW s \in Slots, Run(s) \/ RunFails(s), ~CallPos(s), ~PosFails(s)
      PROVE  UNCHANGED <<calls, accepted>>
  BY <1>1 DEF posVars, Run, RunFails, Acquire, Insert, ReadRow, LookupStore, TransitionToSaved,
     TransitionToSent, TransitionToCompleted, Transition, Release, Finish, AcquireFails, InsertFails, ReadFails,
     AnyTransitionFails, TransitionFails, BreakerOpen, ReleaseFails
<1>2. ASSUME NEW o \in Orders,
             \/ PublishOrder(o) \/ Stalled(o) \/ LockExpires(o) \/ \E s \in Slots : Pickup(s, o)
             \/ \E n \in Attempts : HandleFailure(o, n) \/ ProcessDlq(o, n)
             \/ \E to \in PatchStatuses : UpdateStatus(o, to) \/ UpdateOrderStatus(o, to)
      PROVE  UNCHANGED <<calls, accepted>>
  BY <1>2 DEF posVars, PublishOrder, Stalled, LockExpires, Pickup, HandleFailure, CountRetry, ReadFailed,
     FailRow, MarkDlq, PublishToDlq, ProcessDlq, UpdateStatus, UpdateOrderStatus, SetStatus
<1>3. CASE (\E p \in Procs : Crash(p)) \/ UNCHANGED vars
  BY <1>3 DEF Crash, vars, posVars
<1>4. QED BY <1>1, <1>2, <1>3 DEF Next

LEMMA CallEffect ==
  ASSUME TypeInv, NEW s \in Slots, CallPos(s) \/ PosFails(s)
  PROVE  /\ at[s] \in Orders
         /\ calls' = [calls EXCEPT ![at[s]] = @ + 1]
         /\ accepted' = accepted \/ accepted' = [accepted EXCEPT ![at[s]] = TRUE]
         /\ UNCHANGED <<status, audit>>
  BY DEF CallPos, PosFails, TypeInv, SlotInv, table

LEMMA AcceptedStays ==
  ASSUME TypeInv, [Next]_vars, NEW o \in Orders, accepted[o]
  PROVE  accepted'[o]
  BY PosVarsStay, CallEffect DEF TypeInv, TypeOK, RestType

LEMMA ConsentAtStays ==
  ASSUME TypeInv, ConsentInv, [Next]_vars, NEW s \in Slots, SlotStays(s) \/ pc'[s] \notin PastInsert
  PROVE  ConsentAt(s)'
<1>1. CASE pc'[s] \notin PastInsert  BY <1>1 DEF ConsentAt, PastInsert
<1>2. CASE SlotStays(s) /\ pc[s] # "idle"
  <2> PICK o \in Orders : o = at[s]  BY <1>2 DEF TypeInv, SlotInv
  <2>1. Saved(o) => Saved(o)'  BY SavedStays
  <2>2. accepted[o] => accepted'[o]  BY AcceptedStays
  <2>3. ConsentAt(s)  BY DEF ConsentInv
  <2>4. at'[s] = o /\ pc'[s] = pc[s]  BY <1>2 DEF SlotStays
  <2>5. Saved(at[s])' <=> Saved(o)'  BY <2>4 DEF Saved
  <2>6. QED BY <2>1, <2>2, <2>3, <2>4, <2>5 DEF ConsentAt
<1>3. QED BY <1>1, <1>2 DEF SlotStays, PastInsert

LEMMA NextConsent == TypeInv /\ ConsentInv /\ [Next]_vars => ConsentInv'
<1> SUFFICES ASSUME TypeInv, ConsentInv, [Next]_vars PROVE ConsentInv'  OBVIOUS
<1>1. \A o \in Orders : accepted'[o] => calls'[o] > 0
  <2>1. CASE UNCHANGED <<calls, accepted>>  BY <2>1 DEF ConsentInv
  <2>2. ASSUME NEW s \in Slots, CallPos(s) \/ PosFails(s)
        PROVE  \A o \in Orders : accepted'[o] => calls'[o] > 0
    BY <2>2, CallEffect DEF ConsentInv, TypeInv, TypeOK, RestType
  <2>3. QED BY <2>1, <2>2, PosVarsStay
<1>2. ASSUME NEW s \in Slots, Run(s) \/ RunFails(s) PROVE \A t \in Slots : ConsentAt(t)'
  <2>0. pc[s] # "idle" /\ at[s] \in Orders  BY <1>2, ExecAt
  <2> PICK o \in Orders : o = at[s]  BY <2>0
  <2>1. SUFFICES ConsentAt(s)'  BY <1>2, OthersStay, ConsentAtStays
  <2>2. CASE pc'[s] \notin PastInsert  BY <2>2, ConsentAtStays
  <2>3. /\ ConsentAt(s)
        /\ Saved(o) => Saved(o)'
        /\ accepted[o] => accepted'[o]
    BY SavedStays, AcceptedStays DEF ConsentInv
  <2>4. ASSUME NEW l \in PastInsert, pc' = [pc EXCEPT ![s] = l], UNCHANGED at,
               l \in {"lookup", "pos"} => Saved(o)',
               l \in {"readSaved", "sent", "readSent", "complete"} => accepted'[o]
        PROVE  ConsentAt(s)'
    <3>1. at'[s] = o /\ pc'[s] = l  BY <2>4 DEF TypeInv, TypeOK, ExecType
    <3>2. Saved(at[s])' <=> Saved(o)'  BY <3>1 DEF Saved
    <3>3. QED BY <2>4, <3>1, <3>2 DEF ConsentAt
  <2>5. CASE Insert(s) /\ Goto(s, "reread")  BY <2>4, <2>5 DEF Goto, PastInsert
  <2>6. CASE ReadRow(s)
    BY <2>3, <2>4, <2>6 DEF ReadRow, ReadNext, ConsentAt, PastInsert
  <2>7. CASE LookupStore(s)
    BY <2>3, <2>4, <2>7 DEF LookupStore, Goto, ConsentAt, PastInsert
  <2>8. CASE CallPos(s)
    <3>1. accepted'[o]  BY <2>8 DEF CallPos, TypeInv, TypeOK, RestType
    <3>2. QED BY <2>4, <2>8, <3>1 DEF CallPos, Goto, PastInsert
  <2>9. CASE TransitionToSaved(s) /\ Goto(s, "lookup")
    <3>1. MoveRow(o, "QUEUED", "SAVED")
      BY <2>0, <2>9 DEF TransitionToSaved, Transition, Throw, ThrowTo, Goto, TypeInv, TypeOK, ExecType
    <3>2. audit[o] \in Seq(LogLine) /\ <<"QUEUED", "SAVED">> \in LogLine
      BY StatusFacts DEF TypeInv, TypeOK, TableType, LogLine
    <3>3. audit'[o] = Append(audit[o], <<"QUEUED", "SAVED">>)
      BY <3>1 DEF MoveRow, TypeInv, TypeOK, TableType
    <3>4. Len(audit[o]) + 1 \in DOMAIN audit'[o]  BY <3>2, <3>3
    <3>5. audit'[o][Len(audit[o]) + 1] = <<"QUEUED", "SAVED">>  BY <3>2, <3>3, AppendFacts
    <3>6. Saved(o)'  BY <3>4, <3>5 DEF Saved
    <3>7. QED BY <2>4, <2>9, <3>6 DEF Goto, PastInsert
  <2>10. CASE TransitionToSent(s) /\ Goto(s, "readSent")
    BY <2>3, <2>4, <2>10 DEF TransitionToSent, Goto, ConsentAt, PastInsert
  <2>11. CASE pc'[s] \in PastInsert
    <3>1. ASSUME ThrowTo(s, "release") \/ ThrowTo(s, "finish") \/ Goto(s, "release") \/ Goto(s, "finish")
                 \/ Goto(s, "insert") \/ Idle(s)
          PROVE  FALSE
      BY <2>11, <3>1 DEF ThrowTo, Goto, Idle, PastInsert, TypeInv, TypeOK, ExecType
    <3>2. \/ Insert(s) /\ Goto(s, "reread")
          \/ ReadRow(s) \/ LookupStore(s) \/ CallPos(s)
          \/ TransitionToSaved(s) /\ Goto(s, "lookup")
          \/ TransitionToSent(s) /\ Goto(s, "readSent")
      BY <1>2, <3>1 DEF Throw, Run, RunFails, Acquire, Insert, TransitionToSaved, TransitionToSent,
         TransitionToCompleted, Transition, Release, Finish, AcquireFails, InsertFails, ReadFails,
         AnyTransitionFails, TransitionFails, PosFails, BreakerOpen, ReleaseFails
    <3>3. QED BY <2>5, <2>6, <2>7, <2>8, <2>9, <2>10, <3>2
  <2>12. QED BY <2>2, <2>11
<1>3. ASSUME \A s \in Slots : SlotStays(s) \/ pc'[s] \notin PastInsert PROVE \A s \in Slots : ConsentAt(s)'
  BY <1>3, ConsentAtStays
<1>4. ASSUME NEW o \in Orders, NEW s \in Slots, Pickup(s, o) PROVE \A t \in Slots : ConsentAt(t)'
  BY <1>3, <1>4 DEF Pickup, SlotStays, PastInsert, TypeInv, TypeOK, ExecType
<1>5. ASSUME UNCHANGED exec \/ UNCHANGED <<pc, at, outcome>> \/ \E p : Die(p)
      PROVE  \A s \in Slots : ConsentAt(s)'
  BY <1>3, <1>5 DEF exec, Die, SlotStays, PastInsert, TypeInv, TypeOK, ExecType
<1>6. ASSUME NEW o \in Orders,
             \/ PublishOrder(o) \/ Stalled(o) \/ LockExpires(o)
             \/ \E n \in Attempts : HandleFailure(o, n) \/ ProcessDlq(o, n)
             \/ \E to \in PatchStatuses : UpdateStatus(o, to) \/ UpdateOrderStatus(o, to)
      PROVE  \A s \in Slots : ConsentAt(s)'
  BY <1>5, <1>6 DEF PublishOrder, Stalled, LockExpires, HandleFailure, CountRetry, ReadFailed,
     FailRow, MarkDlq, PublishToDlq, ProcessDlq, UpdateStatus, UpdateOrderStatus, SetStatus
<1>7. CASE (\E p \in Procs : Crash(p)) \/ UNCHANGED vars
  BY <1>5, <1>7, <1>1 DEF Crash, vars, ConsentInv
<1>8. QED BY <1>1, <1>2, <1>4, <1>6, <1>7 DEF Next, ConsentInv

\* One step of the worker is one step of the ledger, or none.
LEMMA LedgerStep ==
  ASSUME TypeInv, PosInv, ConsentInv, [Next]_vars
  PROVE  [Ledger!LedgerNext]_(Ledger!ledgerVars)
<1> USE DEF Ledger!LedgerNext, Ledger!ledgerVars, Ledger!Status, Ledger!Absent, Ledger!WorkerStatus,
            Ledger!PosStatus, Absent, Status, WorkerStatus, PosStatus
<1>1. ASSUME NEW s \in Slots, CallPos(s) \/ PosFails(s) PROVE Ledger!LedgerNext
  <2>1. pc[s] = "pos" /\ at[s] \in Orders
    BY <1>1 DEF CallPos, PosFails, TypeInv, SlotInv
  <2> PICK o \in Orders : o = at[s]  BY <2>1
  <2>2. Saved(o) /\ calls[o] = 0
    BY <2>1 DEF ConsentInv, ConsentAt, PosInv, OwnsRow, PrePos
  <2>3. accepted[o] = FALSE  BY <2>2 DEF ConsentInv, TypeInv, TypeOK, RestType
  <2>4. \E ok \in BOOLEAN : accepted' = [accepted EXCEPT ![o] = ok]
    <3>1. accepted = [accepted EXCEPT ![o] = FALSE]  BY <2>3 DEF TypeInv, TypeOK, RestType
    <3>2. QED BY <1>1, <3>1, CallEffect
  <2>5. calls' = [calls EXCEPT ![o] = 1] /\ UNCHANGED <<status, audit>>
    BY <1>1, <2>2, CallEffect DEF TypeInv, TypeOK, RestType
  <2>6. Ledger!Submit(o)  BY <2>2, <2>4, <2>5 DEF Ledger!Submit, Saved
  <2>7. QED BY <2>6
<1>2. ASSUME NEW o \in Orders, Creates(o), UNCHANGED <<calls, accepted>> PROVE Ledger!LedgerNext
  BY <1>2 DEF Creates, CreateRow, KeyTaken, RowExists, Ledger!Create
<1>3. ASSUME NEW o \in Orders, NEW from, NEW to, Validate(from, to), status[o] = from, MoveRow(o, from, to),
             UNCHANGED <<calls, accepted>>, to \in {"SENT_TO_POS", "COMPLETED"} => accepted[o]
      PROVE  Ledger!LedgerNext
  <2>1. to \in Status  BY <1>3, ValidateType
  <2>2. Ledger!Validate(status[o], to)
    BY <1>3 DEF Validate, AllowedTransitions, Ledger!Validate, Ledger!AllowedTransitions
  <2>3. Ledger!Advance(o, to)  BY <1>3, <2>2 DEF MoveRow, Ledger!Advance
  <2>4. QED BY <2>1, <2>3
<1>4. ASSUME NEW o \in Orders, NEW to \in PatchStatuses, SetStatus(o, to) PROVE Ledger!LedgerNext
  BY <1>4, WorkerAssumption DEF SetStatus, RowExists, posVars, Ledger!Override
<1>5. ASSUME NEW s \in Slots, Run(s) \/ RunFails(s), UNCHANGED <<calls, accepted>>
      PROVE  [Ledger!LedgerNext]_(Ledger!ledgerVars)
  <2>0. pc[s] # "idle" /\ at[s] \in Orders  BY <1>5, ExecAt
  <2>1. CASE Insert(s) \/ InsertFails(s)
    BY <1>2, <1>5, <2>0, <2>1 DEF Insert, InsertFails, Creates, table
  <2>2. ASSUME NEW from, NEW to, NEW next, Transition(s, from, to, next) \/ TransitionFails(s, from, to),
               to \in {"SENT_TO_POS", "COMPLETED"} => accepted[at[s]]
        PROVE  [Ledger!LedgerNext]_(Ledger!ledgerVars)
    BY <1>3, <1>5, <2>0, <2>2 DEF Transition, TransitionFails, Matches, table
  <2>3. CASE \/ TransitionToSaved(s) \/ TransitionToSent(s) \/ TransitionToCompleted(s)
             \/ AnyTransitionFails(s)
    BY <2>2, <2>3 DEF ConsentInv, ConsentAt, TransitionToSaved, TransitionToSent, TransitionToCompleted,
       AnyTransitionFails
  <2>4. CASE \/ Acquire(s) \/ ReadRow(s) \/ LookupStore(s) \/ Release(s) \/ Finish(s)
             \/ AcquireFails(s) \/ ReadFails(s) \/ BreakerOpen(s) \/ ReleaseFails(s)
    BY <1>5, <2>4 DEF table, Acquire, ReadRow, LookupStore, Release, Finish, AcquireFails,
       ReadFails, BreakerOpen, ReleaseFails
  <2>5. QED BY <1>1, <1>5, <2>1, <2>3, <2>4 DEF Run, RunFails
<1>6. ASSUME NEW o \in Orders, NEW n \in Attempts, HandleFailure(o, n) \/ ProcessDlq(o, n)
      PROVE  [Ledger!LedgerNext]_(Ledger!ledgerVars)
  <2>1. CASE FailRow(o, n) /\ ~UNCHANGED table
    BY <1>3, <2>1 DEF FailRow, Matches, posVars
  <2>2. QED BY <1>6, <2>1
     DEF HandleFailure, CountRetry, ReadFailed, FailRow, MarkDlq, PublishToDlq, ProcessDlq, table, posVars
<1>7. ASSUME NEW o \in Orders,
             PublishOrder(o) \/ Stalled(o) \/ LockExpires(o) \/ \E s \in Slots : Pickup(s, o)
      PROVE  UNCHANGED Ledger!ledgerVars
  BY <1>7 DEF PublishOrder, Stalled, LockExpires, Pickup, table, posVars
<1>8. CASE (\E p \in Procs : Crash(p)) \/ UNCHANGED vars
  BY <1>8 DEF Crash, vars, table, posVars
<1>9. QED BY <1>1, <1>4, <1>5, <1>6, <1>7, <1>8, PosVarsStay DEF Next, UpdateStatus, UpdateOrderStatus

LEMMA ConsentInvHolds == Spec => [](TypeInv /\ PosInv /\ ConsentInv)
<1>1. Init => ConsentInv
  BY DEF Init, ConsentInv, ConsentAt
<1>2. QED BY <1>1, PosInvHolds, NextConsent, PTL DEF Spec

\* The queue, the lock, the retries, crashes and handlers together implement the
\* order ledger: one row per key, moves of the map only, one submission of a SAVED
\* order to the POS, and no order marked sent or completed without its consent.
THEOREM WorkerImplementsLedger == Spec => ImplementsLedger
<1>1. Init => Ledger!LedgerInit
  BY DEF Init, Ledger!LedgerInit, Ledger!Absent, Absent
<1>2. TypeInv /\ PosInv /\ ConsentInv /\ [Next]_vars => [Ledger!LedgerNext]_(Ledger!ledgerVars)
  BY LedgerStep
<1>3. QED BY <1>1, <1>2, ConsentInvHolds, PTL DEF Spec, ImplementsLedger, Ledger!LedgerSpec

-----------------------------------------------------------------------------
(* The lock.  Its token is shared by the executions of one job in one      *)
(* process, so what a TTL that ran out under one of them lets in concerns  *)
(* all of them: the history says the same of executions with one token.    *)

TokenInv ==
    \A s, t \in Slots :
        at[s] \in Orders /\ at[t] = at[s] /\ ProcOf[t] = ProcOf[s] /\ overrun[s] => overrun[t]

LEMMA NextTokenInv == TypeInv /\ TokenInv /\ [Next]_vars => TokenInv'
<1> SUFFICES ASSUME TypeInv, TokenInv, [Next]_vars PROVE TokenInv'  OBVIOUS
<1> USE WorkerAssumption
<1>1. ASSUME UNCHANGED <<at, overrun>> PROVE TokenInv'  BY <1>1 DEF TokenInv
<1>2. ASSUME NEW o \in Orders, LockExpires(o) PROVE TokenInv'
  <2>1. /\ at' = at
        /\ \A s \in Slots :
              overrun'[s] = (overrun[s] \/ \E t \in Slots : Holds(t, o) /\ SharesToken(t, s, o))
    BY <1>2 DEF LockExpires
  <2>2. QED BY <2>1 DEF TokenInv, SharesToken
<1>3. ASSUME NEW o \in Orders, NEW s \in Slots, Pickup(s, o) PROVE TokenInv'
  <2>1. /\ at'[s] = o
        /\ \A t \in Slots : t # s => at'[t] = at[t] /\ overrun'[t] = overrun[t]
    BY <1>3 DEF Pickup, TypeInv, TypeOK, ExecType
  <2>2. overrun'[s] <=> \E t \in Slots : at[t] = o /\ ProcOf[t] = ProcOf[s] /\ overrun[t]
    BY <1>3 DEF Pickup, SharesToken, TypeInv, TypeOK, ExecType
  <2>3. ASSUME NEW t \in Slots, t # s, at[t] = o, ProcOf[t] = ProcOf[s]
        PROVE  overrun'[s] <=> overrun'[t]
    <3>1. overrun[t] => overrun'[s]  BY <2>2, <2>3
    <3>2. overrun'[s] => overrun[t]  BY <2>2, <2>3 DEF TokenInv
    <3>3. QED BY <2>1, <2>3, <3>1, <3>2
  <2>4. \A t, u \in Slots : t # s /\ u # s /\ at'[t] \in Orders /\ at'[u] = at'[t]
                              /\ ProcOf[u] = ProcOf[t] /\ overrun'[t] => overrun'[u]
    BY <2>1 DEF TokenInv
  <2>5. QED BY <2>1, <2>3, <2>4 DEF TokenInv
\* A slot without an order shares a token with nobody.
<1>4. ASSUME \A s \in Slots : \/ at'[s] = None
                              \/ at'[s] = at[s] /\ (overrun'[s] <=> overrun[s])
      PROVE  TokenInv'
  BY <1>4 DEF TokenInv
<1>5. ASSUME NEW p, Die(p) PROVE TokenInv'
  BY <1>4, <1>5 DEF Die
<1>6. ASSUME NEW s \in Slots, Run(s) PROVE TokenInv'
  <2>1. CASE Finish(s)
    BY <1>4, <2>1 DEF Finish, Idle, TypeInv, TypeOK, ExecType
  <2>2. CASE \/ Acquire(s) \/ Release(s) \/ ReadRow(s) \/ Insert(s) \/ LookupStore(s) \/ CallPos(s)
             \/ TransitionToSaved(s) \/ TransitionToSent(s) \/ TransitionToCompleted(s)
    BY <1>1, <2>2 DEF Acquire, Release, ReadRow, Insert, LookupStore, CallPos, TransitionToSaved,
       TransitionToSent, TransitionToCompleted, Transition, Throw, ThrowTo, Goto
  <2>3. QED BY <1>6, <2>1, <2>2 DEF Run
<1>7. ASSUME NEW s \in Slots, RunFails(s) PROVE TokenInv'
  BY <1>1, <1>7 DEF RunFails, AcquireFails, ReleaseFails, InsertFails, ReadFails, AnyTransitionFails,
     TransitionFails, PosFails, BreakerOpen, Throw, ThrowTo
<1>8. ASSUME NEW o \in Orders,
             \/ PublishOrder(o) \/ Stalled(o)
             \/ \E n \in Attempts : HandleFailure(o, n) \/ ProcessDlq(o, n)
             \/ \E to \in PatchStatuses : UpdateStatus(o, to) \/ UpdateOrderStatus(o, to)
       PROVE  TokenInv'
  BY <1>1, <1>5, <1>8 DEF PublishOrder, Stalled, HandleFailure, CountRetry, ReadFailed,
     FailRow, MarkDlq, PublishToDlq, ProcessDlq, UpdateStatus, UpdateOrderStatus, SetStatus, exec
<1>9. CASE (\E p \in Procs : Crash(p)) \/ UNCHANGED vars
  BY <1>1, <1>5, <1>9 DEF Crash, vars, exec
<1>10. QED BY <1>2, <1>3, <1>6, <1>7, <1>8, <1>9 DEF Next

\* A holding ends with its release or a TTL, and while it lasts nobody else enters:
\* each half needs the other, and the release of an execution with the same token
\* needs the history.
LEMMA NextLock ==
  TypeInv /\ TokenInv /\ LockKept /\ LockExcludes /\ [Next]_vars => LockKept' /\ LockExcludes'
<1> SUFFICES ASSUME TypeInv, TokenInv, LockKept, LockExcludes, [Next]_vars
             PROVE  LockKept' /\ LockExcludes'
  OBVIOUS
<1> USE WorkerAssumption
<1>1. ASSUME UNCHANGED lock,
             \A s \in Slots : Critical(s)' => Critical(s) /\ at'[s] = at[s] /\ (overrun[s] => overrun'[s])
      PROVE  LockKept' /\ LockExcludes'
  BY <1>1 DEF LockKept, LockExcludes
<1>2. ASSUME UNCHANGED lock, UNCHANGED exec PROVE LockKept' /\ LockExcludes'
  BY <1>1, <1>2 DEF exec, Critical
\* Taking it.
<1>3. ASSUME NEW s \in Slots, pc[s] = "acquire", lock[at[s]] = None,
             lock' = [lock EXCEPT ![at[s]] = ProcOf[s]], Goto(s, "insert") \/ ThrowTo(s, "finish")
      PROVE  LockKept' /\ LockExcludes'
  <2>1. at[s] \in Orders  BY <1>3 DEF TypeInv, SlotInv
  <2>2. \A t \in Slots : t # s /\ Critical(t)' => Critical(t) /\ at'[t] = at[t] /\ overrun'[t] = overrun[t]
    BY <1>3 DEF Goto, ThrowTo, Critical, TypeInv, TypeOK, ExecType
  <2>3. \A t \in Slots : Critical(t) /\ ~overrun[t] => at[t] \in Orders /\ at[t] # at[s]
    <3>1. \A t \in Slots : Critical(t) => at[t] \in Orders  BY DEF Critical, TypeInv, SlotInv
    <3>2. \A t \in Slots : ProcOf[t] # None  OBVIOUS
    <3>3. QED BY <1>3, <3>1, <3>2 DEF LockKept
  <2>4. lock'[at[s]] = ProcOf[s] /\ at'[s] = at[s]
    BY <1>3, <2>1 DEF Goto, ThrowTo, TypeInv, TypeOK, RestType
  <2>5. \A t \in Slots : Critical(t) /\ ~overrun[t] => lock'[at[t]] = lock[at[t]]
    BY <1>3, <2>1, <2>3 DEF TypeInv, TypeOK, RestType
  <2>6. LockKept'  BY <2>2, <2>4, <2>5 DEF LockKept
  <2>7. \A t \in Slots : t # s /\ Critical(t)' /\ at'[t] = at'[s] => overrun'[t]
    BY <2>2, <2>3, <2>4
  <2>8. \A t, u \in Slots : t # u /\ t # s /\ u # s /\ Critical(t)' /\ Critical(u)' /\ at'[t] = at'[u]
                              => overrun'[t] \/ overrun'[u]
    BY <2>2 DEF LockExcludes
  <2>9. QED BY <2>6, <2>7, <2>8 DEF LockExcludes
\* Giving it back.
<1>4. ASSUME NEW s \in Slots, pc[s] = "release", Unlock(at[s], ProcOf[s]),
             Goto(s, "finish") \/ ThrowTo(s, "finish")
      PROVE  LockKept' /\ LockExcludes'
  <2>1. at[s] \in Orders  BY <1>4 DEF TypeInv, SlotInv
  <2>2. \A t \in Slots : Critical(t)' => t # s /\ Critical(t) /\ at'[t] = at[t] /\ overrun'[t] = overrun[t]
    BY <1>4 DEF Goto, ThrowTo, Critical, TypeInv, TypeOK, ExecType
  <2>3. ASSUME NEW t \in Slots, t # s, Critical(t), ~overrun[t] PROVE lock'[at[t]] = lock[at[t]]
    <3>1. at[t] \in Orders /\ pc[t] # "idle" /\ lock[at[t]] = ProcOf[t]
      BY <2>3 DEF Critical, TypeInv, SlotInv, LockKept
    <3>2. CASE at[t] # at[s]  BY <1>4, <2>1, <3>1, <3>2 DEF Unlock, TypeInv, TypeOK, RestType
    <3>3. CASE at[t] = at[s]
      <4>1. overrun[s] \/ overrun[t]  BY <1>4, <2>3, <3>3 DEF LockExcludes, Critical
      <4>2. ProcOf[t] # ProcOf[s]  BY <2>1, <2>3, <3>3, <4>1 DEF TokenInv
      <4>3. QED BY <1>4, <2>1, <3>1, <3>3, <4>2 DEF Unlock, TypeInv, TypeOK, RestType
    <3>4. QED BY <3>2, <3>3
  <2>4. LockKept'  BY <2>2, <2>3 DEF LockKept
  <2>5. LockExcludes'  BY <2>2 DEF LockExcludes
  <2>6. QED BY <2>4, <2>5
\* Its TTL.
<1>5. ASSUME NEW o \in Orders, LockExpires(o) PROVE LockKept' /\ LockExcludes'
  <2>1. /\ lock' = [lock EXCEPT ![o] = None]
        /\ pc' = pc /\ at' = at
        /\ \A s \in Slots : overrun[s] \/ Holds(s, o) => overrun'[s]
    BY <1>5 DEF LockExpires, Holds, SharesToken
  <2>2. ASSUME NEW s \in Slots, Critical(s)', ~overrun'[s] PROVE lock'[at'[s]] = ProcOf[s]
    <3>1. Critical(s) /\ ~overrun[s] /\ ~Holds(s, o)  BY <2>1, <2>2 DEF Critical
    <3>2. at[s] \in Orders /\ lock[at[s]] = ProcOf[s]
      BY <3>1 DEF LockKept, Critical, TypeInv, SlotInv
    <3>3. at[s] # o  BY <3>1, <3>2 DEF Holds
    <3>4. QED BY <2>1, <3>2, <3>3 DEF TypeInv, TypeOK, RestType
  <2>3. LockExcludes'  BY <2>1 DEF LockExcludes, Critical
  <2>4. QED BY <2>2, <2>3 DEF LockKept
\* Everything else.
<1>6. ASSUME NEW s \in Slots, NEW l, Critical(s) \/ l \in {"idle", "acquire", "finish"}, UNCHANGED lock,
             Goto(s, l) \/ ThrowTo(s, l)
      PROVE  LockKept' /\ LockExcludes'
  BY <1>1, <1>6 DEF Goto, ThrowTo, Critical, TypeInv, TypeOK, ExecType
<1>7. ASSUME NEW s \in Slots, Run(s) PROVE LockKept' /\ LockExcludes'
  <2>1. CASE Acquire(s)  BY <1>3, <1>6, <2>1 DEF Acquire
  <2>2. CASE Release(s)  BY <1>4, <2>2 DEF Release
  <2>3. CASE ReadRow(s)
    BY <1>1, <2>3 DEF ReadRow, ReadNext, Critical, TypeInv, TypeOK, ExecType
  <2>4. CASE Finish(s)
    BY <1>1, <2>4 DEF Finish, Idle, Critical, TypeInv, TypeOK, ExecType
  <2>5. CASE \/ Insert(s) \/ LookupStore(s) \/ CallPos(s)
             \/ TransitionToSaved(s) \/ TransitionToSent(s) \/ TransitionToCompleted(s)
    BY <1>6, <2>5 DEF Insert, LookupStore, CallPos, TransitionToSaved, TransitionToSent,
       TransitionToCompleted, Transition, Throw, Critical
  <2>6. QED BY <1>7, <2>1, <2>2, <2>3, <2>4, <2>5 DEF Run
<1>8. ASSUME NEW s \in Slots, RunFails(s) PROVE LockKept' /\ LockExcludes'
  <2>1. CASE AcquireFails(s)  BY <1>3, <1>6, <2>1 DEF AcquireFails
  <2>2. CASE ReleaseFails(s)  BY <1>4, <1>6, <2>2 DEF ReleaseFails
  <2>3. CASE InsertFails(s) \/ ReadFails(s) \/ AnyTransitionFails(s) \/ PosFails(s) \/ BreakerOpen(s)
    BY <1>6, <2>3 DEF InsertFails, ReadFails, ReadNext, AnyTransitionFails, TransitionFails, PosFails,
       BreakerOpen, Throw, Critical
  <2>4. QED BY <1>8, <2>1, <2>2, <2>3 DEF RunFails
<1>9. ASSUME NEW p, Die(p), UNCHANGED lock PROVE LockKept' /\ LockExcludes'
  BY <1>1, <1>9 DEF Die, Critical, TypeInv, TypeOK, ExecType
<1>10. ASSUME NEW o \in Orders, NEW s \in Slots, Pickup(s, o) PROVE LockKept' /\ LockExcludes'
  BY <1>1, <1>10 DEF Pickup, Critical, TypeInv, TypeOK, ExecType
<1>11. ASSUME NEW o \in Orders,
             \/ PublishOrder(o) \/ Stalled(o)
             \/ \E n \in Attempts : HandleFailure(o, n) \/ ProcessDlq(o, n)
             \/ \E to \in PatchStatuses : UpdateStatus(o, to) \/ UpdateOrderStatus(o, to)
       PROVE  LockKept' /\ LockExcludes'
  BY <1>2, <1>9, <1>11 DEF PublishOrder, Stalled, HandleFailure, CountRetry, ReadFailed,
     FailRow, MarkDlq, PublishToDlq, ProcessDlq, UpdateStatus, UpdateOrderStatus, SetStatus
<1>12. CASE (\E p \in Procs : Crash(p)) \/ UNCHANGED vars
  BY <1>2, <1>9, <1>12 DEF Crash, vars
<1>13. QED BY <1>5, <1>7, <1>8, <1>10, <1>11, <1>12 DEF Next

LEMMA LockInvHolds == Spec => [](TypeInv /\ TokenInv /\ LockKept /\ LockExcludes)
<1>1. Init => TokenInv /\ LockKept /\ LockExcludes
  BY WorkerAssumption DEF Init, TokenInv, LockKept, LockExcludes, Critical
<1>2. Spec => []TypeInv  BY InitTypeInv, NextTypeInv, PTL DEF Spec
<1>3. QED BY <1>1, <1>2, NextTokenInv, NextLock, PTL DEF Spec

\* However many executions each process runs, one keeps its lock until it gives it
\* back, unless the TTL ran out under it or under an execution it shares its token
\* with: no retry, stall, lost reply, failing or late release of another process
\* and no crash takes it away.
THEOREM LockIsKept == Spec => []LockKept
  BY LockInvHolds, PTL

\* Under the same condition two executions of one order are never between acquire and
\* release together.
THEOREM LockIsExclusive == Spec => []LockExcludes
  BY LockInvHolds, PTL

-----------------------------------------------------------------------------
(* The 'failed' handlers.  A handler exists for exactly the attempts that  *)
(* have failed, so starting one never overwrites another; and it belongs   *)
(* to a process exactly while it runs, so a death takes only running ones. *)

FreshInv ==
    \A o \in Orders, n \in Attempts :
        /\ hpc[<<o, n>>] = "none" <=> n > attemptsMade[o]
        /\ hproc[<<o, n>>] = None <=> hpc[<<o, n>>] \in {"none", "done", "lost"}

\* A failing Finish counts the attempt and starts its handler, the first of its number.
FailsAttempt(s) ==
    /\ Finish(s)
    /\ owner[at[s]] = s
    /\ outcome[s] # "ok"

LEMMA FailedAttempt ==
  ASSUME TypeInv, FreshInv, NEW s \in Slots, FailsAttempt(s)
  PROVE  \E o \in Orders, n \in Attempts :
            /\ o = at[s]
            /\ n = attemptsMade[o] + 1
            /\ attemptsMade' = [attemptsMade EXCEPT ![o] = n]
            /\ StartHandler(s, o, n)
            /\ hpc[<<o, n>>] = "none"
            /\ jobState'[o] \in {"wait", "failed"}
            /\ jobState'[o] = "failed" => outcome[s] = "unrecoverable" \/ n = MaxAttempts
            /\ \A q \in Orders : q # o => jobState'[q] = jobState[q]
            /\ UNCHANGED <<stalledCount, status, patches, dlq, dlqAt>>
<1> USE WorkerAssumption
<1>1. at[s] \in Orders  BY DEF FailsAttempt, Finish, TypeInv, SlotInv
<1> PICK o \in Orders : o = at[s]  BY <1>1
<1> DEFINE n == attemptsMade[o] + 1
<1>2. jobState[o] = "active" /\ n \in Attempts
  BY DEF FailsAttempt, TypeInv, TypeOK, QueueType, JobInv, Attempts
<1>3. hpc[<<o, n>>] = "none"  BY <1>2 DEF FreshInv, TypeInv, TypeOK, QueueType
<1>4. /\ attemptsMade' = [attemptsMade EXCEPT ![o] = n]
      /\ StartHandler(s, o, n)
      /\ jobState' = [jobState EXCEPT ![o] = IF Retries(outcome[s], n) THEN "wait" ELSE "failed"]
      /\ UNCHANGED <<stalledCount, status, patches, dlq, dlqAt>>
  BY DEF FailsAttempt, Finish, table
<1>5. jobState'[o] = "failed" => outcome[s] = "unrecoverable" \/ n = MaxAttempts
  BY <1>2, <1>4 DEF FailsAttempt, Retries, Attempts, Outcome, TypeInv, TypeOK, QueueType, ExecType
<1>6. QED BY <1>2, <1>3, <1>4, <1>5 DEF TypeInv, TypeOK, QueueType

\* Every other step of an execution leaves the handlers alone.
LEMMA RunHandlers ==
  ASSUME NEW s \in Slots, Run(s) \/ RunFails(s), ~FailsAttempt(s)
  PROVE  UNCHANGED <<attemptsMade, stalledCount, handlers, dlq, dlqAt, patches>>
<1>1. CASE Finish(s)  BY <1>1 DEF FailsAttempt, Finish, queue, table
<1>2. QED BY <1>1
   DEF queue, table, CreateRow, MoveRow, Run, RunFails, Acquire, Insert, ReadRow, LookupStore, CallPos,
       TransitionToSaved, TransitionToSent, TransitionToCompleted, Transition, Release, AcquireFails,
       InsertFails, ReadFails, AnyTransitionFails, TransitionFails, PosFails, BreakerOpen, ReleaseFails

\* A handler dies in its own process, which is one.
LEMMA RunningHandler ==
  ASSUME TypeInv, FreshInv, NEW o \in Orders, NEW n \in Attempts, hpc[<<o, n>>] = "transition"
  PROVE  hproc[<<o, n>>] \in Procs
  BY DEF FreshInv, TypeInv, TypeOK, HandlerType, Handlers

\* What a death does to the handlers.
LEMMA DeadHandlers ==
  ASSUME TypeInv, FreshInv, NEW p \in Procs, Die(p), NEW o \in Orders, NEW n \in Attempts
  PROVE  \/ hpc'[<<o, n>>] = hpc[<<o, n>>] /\ hproc'[<<o, n>>] = hproc[<<o, n>>]
         \/ /\ hpc[<<o, n>>] \notin {"none", "done", "lost"}
            /\ hpc'[<<o, n>>] = "lost" /\ hproc'[<<o, n>>] = None
  BY WorkerAssumption DEF Die, FreshInv, Handlers

LEMMA NextFresh == TypeInv /\ FreshInv /\ [Next]_vars => FreshInv'
<1> SUFFICES ASSUME TypeInv, FreshInv, [Next]_vars PROVE FreshInv'  OBVIOUS
<1>1. CASE UNCHANGED <<attemptsMade, handlers>>
  BY <1>1 DEF FreshInv, handlers
<1>2. ASSUME NEW s \in Slots, FailsAttempt(s) PROVE FreshInv'
  <2>1. PICK o \in Orders, n \in Attempts :
            /\ n = attemptsMade[o] + 1
            /\ attemptsMade' = [attemptsMade EXCEPT ![o] = n]
            /\ StartHandler(s, o, n)
    BY <1>2, FailedAttempt
  <2>2. ProcOf[s] \in Procs /\ ProcOf[s] # None  BY WorkerAssumption
  <2>3. ASSUME NEW q \in Orders, NEW m \in Attempts
        PROVE  /\ hpc'[<<q, m>>] = "none" <=> m > attemptsMade'[q]
               /\ hproc'[<<q, m>>] = None <=> hpc'[<<q, m>>] \in {"none", "done", "lost"}
    <3>1. <<q, m>> \in Handlers /\ <<o, n>> \in Handlers /\ m \in Nat  BY DEF Handlers, Attempts
    <3>2. CASE <<q, m>> = <<o, n>>
      BY <2>1, <2>2, <3>1, <3>2 DEF StartHandler, TypeInv, TypeOK, HandlerType, QueueType
    <3>3. CASE <<q, m>> # <<o, n>>
      <4>1. hpc'[<<q, m>>] = hpc[<<q, m>>] /\ hproc'[<<q, m>>] = hproc[<<q, m>>]
        BY <2>1, <3>1, <3>3 DEF StartHandler, TypeInv, TypeOK, HandlerType
      <4>2. m > attemptsMade'[q] <=> m > attemptsMade[q]
        BY <2>1, <3>1, <3>3 DEF TypeInv, TypeOK, QueueType
      <4>3. QED BY <4>1, <4>2 DEF FreshInv
    <3>4. QED BY <3>2, <3>3
  <2>4. QED BY <2>3 DEF FreshInv
<1>3. ASSUME NEW p \in Procs, Die(p) PROVE FreshInv'
  <2>1. UNCHANGED attemptsMade  BY <1>3 DEF Die
  <2>2. ASSUME NEW q \in Orders, NEW m \in Attempts
        PROVE  /\ hpc'[<<q, m>>] = "none" <=> m > attemptsMade'[q]
               /\ hproc'[<<q, m>>] = None <=> hpc'[<<q, m>>] \in {"none", "done", "lost"}
    <3>1. /\ hpc[<<q, m>>] = "none" <=> m > attemptsMade[q]
          /\ hproc[<<q, m>>] = None <=> hpc[<<q, m>>] \in {"none", "done", "lost"}
      BY DEF FreshInv
    <3>2. QED BY <1>3, <2>1, <3>1, DeadHandlers
  <2>3. QED BY <2>2 DEF FreshInv
<1>4. ASSUME NEW o \in Orders, NEW n \in Attempts, NEW l \in {"mark", "publish"}, hpc[<<o, n>>] \in HandlerPc,
             hpc[<<o, n>>] \notin {"none", "done", "lost"}, UNCHANGED attemptsMade,
             HandlerGoto(o, n, l) \/ HandlerDone(o, n)
      PROVE  FreshInv'
  <2>1. \/ hpc'[<<o, n>>] = l /\ hproc'[<<o, n>>] = hproc[<<o, n>>]
        \/ hpc'[<<o, n>>] = "done" /\ hproc'[<<o, n>>] = None
    BY <1>4 DEF HandlerGoto, HandlerDone, TypeInv, TypeOK, HandlerType, Handlers
  <2>2. ASSUME NEW q \in Orders, NEW m \in Attempts, <<q, m>> # <<o, n>>
        PROVE  hpc'[<<q, m>>] = hpc[<<q, m>>] /\ hproc'[<<q, m>>] = hproc[<<q, m>>]
    BY <1>4, <2>2 DEF HandlerGoto, HandlerDone, TypeInv, TypeOK, HandlerType, Handlers
  <2>3. ASSUME NEW q \in Orders, NEW m \in Attempts
        PROVE  /\ hpc'[<<q, m>>] = "none" <=> m > attemptsMade'[q]
               /\ hproc'[<<q, m>>] = None <=> hpc'[<<q, m>>] \in {"none", "done", "lost"}
    <3>1. /\ hpc[<<q, m>>] = "none" <=> m > attemptsMade[q]
          /\ hproc[<<q, m>>] = None <=> hpc[<<q, m>>] \in {"none", "done", "lost"}
      BY DEF FreshInv
    <3>2. QED BY <1>4, <2>1, <2>2, <3>1
  <2>4. QED BY <2>3 DEF FreshInv
<1>5. ASSUME NEW o \in Orders, NEW n \in Attempts, HandleFailure(o, n) \/ ProcessDlq(o, n)
      PROVE  FreshInv'
  <2>1. CASE ReadFailed(o, n)
    BY <2>1 DEF ReadFailed, queue, FreshInv, TypeInv, TypeOK, HandlerType, Handlers
  <2>2. CASE FailRow(o, n)
    <3>1. CASE HandlerGoto(o, n, "mark") /\ UNCHANGED queue
      BY <1>4, <2>2, <3>1 DEF FailRow, HandlerPc, queue
    <3>2. CASE Die(hproc[<<o, n>>])
      BY <1>3, <2>2, <3>2, RunningHandler DEF FailRow
    <3>3. QED BY <2>2, <3>1, <3>2 DEF FailRow
  <2>3. CASE CountRetry(o, n) \/ MarkDlq(o, n) \/ PublishToDlq(o, n)
    BY <1>4, <2>3 DEF CountRetry, MarkDlq, PublishToDlq, HandlerPc, queue
  <2>4. CASE ProcessDlq(o, n)
    BY <1>1, <2>4 DEF ProcessDlq, queue
  <2>5. QED BY <1>5, <2>1, <2>2, <2>3, <2>4 DEF HandleFailure
<1>6. ASSUME NEW o \in Orders,
             \/ PublishOrder(o) \/ Stalled(o) \/ LockExpires(o) \/ \E s \in Slots : Pickup(s, o)
             \/ \E to \in PatchStatuses : UpdateStatus(o, to) \/ UpdateOrderStatus(o, to)
      PROVE  FreshInv'
  BY <1>1, <1>6 DEF PublishOrder, Stalled, LockExpires, Pickup, UpdateStatus, UpdateOrderStatus, SetStatus, queue
<1>7. CASE (\E p \in Procs : Crash(p)) \/ UNCHANGED vars
  BY <1>1, <1>3, <1>7 DEF Crash, vars, queue
<1>8. QED BY <1>1, <1>2, <1>5, <1>6, <1>7, RunHandlers DEF Next

LEMMA FreshInvHolds == Spec => [](TypeInv /\ FreshInv)
<1>1. Init => FreshInv
  BY WorkerAssumption DEF Init, FreshInv, Handlers, Attempts
<1>2. QED BY <1>1, InitTypeInv, NextTypeInv, NextFresh, PTL DEF Spec

\* Steps that fail no row, unmark none and finish no marking.
LEMMA QuietListed ==
  ASSUME FailedIsListed,
         \A o \in Orders : status'[o] = "FAILED" /\ patches'[o] = 0 => status[o] = "FAILED" /\ patches[o] = 0,
         \A o \in Orders : dlqAt[o] => dlqAt'[o],
         \A o \in Orders, n \in Attempts :
            hpc[<<o, n>>] \in {"mark", "lost"} => hpc'[<<o, n>>] \in {"mark", "lost"}
  PROVE  FailedIsListed'
<1> SUFFICES ASSUME NEW o \in Orders, status'[o] = "FAILED", patches'[o] = 0, ~dlqAt'[o]
             PROVE  \E n \in Attempts : hpc'[<<o, n>>] \in {"mark", "lost"}
  BY DEF FailedIsListed, Listed
<1>1. \E n \in Attempts : hpc[<<o, n>>] \in {"mark", "lost"}  BY DEF FailedIsListed, Listed
<1>2. QED BY <1>1

LEMMA NextListed == TypeInv /\ FreshInv /\ FailedIsListed /\ [Next]_vars => FailedIsListed'
<1> SUFFICES ASSUME TypeInv, FreshInv, FailedIsListed, [Next]_vars PROVE FailedIsListed'  OBVIOUS
<1> DEFINE SameHandlers ==
       \A o \in Orders, n \in Attempts :
          hpc[<<o, n>>] \in {"mark", "lost"} => hpc'[<<o, n>>] \in {"mark", "lost"}
<1>1. ASSUME UNCHANGED <<status, patches, dlqAt>>, SameHandlers PROVE FailedIsListed'
  BY <1>1, QuietListed
<1>2. ASSUME NEW s \in Slots, FailsAttempt(s) PROVE FailedIsListed'
  <2>1. PICK o \in Orders, n \in Attempts :
            StartHandler(s, o, n) /\ hpc[<<o, n>>] = "none" /\ UNCHANGED <<status, patches, dlqAt>>
    BY <1>2, FailedAttempt
  <2>2. SameHandlers  BY <2>1 DEF StartHandler, TypeInv, TypeOK, HandlerType, Handlers
  <2>3. QED BY <1>1, <2>1, <2>2
<1>3. ASSUME NEW s \in Slots, Run(s) \/ RunFails(s), ~FailsAttempt(s) PROVE FailedIsListed'
  <2>0. at[s] \in Orders  BY <1>3, ExecAt
  <2>1. UNCHANGED <<patches, dlqAt, hpc>>  BY <1>3, RunHandlers DEF handlers
  <2>2. \/ status' = status
        \/ \E to \in {"QUEUED", "SAVED", "SENT_TO_POS", "COMPLETED"} : status' = [status EXCEPT ![at[s]] = to]
    BY <1>3 DEF table, CreateRow, MoveRow, Run, RunFails, Acquire, Insert, ReadRow, LookupStore, CallPos,
       TransitionToSaved, TransitionToSent, TransitionToCompleted, Transition, Release, Finish, AcquireFails,
       InsertFails, ReadFails, AnyTransitionFails, TransitionFails, PosFails, BreakerOpen, ReleaseFails
  <2>3. \A o \in Orders : status'[o] = "FAILED" => status[o] = "FAILED"
    BY <2>0, <2>2 DEF TypeInv, TypeOK, TableType
  <2>4. QED BY <2>1, <2>3, QuietListed
<1>4. ASSUME NEW p \in Procs, Die(p), UNCHANGED <<status, patches, dlqAt>> PROVE FailedIsListed'
  <2>1. SameHandlers  BY <1>4, DeadHandlers
  <2>2. QED BY <1>1, <1>4, <2>1
<1>5. ASSUME NEW o \in Orders, NEW n \in Attempts, UNCHANGED <<status, patches, dlqAt>>,
             hpc[<<o, n>>] \notin {"mark", "lost"},
             \A q \in Orders, m \in Attempts : <<q, m>> # <<o, n>> => hpc'[<<q, m>>] = hpc[<<q, m>>]
      PROVE  FailedIsListed'
  <2>1. SameHandlers  BY <1>5
  <2>2. QED BY <1>1, <1>5, <2>1
<1>6. ASSUME NEW o \in Orders, NEW n \in Attempts, HandleFailure(o, n) \/ ProcessDlq(o, n)
      PROVE  FailedIsListed'
  <2>0. <<o, n>> \in Handlers  BY DEF Handlers
  <2>1. CASE FailRow(o, n)
    <3>1. CASE MoveRow(o, hseen[<<o, n>>], "FAILED") /\ HandlerGoto(o, n, "mark")
      <4>1. hpc'[<<o, n>>] = "mark"  BY <2>0, <3>1 DEF HandlerGoto, TypeInv, TypeOK, HandlerType
      <4>2. UNCHANGED <<patches, dlqAt>>  BY <2>1, <3>1 DEF FailRow, MoveRow
      <4>3. \A q \in Orders : q # o => status'[q] = status[q]
        BY <3>1 DEF MoveRow, TypeInv, TypeOK, TableType
      <4>4. SameHandlers
        BY <3>1, <4>1 DEF HandlerGoto, TypeInv, TypeOK, HandlerType, Handlers
      <4>5. ASSUME NEW q \in Orders, status'[q] = "FAILED", patches'[q] = 0, ~dlqAt'[q]
            PROVE  \E m \in Attempts : hpc'[<<q, m>>] \in {"mark", "lost"}
        <5>1. CASE q = o  BY <4>1, <5>1
        <5>2. CASE q # o
          <6>1. \E m \in Attempts : hpc[<<q, m>>] \in {"mark", "lost"}
            BY <4>2, <4>3, <4>5, <5>2 DEF FailedIsListed, Listed
          <6>2. QED BY <4>4, <6>1
        <5>3. QED BY <5>1, <5>2
      <4>6. QED BY <4>5 DEF FailedIsListed, Listed
    <3>2. CASE HandlerGoto(o, n, "mark") /\ UNCHANGED table
      BY <1>5, <2>1, <3>2 DEF FailRow, HandlerGoto, table, TypeInv, TypeOK, HandlerType, Handlers
    <3>3. CASE Die(hproc[<<o, n>>]) /\ UNCHANGED table
      BY <1>4, <2>1, <3>3, RunningHandler DEF FailRow, table
    <3>4. QED BY <2>1, <3>1, <3>2, <3>3 DEF FailRow
  <2>2. CASE MarkDlq(o, n)
    <3>1. /\ UNCHANGED <<status, patches>>
          /\ \A q \in Orders : q # o => dlqAt'[q] = dlqAt[q]
          /\ dlqAt'[o] = RowExists(o)
      BY <2>2 DEF MarkDlq, TypeInv, TypeOK, TableType
    <3>2. \A q \in Orders, m \in Attempts : q # o => hpc'[<<q, m>>] = hpc[<<q, m>>]
      BY <2>2 DEF MarkDlq, HandlerGoto, TypeInv, TypeOK, HandlerType, Handlers
    <3>3. ASSUME NEW q \in Orders, status'[q] = "FAILED", patches'[q] = 0, ~dlqAt'[q]
          PROVE  \E m \in Attempts : hpc'[<<q, m>>] \in {"mark", "lost"}
      <4>1. q # o  BY <3>1, <3>3 DEF RowExists, Absent
      <4>2. \E m \in Attempts : hpc[<<q, m>>] \in {"mark", "lost"}
        BY <3>1, <3>3, <4>1 DEF FailedIsListed, Listed
      <4>3. QED BY <3>2, <4>1, <4>2
    <3>4. QED BY <3>3 DEF FailedIsListed, Listed
  <2>3. CASE CountRetry(o, n) \/ ReadFailed(o, n) \/ PublishToDlq(o, n)
    <3>1. hpc[<<o, n>>] \notin {"mark", "lost"} /\ UNCHANGED <<status, patches, dlqAt>>
      BY <2>3 DEF CountRetry, ReadFailed, PublishToDlq, table
    <3>2. \E l : hpc' = [hpc EXCEPT ![<<o, n>>] = l]
      BY <2>3 DEF CountRetry, ReadFailed, PublishToDlq, HandlerDone
    <3>3. \A q \in Orders, m \in Attempts : <<q, m>> # <<o, n>> => hpc'[<<q, m>>] = hpc[<<q, m>>]
      BY <3>2 DEF TypeInv, TypeOK, HandlerType, Handlers
    <3>4. QED BY <1>5, <3>1, <3>3
  <2>4. CASE ProcessDlq(o, n)  BY <1>1, <2>4 DEF ProcessDlq, handlers, table
  <2>5. QED BY <1>6, <2>1, <2>2, <2>3, <2>4 DEF HandleFailure
<1>7. ASSUME NEW o \in Orders, NEW to \in PatchStatuses, SetStatus(o, to) PROVE FailedIsListed'
  <2>1. patches'[o] # 0 /\ \A q \in Orders : q # o => patches'[q] = patches[q] /\ status'[q] = status[q]
    BY <1>7, WorkerAssumption DEF SetStatus, TypeInv, TypeOK, TableType, RestType
  <2>2. UNCHANGED <<dlqAt, hpc>>  BY <1>7 DEF SetStatus, handlers
  <2>3. QED BY <2>1, <2>2, QuietListed
<1>8. ASSUME NEW o \in Orders,
             PublishOrder(o) \/ Stalled(o) \/ LockExpires(o) \/ \E s \in Slots : Pickup(s, o)
      PROVE  FailedIsListed'
  BY <1>1, <1>8 DEF PublishOrder, Stalled, LockExpires, Pickup, handlers, table
<1>9. CASE (\E p \in Procs : Crash(p)) \/ UNCHANGED vars
  BY <1>1, <1>4, <1>9 DEF Crash, vars, handlers, table
<1>10. QED BY <1>2, <1>3, <1>6, <1>7, <1>8, <1>9 DEF Next, UpdateStatus, UpdateOrderStatus

\* However handlers, executions, deaths and restarts interleave, a FAILED order that is
\* missing in the operator's list has a handler that is about to list it or died.
THEOREM NoFailureUnlisted == Spec => []FailedIsListed
<1>1. Init => FailedIsListed
  BY DEF Init, FailedIsListed, Absent
<1>2. Spec => [](TypeInv /\ FreshInv /\ FailedIsListed)
  BY <1>1, FreshInvHolds, NextListed, PTL DEF Spec
<1>3. QED BY <1>2, PTL

-----------------------------------------------------------------------------
(* What becomes of a job that failed.  It failed for stalling or with its  *)
(* last attempt, and the handler of a second or later attempt ends only    *)
(* with a job in the dead letter queue.                                    *)

HandOverInv ==
    /\ \A o \in Orders, n \in Attempts :
          /\ hpc[<<o, n>>] = "count" => n < 2
          /\ hpc[<<o, n>>] = "done" /\ n >= 2 => dlq[<<o, n>>] # "none"
    /\ \A s \in Slots : outcome[s] = "unrecoverable" =>
          pc[s] # "idle" /\ stalledCount[at[s]] > MaxStalledCount
    /\ \A o \in Orders : jobState[o] = "failed" =>
          attemptsMade[o] = MaxAttempts \/ stalledCount[o] > MaxStalledCount

LEMMA NextHandOver == TypeInv /\ FreshInv /\ HandOverInv /\ [Next]_vars => HandOverInv'
<1> SUFFICES ASSUME TypeInv, FreshInv, HandOverInv, [Next]_vars PROVE HandOverInv'  OBVIOUS
<1> DEFINE HandlerPart(o, n) ==
               /\ hpc[<<o, n>>] = "count" => n < 2
               /\ hpc[<<o, n>>] = "done" /\ n >= 2 => dlq[<<o, n>>] # "none"
           SlotPart(s) == outcome[s] = "unrecoverable" =>
               pc[s] # "idle" /\ stalledCount[at[s]] > MaxStalledCount
           JobPart(o) == jobState[o] = "failed" =>
               attemptsMade[o] = MaxAttempts \/ stalledCount[o] > MaxStalledCount
           HandlersKept == \A o \in Orders, n \in Attempts : HandlerPart(o, n)'
           SlotsKept == \A s \in Slots : SlotPart(s)'
           JobsKept == \A o \in Orders : JobPart(o)'
<1>0. /\ \A o \in Orders, n \in Attempts : HandlerPart(o, n)
      /\ \A s \in Slots : SlotPart(s)
      /\ \A o \in Orders : JobPart(o)
  BY DEF HandOverInv
<1>1. SUFFICES HandlersKept /\ SlotsKept /\ JobsKept  BY DEF HandOverInv
<1>2. ASSUME UNCHANGED <<hpc, dlq>> PROVE HandlersKept
  BY <1>0, <1>2
<1>3. ASSUME UNCHANGED stalledCount,
             \A s \in Slots : SlotStays(s) \/ outcome'[s] # "unrecoverable"
      PROVE  SlotsKept
  BY <1>0, <1>3 DEF SlotStays
<1>4. ASSUME UNCHANGED <<attemptsMade, stalledCount>>,
             \A o \in Orders : jobState'[o] = "failed" => jobState[o] = "failed"
      PROVE  JobsKept
  BY <1>0, <1>4
<1>5. ASSUME NEW s \in Slots, FailsAttempt(s) PROVE HandlersKept /\ SlotsKept /\ JobsKept
  <2>1. PICK o \in Orders, n \in Attempts :
            /\ o = at[s]
            /\ n = attemptsMade[o] + 1
            /\ attemptsMade' = [attemptsMade EXCEPT ![o] = n]
            /\ StartHandler(s, o, n)
            /\ jobState'[o] \in {"wait", "failed"}
            /\ jobState'[o] = "failed" => outcome[s] = "unrecoverable" \/ n = MaxAttempts
            /\ \A q \in Orders : q # o => jobState'[q] = jobState[q]
            /\ UNCHANGED <<stalledCount, dlq>>
    BY <1>5, FailedAttempt
  <2>2. HandlersKept
    <3>1. ASSUME NEW q \in Orders, NEW m \in Attempts, <<q, m>> # <<o, n>>
          PROVE  hpc'[<<q, m>>] = hpc[<<q, m>>]
      BY <2>1, <3>1 DEF StartHandler, TypeInv, TypeOK, HandlerType, Handlers
    <3>2. hpc'[<<o, n>>] = IF MovesToDlq(n) THEN "read" ELSE "count"
      BY <2>1 DEF StartHandler, TypeInv, TypeOK, HandlerType, Handlers
    <3>3. n \in Nat  BY DEF Attempts
    <3>4. ASSUME NEW q \in Orders, NEW m \in Attempts PROVE HandlerPart(q, m)'
      <4>1. CASE <<q, m>> = <<o, n>>  BY <3>2, <3>3, <4>1 DEF MovesToDlq
      <4>2. CASE <<q, m>> # <<o, n>>  BY <1>0, <2>1, <3>1, <4>2
      <4>3. QED BY <4>1, <4>2
    <3>5. QED BY <3>4
  <2>3. SlotsKept
    BY <1>3, <1>5, <2>1 DEF FailsAttempt, Finish, Idle, SlotStays, TypeInv, TypeOK, ExecType
  <2>4. JobsKept
    <3>1. outcome[s] = "unrecoverable" => stalledCount[o] > MaxStalledCount  BY <1>0, <2>1
    <3>2. attemptsMade'[o] = n /\ \A q \in Orders : q # o => attemptsMade'[q] = attemptsMade[q]
      BY <2>1 DEF TypeInv, TypeOK, QueueType
    <3>3. QED BY <1>0, <2>1, <3>1, <3>2
  <2>5. QED BY <2>2, <2>3, <2>4
<1>6. ASSUME NEW s \in Slots, Run(s) \/ RunFails(s), ~FailsAttempt(s)
      PROVE  HandlersKept /\ SlotsKept /\ JobsKept
  <2>0. pc[s] # "idle" /\ at[s] \in Orders  BY <1>6, ExecAt
  <2>1. UNCHANGED <<attemptsMade, stalledCount, hpc, dlq>>  BY <1>6, RunHandlers DEF handlers
  <2>2. /\ outcome'[s] = outcome[s] \/ outcome'[s] # "unrecoverable"
        /\ outcome'[s] = "unrecoverable" => at'[s] = at[s] /\ pc'[s] # "idle"
    BY <1>6, <2>0 DEF TypeInv, TypeOK, ExecType, Goto, Throw, ThrowTo, Idle, Run, RunFails, Acquire, Insert,
       ReadRow, ReadNext, LookupStore, CallPos,
       TransitionToSaved, TransitionToSent, TransitionToCompleted, Transition, Release, Finish, AcquireFails,
       InsertFails, ReadFails, AnyTransitionFails, TransitionFails, PosFails, BreakerOpen, ReleaseFails
  <2>3. SlotsKept
    <3>1. \A t \in Slots : t # s => SlotStays(t)  BY <1>6, OthersStay
    <3>2. QED BY <1>0, <2>1, <2>2, <3>1 DEF SlotStays
  <2>4. \A o \in Orders : jobState'[o] = "failed" => jobState[o] = "failed"
    <3>1. CASE Finish(s)
      BY <1>6, <2>0, <3>1 DEF FailsAttempt, Finish, queue, TypeInv, TypeOK, QueueType
    <3>2. CASE UNCHANGED jobState  BY <3>2
    <3>3. QED BY <1>6, <3>1, <3>2
       DEF queue, Run, RunFails, Acquire, Insert, ReadRow, LookupStore, CallPos, TransitionToSaved,
         TransitionToSent, TransitionToCompleted, Transition, Release, AcquireFails, InsertFails, ReadFails,
         AnyTransitionFails, TransitionFails, PosFails, BreakerOpen, ReleaseFails
  <2>5. QED BY <1>2, <1>4, <2>1, <2>3, <2>4
<1>7. ASSUME NEW o \in Orders, Stalled(o) PROVE HandlersKept /\ SlotsKept /\ JobsKept
  <2>1. UNCHANGED <<hpc, dlq, pc, at, outcome, attemptsMade>>  BY <1>7 DEF Stalled, handlers, exec
  <2>2. \A q \in Orders : stalledCount'[q] >= stalledCount[q] /\ stalledCount'[q] \in Nat /\ stalledCount[q] \in Nat
    BY <1>7 DEF Stalled, TypeInv, TypeOK, QueueType
  <2>3. \A q \in Orders : jobState'[q] = "failed" => jobState[q] = "failed"
    BY <1>7 DEF Stalled, TypeInv, TypeOK, QueueType
  <2>4. \A s \in Slots : pc[s] # "idle" => at[s] \in Orders  BY DEF TypeInv, SlotInv
  <2>5. MaxStalledCount \in Nat  BY WorkerAssumption
  <2>6. SlotsKept  BY <1>0, <2>1, <2>2, <2>4, <2>5
  <2>7. JobsKept  BY <1>0, <2>1, <2>2, <2>3, <2>5
  <2>8. QED BY <1>2, <2>1, <2>6, <2>7
<1>8. ASSUME NEW o \in Orders, NEW s \in Slots, Pickup(s, o) PROVE HandlersKept /\ SlotsKept /\ JobsKept
  <2>1. UNCHANGED <<hpc, dlq, attemptsMade, stalledCount>>  BY <1>8 DEF Pickup, handlers
  <2>2. \A q \in Orders : jobState'[q] = "failed" => jobState[q] = "failed"
    BY <1>8 DEF Pickup, TypeInv, TypeOK, QueueType
  <2>3. \A t \in Slots : t # s => SlotStays(t)
    BY <1>8 DEF Pickup, SlotStays, TypeInv, TypeOK, ExecType
  <2>4. SlotPart(s)'
    BY <1>8 DEF Pickup, TypeInv, TypeOK, ExecType
  <2>5. SlotsKept  BY <1>0, <2>1, <2>3, <2>4 DEF SlotStays
  <2>6. QED BY <1>2, <1>4, <2>1, <2>2, <2>5
<1>9. ASSUME NEW o \in Orders,
             \/ PublishOrder(o) \/ LockExpires(o)
             \/ \E to \in PatchStatuses : UpdateStatus(o, to) \/ UpdateOrderStatus(o, to)
      PROVE  HandlersKept /\ SlotsKept /\ JobsKept
  <2>1. UNCHANGED <<hpc, dlq, pc, at, outcome, attemptsMade, stalledCount>>
    BY <1>9 DEF PublishOrder, LockExpires, UpdateStatus, UpdateOrderStatus, SetStatus, handlers, exec, queue
  <2>2. \A q \in Orders : jobState'[q] = "failed" => jobState[q] = "failed"
    BY <1>9 DEF PublishOrder, LockExpires, UpdateStatus, UpdateOrderStatus, SetStatus, queue, TypeInv, TypeOK,
       QueueType
  <2>3. QED BY <1>2, <1>3, <1>4, <2>1, <2>2 DEF SlotStays
<1>10. ASSUME NEW p \in Procs, Die(p), UNCHANGED dlq PROVE HandlersKept /\ SlotsKept /\ JobsKept
  <2>1. HandlersKept  BY <1>0, <1>10, DeadHandlers
  <2>2. UNCHANGED <<jobState, attemptsMade, stalledCount>>  BY <1>10 DEF Die
  <2>3. \A s \in Slots : SlotStays(s) \/ outcome'[s] # "unrecoverable"
    BY <1>10 DEF Die, SlotStays, TypeInv, TypeOK, ExecType
  <2>4. QED BY <1>3, <1>4, <2>1, <2>2, <2>3
<1>11. ASSUME NEW o \in Orders, NEW n \in Attempts, HandleFailure(o, n) \/ ProcessDlq(o, n)
       PROVE  HandlersKept /\ SlotsKept /\ JobsKept
  <2>0. <<o, n>> \in Handlers  BY DEF Handlers
  <2>1. CASE FailRow(o, n) /\ Die(hproc[<<o, n>>])
    BY <1>10, <2>1, RunningHandler DEF FailRow
  <2>2. CASE ~(FailRow(o, n) /\ Die(hproc[<<o, n>>]))
    <3>1. UNCHANGED <<queue, exec>>
      BY <1>11, <2>2 DEF HandleFailure, CountRetry, ReadFailed, FailRow, MarkDlq, PublishToDlq, ProcessDlq
    <3>2. SlotsKept /\ JobsKept
      BY <1>3, <1>4, <3>1 DEF queue, exec, SlotStays
    <3>3. /\ \/ UNCHANGED hpc
             \/ \E l \in HandlerPc : hpc' = [hpc EXCEPT ![<<o, n>>] = l]
          /\ \/ UNCHANGED dlq
             \/ \E d \in {"waiting", "acked"} : dlq' = [dlq EXCEPT ![<<o, n>>] = d]
      BY <1>11, <2>2 DEF HandleFailure, CountRetry, ReadFailed, FailRow, MarkDlq, PublishToDlq, ProcessDlq,
         HandlerGoto, HandlerDone, HandlerPc, handlers
    <3>4. ASSUME NEW q \in Orders, NEW m \in Attempts, <<q, m>> # <<o, n>> PROVE HandlerPart(q, m)'
      <4>1. hpc'[<<q, m>>] = hpc[<<q, m>>]  BY <3>3, <3>4 DEF TypeInv, TypeOK, HandlerType, Handlers
      <4>2. dlq'[<<q, m>>] = dlq[<<q, m>>]  BY <3>3, <3>4 DEF TypeInv, TypeOK, RestType, Handlers
      <4>3. QED BY <1>0, <4>1, <4>2
    <3>5. HandlerPart(o, n)'
      <4>1. CASE CountRetry(o, n)
        <5>1. n < 2 /\ n \in Nat  BY <1>0, <4>1 DEF CountRetry, Attempts
        <5>2. QED BY <5>1
      <4>2. CASE PublishToDlq(o, n)
        <5>1. hpc'[<<o, n>>] = "done" /\ dlq'[<<o, n>>] = "waiting"
          BY <2>0, <4>2 DEF PublishToDlq, HandlerDone, TypeInv, TypeOK, HandlerType, RestType
        <5>2. QED BY <5>1
      <4>3. CASE ProcessDlq(o, n)
        <5>1. hpc'[<<o, n>>] = hpc[<<o, n>>] /\ dlq'[<<o, n>>] = "acked"
          BY <2>0, <4>3 DEF ProcessDlq, handlers, TypeInv, TypeOK, RestType
        <5>2. QED BY <1>0, <5>1
      <4>4. CASE ReadFailed(o, n) \/ FailRow(o, n) \/ MarkDlq(o, n)
        <5>1. \E l \in {"mark", "transition", "publish"} : hpc' = [hpc EXCEPT ![<<o, n>>] = l]
          BY <2>2, <4>4 DEF ReadFailed, FailRow, MarkDlq, HandlerGoto
        <5>2. hpc'[<<o, n>>] \in {"mark", "transition", "publish"}
          BY <2>0, <5>1 DEF TypeInv, TypeOK, HandlerType
        <5>3. QED BY <5>2
      <4>5. QED BY <1>11, <4>1, <4>2, <4>3, <4>4 DEF HandleFailure
    <3>6. HandlersKept  BY <3>4, <3>5
    <3>7. QED BY <3>2, <3>6
  <2>3. QED BY <2>1, <2>2
<1>12. CASE UNCHANGED vars
  BY <1>2, <1>3, <1>4, <1>12 DEF vars, queue, exec, handlers, SlotStays
<1>13. ASSUME NEW p \in Procs, Crash(p) PROVE HandlersKept /\ SlotsKept /\ JobsKept
  BY <1>10, <1>13 DEF Crash
<1>14. QED BY <1>5, <1>6, <1>7, <1>8, <1>9, <1>11, <1>12, <1>13 DEF Next

LEMMA HandOverInvHolds == Spec => [](TypeInv /\ FreshInv /\ HandOverInv)
<1>1. Init => HandOverInv
  BY DEF Init, HandOverInv, Handlers
<1>2. QED BY <1>1, FreshInvHolds, NextHandOver, PTL DEF Spec

-----------------------------------------------------------------------------
(* What the ledger alone promises.  These are consequences of OrderLedger, *)
(* so they hold of whatever implements it: the worker, the worker behind   *)
(* the intake, the worker beside the redrive.                              *)

LedgerTypes ==
    /\ status \in [Orders -> Status \cup {Absent}]
    /\ audit \in [Orders -> Seq(LogLine)]
    /\ calls \in [Orders -> Nat]
    /\ accepted \in [Orders -> BOOLEAN]

\* Line i of the log records the move to one of these.
LoggedSent(o, i) == audit[o][i][2] \in {"SENT_TO_POS", "COMPLETED"}

\* Of an order: handed over at most once, after it was logged as SAVED; taken only if it
\* was handed over; logged as sent or completed only if it was taken, and never with a
\* status of the terminals.
OrderPromise(o) ==
    /\ calls[o] \in {0, 1}
    /\ calls[o] = 1 => Saved(o)
    /\ accepted[o] => calls[o] = 1
    /\ \A i \in DOMAIN audit[o] :
          audit[o][i][2] \in WorkerStatus /\ (LoggedSent(o, i) => accepted[o])
    /\ ~RowExists(o) => audit[o] = << >>

LedgerPromise ==
    /\ LedgerTypes
    /\ KeyInv
    /\ \A o \in Orders : OrderPromise(o)

\* An order whose row, log and dealings with the POS stay keeps its promise.
LEMMA SameOrderPromise ==
  ASSUME NEW o \in Orders, OrderPromise(o),
         status'[o] = status[o], audit'[o] = audit[o], calls'[o] = calls[o], accepted'[o] = accepted[o]
  PROVE  OrderPromise(o)'
  BY DEF OrderPromise, LoggedSent, Saved, RowExists

\* One more line in the log.
LEMMA LoggedOrderPromise ==
  ASSUME LedgerTypes, NEW o \in Orders, OrderPromise(o), NEW e \in LogLine,
         audit'[o] = Append(audit[o], e), RowExists(o)',
         calls'[o] = calls[o], accepted'[o] = accepted[o],
         e[2] \in WorkerStatus, e[2] \in {"SENT_TO_POS", "COMPLETED"} => accepted[o]
  PROVE  OrderPromise(o)'
<1> PICK old : old = audit[o]  OBVIOUS
<1> PICK new : new = audit'[o]  OBVIOUS
<1>1. old \in Seq(LogLine) /\ new = Append(old, e)  BY DEF LedgerTypes
<1>2. DOMAIN old = 1 .. Len(old) /\ DOMAIN new = 1 .. Len(old) + 1 /\ Len(old) \in Nat
  BY <1>1
<1>3. /\ \A i \in DOMAIN old : i \in DOMAIN new /\ new[i] = old[i]
      /\ \A i \in DOMAIN new : i \in DOMAIN old \/ new[i] = e
  BY <1>1, <1>2, AppendFacts
<1>4. Saved(o) => Saved(o)'
  BY <1>3 DEF Saved
<1>5. \A i \in DOMAIN new :
        new[i][2] \in WorkerStatus /\ (new[i][2] \in {"SENT_TO_POS", "COMPLETED"} => accepted[o])
  BY <1>3 DEF OrderPromise, LoggedSent
<1> QED
  BY <1>4, <1>5 DEF OrderPromise, LoggedSent

LEMMA LedgerNextPromise ==
  ASSUME LedgerPromise, [Ledger!LedgerNext]_(Ledger!ledgerVars)
  PROVE  LedgerPromise'
<1>0. Ledger!Absent = Absent /\ Ledger!Status = Status /\ Absent \notin Status
  BY StatusFacts DEF Ledger!Absent, Absent, Ledger!Status, Ledger!WorkerStatus, Ledger!PosStatus, Status, WorkerStatus, PosStatus
<1>1. ASSUME NEW o \in Orders, Ledger!Create(o) PROVE LedgerPromise'
  <2>1. /\ \A q \in Orders : KeyOf[q] = KeyOf[o] => status[q] = Absent
        /\ status' = [status EXCEPT ![o] = "QUEUED"]
        /\ audit' = [audit EXCEPT ![o] = Append(@, <<Absent, "QUEUED">>)]
        /\ UNCHANGED <<calls, accepted>>
    BY <1>0, <1>1 DEF Ledger!Create
  <2>2. <<Absent, "QUEUED">> \in LogLine /\ "QUEUED" \in Status
    BY DEF LogLine, Status, WorkerStatus, Absent
  <2>3. LedgerTypes'
    BY <2>1, <2>2 DEF LedgerPromise, LedgerTypes
  <2>4. \A q \in Orders : status'[q] = IF q = o THEN "QUEUED" ELSE status[q]
    BY <2>1 DEF LedgerPromise, LedgerTypes
  <2>5. \A q \in Orders : RowExists(q)' <=> (q = o \/ RowExists(q))
    BY <2>2, <2>4, <1>0 DEF RowExists
  <2>6. KeyInv'
    BY <2>1, <2>5 DEF LedgerPromise, KeyInv, RowExists
  <2>7. ASSUME NEW q \in Orders PROVE OrderPromise(q)'
    <3>1. CASE q = o
      <4>1. audit'[q] = Append(audit[q], <<Absent, "QUEUED">>) /\ RowExists(q)'
        BY <2>1, <2>5, <3>1 DEF LedgerPromise, LedgerTypes
      <4> QED
        BY <2>1, <2>2, <4>1, LoggedOrderPromise DEF LedgerPromise, WorkerStatus
    <3>2. CASE q # o
      <4>1. status'[q] = status[q] /\ audit'[q] = audit[q]
        BY <2>1, <3>2 DEF LedgerPromise, LedgerTypes
      <4> QED
        BY <2>1, <4>1, SameOrderPromise DEF LedgerPromise
    <3> QED
      BY <3>1, <3>2
  <2> QED
    BY <2>3, <2>6, <2>7 DEF LedgerPromise
<1>2. ASSUME NEW o \in Orders, Ledger!Submit(o) PROVE LedgerPromise'
  <2>1. /\ Saved(o)
        /\ calls[o] = 0
        /\ calls' = [calls EXCEPT ![o] = 1]
        /\ UNCHANGED <<status, audit>>
    BY <1>2 DEF Ledger!Submit, Saved
  <2>2. PICK ok \in BOOLEAN : accepted' = [accepted EXCEPT ![o] = ok]
    BY <1>2 DEF Ledger!Submit
  <2>3. LedgerTypes' /\ KeyInv'
    BY <2>1, <2>2 DEF LedgerPromise, LedgerTypes, KeyInv, RowExists
  <2>4. ASSUME NEW q \in Orders PROVE OrderPromise(q)'
    <3>1. CASE q = o
      <4>1. calls'[q] = 1 /\ ~accepted[q] /\ Saved(q)'
        BY <2>1, <3>1 DEF LedgerPromise, LedgerTypes, OrderPromise, Saved
      <4>2. \A i \in DOMAIN audit[q] : ~LoggedSent(q, i)
        BY <4>1 DEF LedgerPromise, OrderPromise
      <4> QED
        BY <2>1, <4>1, <4>2 DEF LedgerPromise, OrderPromise, LoggedSent, RowExists
    <3>2. CASE q # o
      <4>1. calls'[q] = calls[q] /\ accepted'[q] = accepted[q]
        BY <2>1, <2>2, <3>2 DEF LedgerPromise, LedgerTypes
      <4> QED
        BY <2>1, <4>1, SameOrderPromise DEF LedgerPromise
    <3> QED
      BY <3>1, <3>2
  <2> QED
    BY <2>3, <2>4 DEF LedgerPromise
<1>3. ASSUME NEW o \in Orders, NEW to \in Status, Ledger!Advance(o, to) PROVE LedgerPromise'
  <2>1. /\ to \in {"SENT_TO_POS", "COMPLETED"} => accepted[o]
        /\ status' = [status EXCEPT ![o] = to]
        /\ audit' = [audit EXCEPT ![o] = Append(@, <<status[o], to>>)]
        /\ UNCHANGED <<calls, accepted>>
    BY <1>3 DEF Ledger!Advance
  <2>2. RowExists(o)
    BY <1>3 DEF Ledger!Advance, Ledger!Validate, Ledger!AllowedTransitions, RowExists, Absent
  <2>3. <<status[o], to>> \in LogLine /\ to \in WorkerStatus
    BY <1>3 DEF LogLine, LedgerPromise, LedgerTypes, Ledger!Advance, Ledger!Validate,
       Ledger!AllowedTransitions, WorkerStatus
  <2>4. LedgerTypes'
    BY <2>1, <2>3 DEF LedgerPromise, LedgerTypes
  <2>5. \A q \in Orders : RowExists(q)' <=> RowExists(q)
    BY <1>0, <2>1, <2>2 DEF RowExists, LedgerPromise, LedgerTypes
  <2>6. KeyInv'
    BY <2>5 DEF LedgerPromise, KeyInv
  <2>7. ASSUME NEW q \in Orders PROVE OrderPromise(q)'
    <3>1. CASE q = o
      <4>1. audit'[q] = Append(audit[q], <<status[o], to>>) /\ RowExists(q)'
        BY <2>1, <2>2, <2>5, <3>1 DEF LedgerPromise, LedgerTypes
      <4> PICK e \in LogLine : e = <<status[o], to>>
        BY <2>3
      <4>2. e[2] = to
        OBVIOUS
      <4> QED
        BY <2>1, <2>3, <3>1, <4>1, <4>2, LoggedOrderPromise DEF LedgerPromise
    <3>2. CASE q # o
      <4>1. status'[q] = status[q] /\ audit'[q] = audit[q]
        BY <2>1, <3>2 DEF LedgerPromise, LedgerTypes
      <4> QED
        BY <2>1, <4>1, SameOrderPromise DEF LedgerPromise
    <3> QED
      BY <3>1, <3>2
  <2> QED
    BY <2>4, <2>6, <2>7 DEF LedgerPromise
<1>4. ASSUME NEW o \in Orders, NEW to \in Status, Ledger!Override(o, to) PROVE LedgerPromise'
  <2>1. /\ RowExists(o)
        /\ status' = [status EXCEPT ![o] = to]
        /\ UNCHANGED <<audit, calls, accepted>>
    BY <1>0, <1>4 DEF Ledger!Override, RowExists
  <2>2. LedgerTypes'
    BY <2>1 DEF LedgerPromise, LedgerTypes
  <2>3. \A q \in Orders : RowExists(q)' <=> RowExists(q)
    BY <1>0, <2>1 DEF RowExists, LedgerPromise, LedgerTypes
  <2>4. KeyInv'
    BY <2>3 DEF LedgerPromise, KeyInv
  <2>5. ASSUME NEW q \in Orders PROVE OrderPromise(q)'
    BY <2>1, <2>3 DEF LedgerPromise, OrderPromise, LoggedSent, Saved
  <2> QED
    BY <2>2, <2>4, <2>5 DEF LedgerPromise
<1>5. CASE UNCHANGED Ledger!ledgerVars
  BY <1>5 DEF Ledger!ledgerVars, LedgerPromise, LedgerTypes, KeyInv, OrderPromise, LoggedSent, Saved, RowExists
<1> QED
  BY <1>0, <1>1, <1>2, <1>3, <1>4, <1>5 DEF Ledger!LedgerNext

\* The ledger's promise: at most one row per key and one submission per row, no
\* acceptance without a submission, none without SAVED in the log, and no SENT_TO_POS
\* or COMPLETED in the log of an order the POS has not taken.
THEOREM LedgerKeepsPromise == Ledger!LedgerSpec => []LedgerPromise
<1>1. Ledger!LedgerInit => LedgerPromise
  <2> SUFFICES ASSUME Ledger!LedgerInit PROVE LedgerPromise
    OBVIOUS
  <2>1. LedgerTypes /\ \A o \in Orders : ~RowExists(o) /\ audit[o] = << >>
    BY DEF Ledger!LedgerInit, Ledger!Absent, Absent, LedgerTypes, RowExists
  <2> QED
    BY <2>1 DEF Ledger!LedgerInit, LedgerPromise, KeyInv, OrderPromise
<1> QED
  BY <1>1, LedgerNextPromise, PTL DEF Ledger!LedgerSpec

\* Through the refinement the worker keeps it, with its queue, lock, retries, crashes and
\* failure handlers.
THEOREM WorkerKeepsPromise == Spec => []LedgerPromise
  BY LedgerKeepsPromise, WorkerImplementsLedger, PTL DEF ImplementsLedger

\* A row that no terminal has touched shows SENT_TO_POS or COMPLETED only if the POS was
\* called once, for an order logged as SAVED, and took it.
SentIsTaken ==
    \A o \in Orders : patches[o] = 0 /\ status[o] \in {"SENT_TO_POS", "COMPLETED"} =>
        accepted[o] /\ calls[o] = 1 /\ Saved(o)

\* What the status says of the POS is true, for every order and whatever fails between the
\* POS call and the two transitions that follow it.
THEOREM SentOrdersWereTaken == Spec => []SentIsTaken
<1>1. ASSUME TypeInv, LedgerPromise, AuditTrail PROVE SentIsTaken
  <2> SUFFICES ASSUME NEW o \in Orders, patches[o] = 0, status[o] \in {"SENT_TO_POS", "COMPLETED"}
               PROVE  accepted[o] /\ calls[o] = 1 /\ Saved(o)
    BY DEF SentIsTaken
  <2>1. Len(audit[o]) = version[o] + 1 /\ audit[o][Len(audit[o])][2] = status[o]
    BY <1>1 DEF AuditTrail, RowExists, Absent
  <2>2. audit[o] \in Seq(LogLine) /\ version[o] \in Nat
    BY <1>1 DEF TypeInv, TypeOK, TableType
  <2>3. Len(audit[o]) \in DOMAIN audit[o]
    BY <2>1, <2>2
  <2> QED
    BY <1>1, <2>1, <2>3 DEF LedgerPromise, OrderPromise, LoggedSent
<1> QED
  BY <1>1, PosInvHolds, WorkerKeepsPromise, LogIsTrue, PTL

-----------------------------------------------------------------------------
(* What becomes of an order whose execution throws or dies between its     *)
(* insert and the POS.  Every later execution of its key meets the row and *)
(* ends as a duplicate, so nobody takes the order up where it was left.    *)

\* The order is stored, was not handed to the POS, and nobody is on the way there.
Abandoned(o) ==
    /\ RowExists(o)
    /\ calls[o] = 0
    /\ \A s \in Slots : ~(pc[s] \in PrePos /\ at[s] = o)

\* An execution gets on the way to the POS by creating its row, and only so.
OwnersCreate ==
    \A s \in Slots :
        pc'[s] \in PrePos => at'[s] = at[s] /\ (pc[s] \in PrePos \/ ~RowExists(at[s]))

LEMMA NextOwnersCreate ==
  ASSUME TypeInv, [Next]_vars
  PROVE  OwnersCreate
<1>1. ASSUME NoNewOwner PROVE OwnersCreate
  BY <1>1 DEF NoNewOwner, OwnersCreate
<1>2. ASSUME NEW s \in Slots, Run(s) PROVE OwnersCreate
  <2>1. CASE Insert(s)
    <3>1. at[s] \in Orders
      BY <2>1 DEF Insert, TypeInv, SlotInv
    <3>2. CASE ~KeyTaken(at[s]) /\ Goto(s, "reread")
      BY <3>1, <3>2 DEF KeyTaken, Goto, OwnersCreate, TypeInv, TypeOK, ExecType
    <3>3. CASE Goto(s, "release")
      BY <1>1, <3>3, StayOff DEF PrePos
    <3> QED
      BY <2>1, <3>2, <3>3 DEF Insert
  <2>2. CASE ReadRow(s) \/ Finish(s)
    <3>1. NoNewOwner
      BY <2>2 DEF ReadRow, ReadNext, Finish, Idle, NoNewOwner, PrePos, TypeInv, TypeOK, ExecType
    <3> QED
      BY <1>1, <3>1
  <2>3. ASSUME NEW l, Goto(s, l) \/ ThrowTo(s, l), pc[s] \in PrePos \/ l \notin PrePos
        PROVE  OwnersCreate
    BY <1>1, <2>3, StayOff
  <2>4. CASE \/ TransitionToSaved(s) \/ TransitionToSent(s) \/ TransitionToCompleted(s)
    BY <2>3, <2>4 DEF TransitionToSaved, TransitionToSent, TransitionToCompleted, Transition, Throw, PrePos
  <2>5. CASE Acquire(s) \/ LookupStore(s) \/ CallPos(s) \/ Release(s)
    BY <2>3, <2>5 DEF Acquire, LookupStore, CallPos, Release, PrePos
  <2> QED
    BY <1>2, <2>1, <2>2, <2>4, <2>5 DEF Run
<1>3. ASSUME NEW s \in Slots, RunFails(s) PROVE OwnersCreate
  <2>1. ThrowTo(s, "release") \/ ThrowTo(s, "finish")
    BY <1>3 DEF RunFails, AcquireFails, InsertFails, ReadFails, AnyTransitionFails, TransitionFails, PosFails,
       BreakerOpen, ReleaseFails, Throw
  <2> QED
    BY <1>1, <2>1, StayOff DEF PrePos
<1>4. ASSUME UNCHANGED <<pc, at>> \/ \E p : Die(p) PROVE OwnersCreate
  <2>1. NoNewOwner
    BY <1>4, DieNoNewOwner DEF NoNewOwner
  <2> QED
    BY <1>1, <2>1
<1>5. ASSUME NEW o \in Orders, NEW s \in Slots, Pickup(s, o) PROVE OwnersCreate
  <2>1. NoNewOwner
    BY <1>5 DEF Pickup, NoNewOwner, PrePos, TypeInv, TypeOK, ExecType
  <2> QED
    BY <1>1, <2>1
<1>6. ASSUME NEW o \in Orders,
             \/ PublishOrder(o) \/ Stalled(o) \/ LockExpires(o)
             \/ \E n \in Attempts : HandleFailure(o, n) \/ ProcessDlq(o, n)
             \/ \E to \in PatchStatuses : UpdateStatus(o, to) \/ UpdateOrderStatus(o, to)
      PROVE  OwnersCreate
  BY <1>4, <1>6 DEF exec, PublishOrder, Stalled, LockExpires, HandleFailure, CountRetry, ReadFailed,
     FailRow, MarkDlq, PublishToDlq, ProcessDlq, UpdateStatus, UpdateOrderStatus, SetStatus
<1>7. CASE (\E p \in Procs : Crash(p)) \/ UNCHANGED vars
  BY <1>4, <1>7 DEF Crash, vars, exec
<1> QED
  BY <1>2, <1>3, <1>5, <1>6, <1>7 DEF Next

LEMMA NextAbandoned ==
  ASSUME TypeInv, [Next]_vars, NEW o \in Orders, Abandoned(o)
  PROVE  Abandoned(o)'
<1>1. RowExists(o)'
  BY NextRowsStay DEF RowsStay, Abandoned
<1>2. \A s \in Slots : ~(pc'[s] \in PrePos /\ at'[s] = o)
  BY NextOwnersCreate DEF OwnersCreate, Abandoned
<1>3. calls'[o] = 0
  <2>1. ASSUME NEW s \in Slots, CallPos(s) \/ PosFails(s) PROVE calls'[o] = 0
    <3>1. at[s] # o
      BY <2>1 DEF CallPos, PosFails, Abandoned, PrePos
    <3> QED
      BY <2>1, <3>1, CallEffect DEF Abandoned, TypeInv, TypeOK, RestType
  <2> QED
    BY <2>1, PosVarsStay DEF Abandoned
<1> QED
  BY <1>1, <1>2, <1>3 DEF Abandoned

\* Nothing under its key reaches the POS, and no step of the worker records it as sent.
NeverSent(o) ==
    /\ \A q \in Orders : KeyOf[q] = KeyOf[o] => calls[q] = 0 /\ ~accepted[q]
    /\ \A i \in DOMAIN audit[o] : ~LoggedSent(o, i)
    /\ patches[o] = 0 => status[o] \in {"QUEUED", "SAVED", "FAILED"}

\* Once the execution that created an order's row has thrown or died short of the POS
\* call, no retry, redelivery or second job of its key ever calls the POS, and without a
\* terminal's PATCH its row never gets past SAVED or FAILED.  This is what
\* worker_saved_resumed shows on one order, for every instance.
THEOREM AbandonedForGood ==
  ASSUME NEW o \in Orders
  PROVE  Spec => [](Abandoned(o) => []NeverSent(o))
<1>1. TypeInv /\ Abandoned(o) /\ [Next]_vars => Abandoned(o)'
  BY NextAbandoned
<1>2. ASSUME TypeInv, PosInv, LedgerPromise, AuditTrail, Abandoned(o) PROVE NeverSent(o)
  <2>1. \A q \in Orders : KeyOf[q] = KeyOf[o] => calls[q] = 0 /\ ~accepted[q]
    <3> SUFFICES ASSUME NEW q \in Orders, KeyOf[q] = KeyOf[o] PROVE calls[q] = 0 /\ ~accepted[q]
      OBVIOUS
    <3>1. calls[q] = 0
      BY <1>2 DEF PosInv, CallsInv, KeyInv, Abandoned, TypeInv, TypeOK, RestType
    <3> QED
      BY <1>2, <3>1 DEF LedgerPromise, OrderPromise
  <2>2. \A i \in DOMAIN audit[o] : ~LoggedSent(o, i)
    BY <1>2, <2>1 DEF LedgerPromise, OrderPromise
  <2>3. ASSUME patches[o] = 0 PROVE status[o] \in {"QUEUED", "SAVED", "FAILED"}
    <3>1. Len(audit[o]) = version[o] + 1 /\ audit[o][Len(audit[o])][2] = status[o]
      BY <1>2, <2>3 DEF AuditTrail, Abandoned
    <3>2. audit[o] \in Seq(LogLine) /\ version[o] \in Nat
      BY <1>2 DEF TypeInv, TypeOK, TableType
    <3>3. Len(audit[o]) \in DOMAIN audit[o]
      BY <3>1, <3>2
    <3>4. status[o] \notin {"SENT_TO_POS", "COMPLETED"}
      BY <2>2, <3>1, <3>3 DEF LoggedSent
    <3>5. status[o] \in WorkerStatus
      BY <1>2, <3>1, <3>3 DEF LedgerPromise, OrderPromise
    <3> QED
      BY <3>4, <3>5 DEF WorkerStatus
  <2> QED
    BY <2>1, <2>2, <2>3 DEF NeverSent
<1>3. Spec => [](TypeInv /\ PosInv /\ LedgerPromise /\ AuditTrail)
  BY PosInvHolds, WorkerKeepsPromise, LogIsTrue, PTL
<1> QED
  BY <1>1, <1>2, <1>3, PTL DEF Spec

-----------------------------------------------------------------------------
(* Jobs that have ended, and orders that are stranded behind one.          *)

Finished(o) == jobState[o] \in {"completed", "failed"}

LEMMA NextFinished ==
  ASSUME TypeInv, [Next]_vars, NEW o \in Orders, Finished(o)
  PROVE  jobState'[o] = jobState[o] /\ attemptsMade'[o] = attemptsMade[o]
<1> DEFINE Ends == jobState'[o] = jobState[o] /\ attemptsMade'[o] = attemptsMade[o]
<1>1. ASSUME NEW s \in Slots, Finish(s) PROVE Ends
  <2>1. at[s] \in Orders
    BY <1>1 DEF Finish, TypeInv, SlotInv
  <2>2. CASE owner[at[s]] = s
    \* The report of an owner is about an active job, so about another one.
    <3>1. at[s] # o
      BY <2>1, <2>2, WorkerAssumption DEF Finished, TypeInv, JobInv
    <3> QED
      BY <1>1, <2>2, <3>1 DEF Finish, TypeInv, TypeOK, QueueType
  <2>3. CASE owner[at[s]] # s
    BY <1>1, <2>3 DEF Finish, queue
  <2> QED
    BY <2>2, <2>3
<1>2. ASSUME NEW s \in Slots, Run(s) \/ RunFails(s) PROVE Ends
  BY <1>1, <1>2
     DEF queue, Run, RunFails, Acquire, Insert, ReadRow, LookupStore, CallPos, TransitionToSaved,
         TransitionToSent, TransitionToCompleted, Transition, Release, AcquireFails, InsertFails, ReadFails,
         AnyTransitionFails, TransitionFails, PosFails, BreakerOpen, ReleaseFails
<1>3. ASSUME NEW q \in Orders,
             PublishOrder(q) \/ Stalled(q) \/ LockExpires(q) \/ \E s \in Slots : Pickup(s, q)
      PROVE  Ends
  BY <1>3 DEF PublishOrder, Stalled, LockExpires, Pickup, queue, Finished, TypeInv, TypeOK, QueueType
<1>4. ASSUME NEW q \in Orders,
             \/ \E n \in Attempts : HandleFailure(q, n) \/ ProcessDlq(q, n)
             \/ \E to \in PatchStatuses : UpdateStatus(q, to) \/ UpdateOrderStatus(q, to)
      PROVE  Ends
  BY <1>4 DEF queue, HandleFailure, CountRetry, ReadFailed, FailRow, MarkDlq, PublishToDlq, ProcessDlq, Die,
     UpdateStatus, UpdateOrderStatus, SetStatus
<1>5. CASE (\E p \in Procs : Crash(p)) \/ UNCHANGED vars
  BY <1>5 DEF Crash, Die, vars, queue
<1> QED
  BY <1>2, <1>3, <1>4, <1>5 DEF Next

\* A job that has ended stays as it ended, its attempts counted, whatever executions of it
\* are still under way after the job was taken from them.
THEOREM EndedJobsStay ==
  Spec => [][\A o \in Orders : Finished(o) =>
               jobState'[o] = jobState[o] /\ attemptsMade'[o] = attemptsMade[o]]_vars
<1>1. TypeInv /\ [Next]_vars =>
        [\A o \in Orders : Finished(o) =>
           jobState'[o] = jobState[o] /\ attemptsMade'[o] = attemptsMade[o]]_vars
  BY NextFinished
<1>2. Spec => []TypeInv
  BY PosInvHolds, PTL
<1> QED
  BY <1>1, <1>2, PTL DEF Spec

\* The order was left short of the POS, its job has ended, as a duplicate or failed, and no
\* handler is on the way to mark it FAILED.
Stranded(o) ==
    /\ Abandoned(o)
    /\ Finished(o)
    /\ status[o] \in {"QUEUED", "SAVED"}
    /\ \A n \in Attempts : hpc[<<o, n>>] \notin {"read", "transition"}

LEMMA StrandedRow ==
  ASSUME TypeInv, PosInv, ConsentInv, [Next]_vars, NEW o \in Orders, Stranded(o), patches'[o] = patches[o]
  PROVE  status'[o] = status[o]
<1>0. RowExists(o) /\ ~accepted[o]
  BY DEF Stranded, Abandoned, ConsentInv, TypeInv, TypeOK, RestType
<1>1. ASSUME NEW q \in Orders, NEW x, q # o, status' = [status EXCEPT ![q] = x]
      PROVE  status'[o] = status[o]
  BY <1>1 DEF TypeInv, TypeOK, TableType
<1>2. ASSUME NEW s \in Slots, Run(s) \/ RunFails(s) PROVE status'[o] = status[o]
  <2>0. at[s] \in Orders
    BY <1>2, ExecAt
  <2>1. CASE Insert(s) \/ InsertFails(s)
    BY <1>0, <1>1, <2>0, <2>1 DEF Insert, InsertFails, CreateRow, KeyTaken, table
  <2>2. CASE pc[s] \in {"save", "sent", "complete"}
    \* Nobody who could move this order's row is at work on it.
    <3>1. at[s] # o
      BY <1>0, <2>2 DEF Stranded, Abandoned, PrePos, ConsentInv, ConsentAt
    <3>2. ASSUME NEW from, NEW to, NEW next, Transition(s, from, to, next) \/ TransitionFails(s, from, to)
          PROVE  status'[o] = status[o]
      BY <1>1, <2>0, <3>1, <3>2 DEF Transition, TransitionFails, MoveRow, table
    <3> QED
      BY <1>2, <2>2, <3>2
         DEF Run, RunFails, Acquire, Insert, ReadRow, ReadNext, LookupStore, CallPos, TransitionToSaved,
             TransitionToSent, TransitionToCompleted, Release, Finish, AcquireFails, InsertFails, ReadFails,
             AnyTransitionFails, PosFails, BreakerOpen, ReleaseFails
  <2>3. CASE ~(Insert(s) \/ InsertFails(s)) /\ pc[s] \notin {"save", "sent", "complete"}
    BY <1>2, <2>3
       DEF table, Run, RunFails, Acquire, ReadRow, LookupStore, CallPos, TransitionToSaved,
           TransitionToSent, TransitionToCompleted, Release, Finish, AcquireFails, ReadFails,
           AnyTransitionFails, PosFails, BreakerOpen, ReleaseFails
  <2> QED
    BY <2>1, <2>2, <2>3
<1>3. ASSUME NEW q \in Orders, NEW n \in Attempts, HandleFailure(q, n) \/ ProcessDlq(q, n)
      PROVE  status'[o] = status[o]
  <2>1. CASE FailRow(q, n)
    <3>1. q # o
      BY <2>1 DEF FailRow, Stranded
    <3> QED
      BY <1>1, <2>1, <3>1 DEF FailRow, MoveRow, table
  <2> QED
    BY <1>3, <2>1 DEF HandleFailure, CountRetry, ReadFailed, MarkDlq, PublishToDlq, ProcessDlq, table
<1>4. ASSUME NEW q \in Orders, NEW to \in PatchStatuses, SetStatus(q, to) PROVE status'[o] = status[o]
  <2>1. q # o
    BY <1>4, WorkerAssumption DEF SetStatus, TypeInv, TypeOK, RestType
  <2> QED
    BY <1>1, <1>4, <2>1 DEF SetStatus
<1>5. ASSUME NEW q \in Orders,
             PublishOrder(q) \/ Stalled(q) \/ LockExpires(q) \/ \E s \in Slots : Pickup(s, q)
      PROVE  status'[o] = status[o]
  BY <1>5 DEF PublishOrder, Stalled, LockExpires, Pickup, table
<1>6. CASE (\E p \in Procs : Crash(p)) \/ UNCHANGED vars
  BY <1>6 DEF Crash, vars, table
<1> QED
  BY <1>2, <1>3, <1>4, <1>5, <1>6 DEF Next, UpdateStatus, UpdateOrderStatus

LEMMA StrandedHandlers ==
  ASSUME TypeInv, FreshInv, [Next]_vars, NEW o \in Orders, Stranded(o), NEW n \in Attempts
  PROVE  hpc'[<<o, n>>] \notin {"read", "transition"}
<1> DEFINE Off == hpc'[<<o, n>>] \notin {"read", "transition"}
<1>0. hpc[<<o, n>>] \notin {"read", "transition"} /\ <<o, n>> \in Handlers
  BY DEF Stranded, Handlers
<1>1. CASE UNCHANGED hpc
  BY <1>0, <1>1
<1>2. ASSUME NEW s \in Slots, Run(s) \/ RunFails(s) PROVE Off
  <2>1. CASE FailsAttempt(s)
    <3>1. at[s] \in Orders /\ jobState[at[s]] = "active"
      BY <2>1, WorkerAssumption DEF FailsAttempt, Finish, TypeInv, SlotInv, JobInv
    <3>2. at[s] # o
      BY <3>1 DEF Stranded, Finished
    <3>3. PICK q \in Orders, m \in Attempts : q = at[s] /\ StartHandler(s, q, m)
      BY <2>1, FailedAttempt
    <3>4. <<q, m>> # <<o, n>>
      BY <3>2, <3>3
    <3> QED
      BY <1>0, <3>3, <3>4 DEF StartHandler, TypeInv, TypeOK, HandlerType
  <2>2. CASE ~FailsAttempt(s)
    BY <1>1, <1>2, <2>2, RunHandlers DEF handlers
  <2> QED
    BY <2>1, <2>2
<1>3. ASSUME NEW p, Die(p) PROVE Off
  BY <1>0, <1>3 DEF Die
<1>4. ASSUME NEW q \in Orders, NEW m \in Attempts, HandleFailure(q, m) \/ ProcessDlq(q, m)
      PROVE  Off
  <2>1. <<q, m>> = <<o, n>> => hpc[<<q, m>>] \notin {"read", "transition"}
    BY <1>0
  <2>2. CASE ReadFailed(q, m) \/ FailRow(q, m)
    <3>1. <<q, m>> # <<o, n>>
      BY <2>1, <2>2 DEF ReadFailed, FailRow
    <3> QED
      BY <1>0, <1>1, <1>3, <2>2, <3>1 DEF ReadFailed, FailRow, HandlerGoto, TypeInv, TypeOK, HandlerType
  <2>3. CASE CountRetry(q, m) \/ MarkDlq(q, m) \/ PublishToDlq(q, m)
    BY <1>0, <2>3 DEF CountRetry, MarkDlq, PublishToDlq, HandlerDone, HandlerGoto, TypeInv, TypeOK, HandlerType
  <2>4. CASE ProcessDlq(q, m)
    BY <1>1, <2>4 DEF ProcessDlq, handlers
  <2> QED
    BY <1>4, <2>2, <2>3, <2>4 DEF HandleFailure
<1>5. ASSUME NEW q \in Orders,
             \/ PublishOrder(q) \/ Stalled(q) \/ LockExpires(q) \/ \E s \in Slots : Pickup(s, q)
             \/ \E to \in PatchStatuses : UpdateStatus(q, to) \/ UpdateOrderStatus(q, to)
      PROVE  Off
  BY <1>1, <1>5 DEF PublishOrder, Stalled, LockExpires, Pickup, UpdateStatus, UpdateOrderStatus, SetStatus, handlers
<1>6. CASE (\E p \in Procs : Crash(p)) \/ UNCHANGED vars
  BY <1>1, <1>3, <1>6 DEF Crash, vars, handlers
<1> QED
  BY <1>2, <1>4, <1>5, <1>6 DEF Next

\* A stranded order is stranded for good: only a terminal's PATCH ever touches its row
\* again.  It stays QUEUED or SAVED behind a job that has ended, and the operator's list
\* of FAILED orders never shows it.
THEOREM StrandedForGood ==
  Spec => [][\A o \in Orders : Stranded(o) /\ patches'[o] = patches[o] =>
               Stranded(o)' /\ status'[o] = status[o] /\ ~Listed(o)']_vars
<1>1. ASSUME TypeInv, PosInv, ConsentInv, FreshInv, [Next]_vars, NEW o \in Orders, Stranded(o),
             patches'[o] = patches[o]
      PROVE  Stranded(o)' /\ status'[o] = status[o] /\ ~Listed(o)'
  <2>1. status'[o] = status[o] /\ status[o] \in {"QUEUED", "SAVED"}
    BY <1>1, StrandedRow DEF Stranded
  <2>2. Abandoned(o)' /\ Finished(o)'
    BY <1>1, NextAbandoned, NextFinished DEF Stranded, Finished
  <2>3. \A n \in Attempts : hpc'[<<o, n>>] \notin {"read", "transition"}
    BY <1>1, StrandedHandlers
  <2> QED
    BY <2>1, <2>2, <2>3 DEF Stranded, Listed
<1>2. TypeInv /\ PosInv /\ ConsentInv /\ FreshInv /\ [Next]_vars =>
        [\A o \in Orders : Stranded(o) /\ patches'[o] = patches[o] =>
           Stranded(o)' /\ status'[o] = status[o] /\ ~Listed(o)']_vars
  BY <1>1
<1> QED
  BY <1>2, ConsentInvHolds, FreshInvHolds, PTL DEF Spec

=============================================================================
