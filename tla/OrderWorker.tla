---------------------------- MODULE OrderWorker ----------------------------
(***************************************************************************)
(* The asynchronous half of the order pipeline: the orders-main queue      *)
(* (BullMQ), the executions of ProcessOrderService.process on the worker   *)
(* processes, the distributed lock, the orders and order_state_transitions *)
(* tables, the POS, the 'failed' event handler that moves orders to the    *)
(* dead letter queue, the DLQ processor, and the PATCH endpoints through   *)
(* which the POS terminals overwrite a status.                             *)
(*                                                                         *)
(* An order id stands for one accepted request; KeyOf[o] is the            *)
(* idempotency key it carries.  Two ids may carry one key: the intake      *)
(* releases the key when it fails after publishing.                        *)
(*                                                                         *)
(* Every await of the code is a step boundary.  A database transaction is  *)
(* one step; its failure is a step of its own that either leaves no trace  *)
(* or has committed and lost the answer.                                   *)
(***************************************************************************)
EXTENDS Integers, Sequences, FiniteSets, OrderStateMachine

CONSTANTS
    Orders,          \* order ids, one per published job
    Keys, KeyOf,     \* idempotency keys
    Procs,           \* worker processes (WORKER_ID)
    Slots, ProcOf,   \* concurrent executions and the process each runs in
    None,            \* no order, no slot, no process
    MaxAttempts,     \* retry.maxAttempts
    MaxStalledCount, \* BullMQ's maxStalledCount
    PatchStatuses,   \* bound: the statuses PATCH calls set (the code takes all nine)
    MaxFaults,       \* bound: failures the environment may inject
    MaxPatches       \* bound: PATCH calls per order

ASSUME WorkerAssumption ==
    /\ KeyOf \in [Orders -> Keys]
    /\ ProcOf \in [Slots -> Procs]
    /\ None \notin Orders \cup Slots \cup Procs
    /\ MaxAttempts \in Nat \ {0}
    /\ MaxStalledCount \in Nat
    /\ PatchStatuses \subseteq Status
    /\ MaxFaults \in Nat
    /\ MaxPatches \in Nat

VARIABLES
    \* orders-main (BullMQ), one job order-<o> per order
    jobState,     \* jobState[o]     : where the job is
    attemptsMade, \* attemptsMade[o] : failed attempts, as the 'failed' event reports them
    stalledCount, \* stalledCount[o] : how often it was taken from a silent worker
    owner,        \* owner[o]        : execution that holds the job, or None
    \* executions of ProcessOrderService.process
    pc, at,       \* pc[s], at[s]    : next await, and the order being processed
    ver,          \* ver[s]          : version the execution read last
    outcome,      \* outcome[s]      : how the try block ended
    overrun,      \* overrun[s]      : the lock's TTL ran out under it or under an execution
                  \*                   it shares its token with (history)
    \* Redis
    lock,         \* lock[o]         : process whose token is in lock:order:<o>, or None
    \* the orders table and order_state_transitions
    status, version, dlqAt, retryCount,
    audit,        \* audit[o]        : the logged transitions <<from, to>>
    \* handleFailure after attempt n of order o: next await, process, row it read
    hpc, hproc, hseen, hver,
    dlq,          \* dlq[<<o, n>>]       : the orders-dlq job that handler published
    \* what the store's POS saw of the order
    calls,        \* calls[o]        : executions that called it
    accepted,     \* accepted[o]     : it took the order
    \* history and bounds
    patches,      \* patches[o]      : PATCH calls that hit the row
    faults        \* failures injected so far

queue    == <<jobState, attemptsMade, stalledCount, owner>>
exec     == <<pc, at, ver, outcome, overrun>>
table    == <<status, version, dlqAt, retryCount, audit>>
handlers == <<hpc, hproc, hseen, hver>>
posVars  == <<calls, accepted>>

vars == <<queue, exec, lock, table, handlers, dlq, posVars, patches, faults>>

Attempts == 1 .. MaxAttempts
Handlers == Orders \X Attempts

-----------------------------------------------------------------------------
(* State.                                                                  *)

JobState == {"none", "wait", "active", "completed", "failed"}

\* One program counter value per await of process() and processWithLock().
Pc == {"idle", "acquire", "insert", "reread", "save", "lookup", "pos",
       "readSaved", "sent", "readSent", "complete", "release", "finish"}

\* Resolved, rejected with a retryable error, or failed by BullMQ itself because
\* the job stalled too often.
Outcome == {"ok", "retry", "unrecoverable"}

\* One value per await of handleFailure() and moveToDlq(); "lost" is a handler
\* that died with its process.
HandlerPc == {"none", "count", "read", "transition", "mark", "publish", "done", "lost"}

QueueType ==
    /\ jobState \in [Orders -> JobState]
    /\ attemptsMade \in [Orders -> 0 .. MaxAttempts]
    /\ stalledCount \in [Orders -> Nat]
    /\ owner \in [Orders -> Slots \cup {None}]

ExecType ==
    /\ pc \in [Slots -> Pc]
    /\ at \in [Slots -> Orders \cup {None}]
    /\ ver \in [Slots -> Nat]
    /\ outcome \in [Slots -> Outcome]
    /\ overrun \in [Slots -> BOOLEAN]

LogLine == (Status \cup {Absent}) \X Status

TableType ==
    /\ status \in [Orders -> Status \cup {Absent}]
    /\ version \in [Orders -> Nat]
    /\ dlqAt \in [Orders -> BOOLEAN]
    /\ retryCount \in [Orders -> Nat]
    /\ audit \in [Orders -> Seq(LogLine)]

HandlerType ==
    /\ hpc \in [Handlers -> HandlerPc]
    /\ hproc \in [Handlers -> Procs \cup {None}]
    /\ hseen \in [Handlers -> Status \cup {Absent}]
    /\ hver \in [Handlers -> Nat]

RestType ==
    /\ lock \in [Orders -> Procs \cup {None}]
    /\ dlq \in [Handlers -> {"none", "waiting", "acked"}]
    /\ calls \in [Orders -> Nat]
    /\ accepted \in [Orders -> BOOLEAN]
    /\ patches \in [Orders -> 0 .. MaxPatches]
    /\ faults \in 0 .. MaxFaults

TypeOK == QueueType /\ ExecType /\ TableType /\ HandlerType /\ RestType

Init ==
    /\ jobState = [o \in Orders |-> "none"]
    /\ attemptsMade = [o \in Orders |-> 0]
    /\ stalledCount = [o \in Orders |-> 0]
    /\ owner = [o \in Orders |-> None]
    /\ pc = [s \in Slots |-> "idle"]
    /\ at = [s \in Slots |-> None]
    /\ ver = [s \in Slots |-> 0]
    /\ outcome = [s \in Slots |-> "ok"]
    /\ overrun = [s \in Slots |-> FALSE]
    /\ lock = [o \in Orders |-> None]
    /\ status = [o \in Orders |-> Absent]
    /\ version = [o \in Orders |-> 0]
    /\ dlqAt = [o \in Orders |-> FALSE]
    /\ retryCount = [o \in Orders |-> 0]
    /\ audit = [o \in Orders |-> <<>>]
    /\ hpc = [h \in Handlers |-> "none"]
    /\ hproc = [h \in Handlers |-> None]
    /\ hseen = [h \in Handlers |-> Absent]
    /\ hver = [h \in Handlers |-> 0]
    /\ dlq = [h \in Handlers |-> "none"]
    /\ calls = [o \in Orders |-> 0]
    /\ accepted = [o \in Orders |-> FALSE]
    /\ patches = [o \in Orders |-> 0]
    /\ faults = 0

RowExists(o) == status[o] # Absent

\* Mutation of KeyTaken: the table is unique on the order id only.
KeyTakenById(o) == RowExists(o)

KeyTaken(o) == \E q \in Orders : KeyOf[q] = KeyOf[o] /\ RowExists(q)

\* Between acquireOrThrow and the release in the finally block.
Critical(s) == pc[s] \notin {"idle", "acquire", "finish"}

\* A failure of the environment uses up one unit of the bound.
Fault == faults < MaxFaults /\ faults' = faults + 1

\* An execution continues at l, or throws: to the finally block, or, when it does
\* not hold the lock yet or any more, out of the processor.
Goto(s, l) == pc' = [pc EXCEPT ![s] = l] /\ UNCHANGED <<at, ver, outcome, overrun>>
ThrowTo(s, l) ==
    /\ pc' = [pc EXCEPT ![s] = l]
    /\ outcome' = [outcome EXCEPT ![s] = "retry"]
    /\ UNCHANGED <<at, ver, overrun>>
Throw(s) == ThrowTo(s, "release")

-----------------------------------------------------------------------------
(* OrderQueueService and BullMQ.                                           *)

\* publishOrder adds job order-<o>; adding an existing job id has no effect.
PublishOrder(o) ==
    /\ jobState[o] = "none"
    /\ jobState' = [jobState EXCEPT ![o] = "wait"]
    /\ UNCHANGED <<attemptsMade, stalledCount, owner>>
    /\ UNCHANGED <<exec, lock, table, handlers, dlq, posVars, patches, faults>>

\* Executions of one job in one process carry one lock token, workerId:jobId.
SharesToken(s, t, o) == at[t] = o /\ ProcOf[t] = ProcOf[s]

\* A worker takes the job.  One that stalled more than maxStalledCount times is
\* failed by the worker without running the processor.
Pickup(s, o) ==
    LET stalledOut == stalledCount[o] > MaxStalledCount IN
    /\ pc[s] = "idle"
    /\ jobState[o] = "wait"
    /\ jobState' = [jobState EXCEPT ![o] = "active"]
    /\ owner' = [owner EXCEPT ![o] = s]
    /\ pc' = [pc EXCEPT ![s] = IF stalledOut THEN "finish" ELSE "acquire"]
    /\ outcome' = [outcome EXCEPT ![s] = IF stalledOut THEN "unrecoverable" ELSE "ok"]
    /\ at' = [at EXCEPT ![s] = o]
    /\ overrun' = [overrun EXCEPT ![s] = \E t \in Slots : SharesToken(s, t, o) /\ overrun[t]]
    /\ UNCHANGED <<attemptsMade, stalledCount, ver>>
    /\ UNCHANGED <<lock, table, handlers, dlq, posVars, patches, faults>>

\* Mutation of MovesToDlq: one attempt too late.
MovesToDlqTooLate(attempt) == attempt > MaxAttempts

\* handleFailure's choice, made before its first await: to the DLQ, or only count.
\* No error an execution can throw is a BusinessLogicError.
MovesToDlq(attempt) == attempt >= 2

\* The 'failed' event starts handleFailure in the process of the execution, with
\* attemptsMade already counting the attempt that failed.
StartHandler(s, o, attempt) ==
    /\ hpc' = [hpc EXCEPT ![<<o, attempt>>] = IF MovesToDlq(attempt) THEN "read" ELSE "count"]
    /\ hproc' = [hproc EXCEPT ![<<o, attempt>>] = ProcOf[s]]
    /\ UNCHANGED <<hseen, hver>>

\* Mutation of Retries: one attempt too many.
RetriesOncePastLimit(res, attempt) == res = "retry" /\ attempt <= MaxAttempts

\* A rejected attempt is rescheduled until the attempts are used up.
Retries(res, attempt) == res = "retry" /\ attempt < MaxAttempts

\* A free execution slot.
Idle(s) ==
    /\ pc' = [pc EXCEPT ![s] = "idle"]
    /\ at' = [at EXCEPT ![s] = None]
    /\ ver' = [ver EXCEPT ![s] = 0]
    /\ outcome' = [outcome EXCEPT ![s] = "ok"]
    /\ overrun' = [overrun EXCEPT ![s] = FALSE]

\* The execution reports to BullMQ.  If it no longer owns the job the report is
\* refused and no event is emitted.  A failure emits 'failed' in this process.
Finish(s) ==
    LET o == at[s]
        n == attemptsMade[o] + 1
    IN
    /\ pc[s] = "finish"
    /\ Idle(s)
    /\ \/ /\ owner[o] # s
          /\ UNCHANGED <<queue, handlers>>
       \/ /\ owner[o] = s
          /\ outcome[s] = "ok"
          /\ jobState' = [jobState EXCEPT ![o] = "completed"]
          /\ owner' = [owner EXCEPT ![o] = None]
          /\ UNCHANGED <<attemptsMade, stalledCount, handlers>>
       \/ /\ owner[o] = s
          /\ outcome[s] # "ok"
          /\ jobState' = [jobState EXCEPT ![o] = IF Retries(outcome[s], n) THEN "wait" ELSE "failed"]
          /\ owner' = [owner EXCEPT ![o] = None]
          /\ attemptsMade' = [attemptsMade EXCEPT ![o] = n]
          /\ StartHandler(s, o, n)
          /\ UNCHANGED stalledCount
    /\ UNCHANGED <<lock, table, dlq, posVars, patches, faults>>

\* The stalled check puts an active job whose job lock has run out back into the
\* queue.  After a crash that is bound to happen; under a live execution it takes
\* a blocked event loop or a Redis outage longer than the job lock.
Stalled(o) ==
    /\ jobState[o] = "active"
    /\ \/ owner[o] = None /\ UNCHANGED faults
       \/ owner[o] # None /\ Fault
    /\ jobState' = [jobState EXCEPT ![o] = "wait"]
    /\ owner' = [owner EXCEPT ![o] = None]
    /\ stalledCount' = [stalledCount EXCEPT ![o] = @ + 1]
    /\ UNCHANGED <<attemptsMade, exec, lock, table, handlers, dlq, posVars, patches>>

-----------------------------------------------------------------------------
(* DistributedLockService.                                                 *)

\* Mutation of Acquire: SET without NX.
AcquireWithoutNx(s) ==
    /\ pc[s] = "acquire"
    /\ lock' = [lock EXCEPT ![at[s]] = ProcOf[s]]
    /\ Goto(s, "insert")
    /\ UNCHANGED <<queue, table, handlers, dlq, posVars, patches, faults>>

\* Mutation of Acquire: acquireOrThrow is called inside the try block.
AcquireInsideTry(s) ==
    LET o == at[s] IN
    /\ pc[s] = "acquire"
    /\ \/ /\ lock[o] = None
          /\ lock' = [lock EXCEPT ![o] = ProcOf[s]]
          /\ Goto(s, "insert")
       \/ lock[o] # None /\ Throw(s) /\ UNCHANGED lock
    /\ UNCHANGED <<queue, table, handlers, dlq, posVars, patches, faults>>

\* acquireOrThrow: SET NX EX.  A failure skips the finally block.
Acquire(s) ==
    LET o == at[s] IN
    /\ pc[s] = "acquire"
    /\ \/ /\ lock[o] = None
          /\ lock' = [lock EXCEPT ![o] = ProcOf[s]]
          /\ Goto(s, "insert")
       \/ /\ lock[o] # None
          /\ ThrowTo(s, "finish")
          /\ UNCHANGED lock
    /\ UNCHANGED <<queue, table, handlers, dlq, posVars, patches, faults>>

\* The command fails, or it took the lock, lost its reply and was sent again.
AcquireFails(s) ==
    LET o == at[s] IN
    /\ pc[s] = "acquire"
    /\ Fault
    /\ \/ UNCHANGED lock
       \/ lock[o] = None /\ lock' = [lock EXCEPT ![o] = ProcOf[s]]
    /\ ThrowTo(s, "finish")
    /\ UNCHANGED <<queue, table, handlers, dlq, posVars, patches>>

\* Mutation of Unlock: a plain DEL.
UnlockBlindly(o, p) == lock' = [lock EXCEPT ![o] = None]

\* RELEASE_SCRIPT: delete the lock only if it still holds the caller's token.
\* The token is workerId:jobId, so executions of one job in one process share it.
Unlock(o, p) == lock' = [lock EXCEPT ![o] = IF @ = p THEN None ELSE @]

\* The finally block of process().
Release(s) ==
    /\ pc[s] = "release"
    /\ Unlock(at[s], ProcOf[s])
    /\ Goto(s, "finish")
    /\ UNCHANGED <<queue, table, handlers, dlq, posVars, patches, faults>>

\* An error of release replaces the outcome of the try block, success included.
ReleaseFails(s) ==
    /\ pc[s] = "release"
    /\ Fault
    /\ Unlock(at[s], ProcOf[s]) \/ UNCHANGED lock
    /\ ThrowTo(s, "finish")
    /\ UNCHANGED <<queue, table, handlers, dlq, posVars, patches>>

\* The execution works on o under a lock that carries its token.
Holds(s, o) == at[s] = o /\ Critical(s) /\ ProcOf[s] = lock[o]

\* Mutation of LockExpires: SET without EX.
LockWithoutTtl(o) == FALSE /\ UNCHANGED vars

\* The TTL runs out: as a matter of course once the holder is gone, but under a
\* live holder only if the execution outlasts the TTL.
LockExpires(o) ==
    /\ lock[o] # None
    /\ \/ (\A s \in Slots : ~Holds(s, o)) /\ UNCHANGED faults
       \/ (\E s \in Slots : Holds(s, o)) /\ Fault
    /\ lock' = [lock EXCEPT ![o] = None]
    /\ overrun' = [s \in Slots |->
                     overrun[s] \/ \E t \in Slots : Holds(t, o) /\ SharesToken(t, s, o)]
    /\ UNCHANGED <<pc, at, ver, outcome>>
    /\ UNCHANGED <<queue, table, handlers, dlq, posVars, patches>>

-----------------------------------------------------------------------------
(* OrderRepository.                                                        *)

\* The rows createOrder commits: the order in QUEUED and its first audit line.
CreateRow(o) ==
    /\ status' = [status EXCEPT ![o] = "QUEUED"]
    /\ audit' = [audit EXCEPT ![o] = Append(@, <<Absent, "QUEUED">>)]
    /\ UNCHANGED <<version, dlqAt, retryCount>>

\* Mutation of Matches: the state machine is not consulted.
MatchesUnvalidated(o, from, to, v) == status[o] = from /\ version[o] = v

\* Mutation of Matches: the UPDATE goes by the order id alone.
MatchesById(o, from, to, v) == RowExists(o) /\ Validate(from, to)

\* transitionStatus finds its row: a legal move, expected status and version.
Matches(o, from, to, v) ==
    /\ Validate(from, to)
    /\ status[o] = from
    /\ version[o] = v

\* The rows transitionStatus commits: status, version + 1, and an audit line.
MoveRow(o, from, to) ==
    /\ status' = [status EXCEPT ![o] = to]
    /\ version' = [version EXCEPT ![o] = @ + 1]
    /\ audit' = [audit EXCEPT ![o] = Append(@, <<from, to>>)]
    /\ UNCHANGED <<dlqAt, retryCount>>

-----------------------------------------------------------------------------
(* ProcessOrderService.process.                                            *)

\* createOrder: INSERT ... ON CONFLICT (idempotency_key) DO NOTHING.  A conflict
\* returns null and the execution ends as if the order had been processed.
Insert(s) ==
    LET o == at[s] IN
    /\ pc[s] = "insert"
    /\ \/ ~KeyTaken(o) /\ CreateRow(o) /\ Goto(s, "reread")
       \/ KeyTaken(o) /\ Goto(s, "release") /\ UNCHANGED table
    /\ UNCHANGED <<queue, lock, handlers, dlq, posVars, patches, faults>>

\* Mutation of InsertFails: an error is taken for a duplicate.
InsertErrorIgnored(s) ==
    /\ pc[s] = "insert"
    /\ Fault
    /\ Goto(s, "release")
    /\ UNCHANGED <<queue, lock, table, handlers, dlq, posVars, patches>>

InsertFails(s) ==
    LET o == at[s] IN
    /\ pc[s] = "insert"
    /\ Fault
    /\ \/ UNCHANGED table
       \/ ~KeyTaken(o) /\ CreateRow(o)
    /\ Throw(s)
    /\ UNCHANGED <<queue, lock, handlers, dlq, posVars, patches>>

\* A read of the row: the re-read after the insert's commit, and the findById
\* calls before the two transitions that follow the POS call.
ReadNext == [reread |-> "save", readSaved |-> "sent", readSent |-> "complete"]

\* Mutation of ReadRow: the version read first is used throughout.
ReadRowOnce(s) ==
    /\ pc[s] \in DOMAIN ReadNext
    /\ Goto(s, ReadNext[pc[s]])
    /\ UNCHANGED <<queue, lock, table, handlers, dlq, posVars, patches, faults>>

ReadRow(s) ==
    /\ pc[s] \in DOMAIN ReadNext
    /\ pc' = [pc EXCEPT ![s] = ReadNext[@]]
    /\ ver' = [ver EXCEPT ![s] = version[at[s]]]
    /\ UNCHANGED <<at, outcome, overrun>>
    /\ UNCHANGED <<queue, lock, table, handlers, dlq, posVars, patches, faults>>

\* Mutation of Transition: an execution waits for the row to match.
TransitionWaits(s, from, to, next) ==
    /\ Matches(at[s], from, to, ver[s])
    /\ MoveRow(at[s], from, to)
    /\ Goto(s, next)
    /\ UNCHANGED <<queue, lock, handlers, dlq, posVars, patches, faults>>

\* transitionStatus with the version read before; 0 rows is StaleOrderVersionError.
Transition(s, from, to, next) ==
    LET o == at[s] IN
    /\ \/ Matches(o, from, to, ver[s]) /\ MoveRow(o, from, to) /\ Goto(s, next)
       \/ ~Matches(o, from, to, ver[s]) /\ Throw(s) /\ UNCHANGED table
    /\ UNCHANGED <<queue, lock, handlers, dlq, posVars, patches, faults>>

\* The database fails the transaction, before or after its commit.
TransitionFails(s, from, to) ==
    LET o == at[s] IN
    /\ Fault
    /\ \/ UNCHANGED table
       \/ Matches(o, from, to, ver[s]) /\ MoveRow(o, from, to)
    /\ Throw(s)
    /\ UNCHANGED <<queue, lock, handlers, dlq, posVars, patches>>

\* The three transitions an execution makes.
TransitionToSaved(s) == pc[s] = "save" /\ Transition(s, "QUEUED", "SAVED", "lookup")
TransitionToSent(s) == pc[s] = "sent" /\ Transition(s, "SAVED", "SENT_TO_POS", "readSent")
TransitionToCompleted(s) ==
    pc[s] = "complete" /\ Transition(s, "SENT_TO_POS", "COMPLETED", "release")

AnyTransitionFails(s) ==
    \/ pc[s] = "save" /\ TransitionFails(s, "QUEUED", "SAVED")
    \/ pc[s] = "sent" /\ TransitionFails(s, "SAVED", "SENT_TO_POS")
    \/ pc[s] = "complete" /\ TransitionFails(s, "SENT_TO_POS", "COMPLETED")

\* The store's row is read and the adapter built.  The foreign key of the order
\* row guarantees the store, the CHECK on pos_type a known adapter.
LookupStore(s) ==
    /\ pc[s] = "lookup"
    /\ Goto(s, "pos")
    /\ UNCHANGED <<queue, lock, table, handlers, dlq, posVars, patches, faults>>

\* Any of the reads fails.
ReadFails(s) ==
    /\ pc[s] \in DOMAIN ReadNext \cup {"lookup"}
    /\ Fault
    /\ Throw(s)
    /\ UNCHANGED <<queue, lock, table, handlers, dlq, posVars, patches>>

\* circuitBreaker.execute around sendOrder, its inner retries included: they all
\* carry the idempotency key and end in one answer.
CallPos(s) ==
    LET o == at[s] IN
    /\ pc[s] = "pos"
    /\ calls' = [calls EXCEPT ![o] = @ + 1]
    /\ accepted' = [accepted EXCEPT ![o] = TRUE]
    /\ Goto(s, "readSaved")
    /\ UNCHANGED <<queue, lock, table, handlers, dlq, patches, faults>>

\* Mutation of PosFails: the rejection is swallowed.
PosErrorIgnored(s) ==
    /\ pc[s] = "pos"
    /\ Fault
    /\ calls' = [calls EXCEPT ![at[s]] = @ + 1]
    /\ Goto(s, "readSaved")
    /\ UNCHANGED <<accepted, queue, lock, table, handlers, dlq, patches>>

\* Rejected: the POS never took the order, or it did and the answer was lost.
PosFails(s) ==
    LET o == at[s] IN
    /\ pc[s] = "pos"
    /\ Fault
    /\ calls' = [calls EXCEPT ![o] = @ + 1]
    /\ \/ UNCHANGED accepted
       \/ accepted' = [accepted EXCEPT ![o] = TRUE]
    /\ Throw(s)
    /\ UNCHANGED <<queue, lock, table, handlers, dlq, patches>>

\* The store's breaker is open: CircuitBreakerOpenError, nothing is sent.
BreakerOpen(s) ==
    /\ pc[s] = "pos"
    /\ Fault
    /\ Throw(s)
    /\ UNCHANGED <<queue, lock, table, handlers, dlq, posVars, patches>>

-----------------------------------------------------------------------------
(* Process failure.                                                        *)

\* Executions and handlers of p vanish; its jobs stay active without an owner and
\* its order locks stay until their TTL.  The supervisor starts p again at once.
Die(p) ==
    /\ pc' = [s \in Slots |-> IF ProcOf[s] = p THEN "idle" ELSE pc[s]]
    /\ at' = [s \in Slots |-> IF ProcOf[s] = p THEN None ELSE at[s]]
    /\ ver' = [s \in Slots |-> IF ProcOf[s] = p THEN 0 ELSE ver[s]]
    /\ outcome' = [s \in Slots |-> IF ProcOf[s] = p THEN "ok" ELSE outcome[s]]
    /\ overrun' = [s \in Slots |-> ProcOf[s] # p /\ overrun[s]]
    /\ owner' = [o \in Orders |->
                   IF owner[o] # None /\ ProcOf[owner[o]] = p THEN None ELSE owner[o]]
    /\ hpc' = [h \in Handlers |-> IF hproc[h] = p THEN "lost" ELSE hpc[h]]
    /\ hproc' = [h \in Handlers |-> IF hproc[h] = p THEN None ELSE hproc[h]]
    /\ hseen' = [h \in Handlers |-> IF hproc[h] = p THEN Absent ELSE hseen[h]]
    /\ hver' = [h \in Handlers |-> IF hproc[h] = p THEN 0 ELSE hver[h]]
    /\ UNCHANGED <<jobState, attemptsMade, stalledCount>>

Crash(p) ==
    /\ \/ \E s \in Slots : ProcOf[s] = p /\ pc[s] # "idle"
       \/ \E h \in Handlers : hproc[h] = p
    /\ Fault
    /\ Die(p)
    /\ UNCHANGED <<lock, table, dlq, posVars, patches>>

-----------------------------------------------------------------------------
(* handleFailure and moveToDlq.  The handler is an event listener whose    *)
(* promise nobody awaits: an exception that leaves it ends the process, so *)
(* a failing query of a handler is Crash of its process.                   *)

HandlerGoto(o, n, l) == hpc' = [hpc EXCEPT ![<<o, n>>] = l] /\ UNCHANGED <<hproc, hseen, hver>>

\* A finished handler leaves nothing behind but the fact.
HandlerDone(o, n) ==
    /\ hpc' = [hpc EXCEPT ![<<o, n>>] = "done"]
    /\ hproc' = [hproc EXCEPT ![<<o, n>>] = None]
    /\ hseen' = [hseen EXCEPT ![<<o, n>>] = Absent]
    /\ hver' = [hver EXCEPT ![<<o, n>>] = 0]

\* incrementRetryCount; without a row it updates nothing.
CountRetry(o, n) ==
    /\ hpc[<<o, n>>] = "count"
    /\ retryCount' = [retryCount EXCEPT ![o] = IF RowExists(o) THEN @ + 1 ELSE @]
    /\ HandlerDone(o, n)
    /\ UNCHANGED <<status, version, dlqAt, audit>>
    /\ UNCHANGED <<queue, exec, lock, dlq, posVars, patches, faults>>

\* moveToDlq's findById; FAILED and COMPLETED rows, and no row, are left alone.
ReadFailed(o, n) ==
    /\ hpc[<<o, n>>] = "read"
    /\ hpc' = [hpc EXCEPT ![<<o, n>>] = IF status[o] \in {Absent, "FAILED", "COMPLETED"}
                                    THEN "mark" ELSE "transition"]
    /\ hseen' = [hseen EXCEPT ![<<o, n>>] = status[o]]
    /\ hver' = [hver EXCEPT ![<<o, n>>] = version[o]]
    /\ UNCHANGED hproc
    /\ UNCHANGED <<queue, exec, lock, table, dlq, posVars, patches, faults>>

\* transitionStatus(seen -> FAILED).  Only a stale version is swallowed; a status
\* the map does not lead to FAILED from throws out of the listener.
FailRow(o, n) ==
    LET seen == hseen[<<o, n>>] IN
    /\ hpc[<<o, n>>] = "transition"
    /\ \/ /\ Matches(o, seen, "FAILED", hver[<<o, n>>])
          /\ MoveRow(o, seen, "FAILED")
          /\ HandlerGoto(o, n, "mark")
          /\ UNCHANGED <<queue, exec>>
       \/ /\ Validate(seen, "FAILED")
          /\ ~Matches(o, seen, "FAILED", hver[<<o, n>>])
          /\ HandlerGoto(o, n, "mark")
          /\ UNCHANGED <<queue, exec, table>>
       \/ /\ ~Validate(seen, "FAILED")
          /\ Die(hproc[<<o, n>>])
          /\ UNCHANGED table
    /\ UNCHANGED <<lock, dlq, posVars, patches, faults>>

\* Mutation of MarkDlq: the row is not marked.
MarkDlqForgotten(o, n) ==
    /\ hpc[<<o, n>>] = "mark"
    /\ HandlerGoto(o, n, "publish")
    /\ UNCHANGED <<queue, exec, lock, table, dlq, posVars, patches, faults>>

\* markDlq, whatever the row's status.
MarkDlq(o, n) ==
    /\ hpc[<<o, n>>] = "mark"
    /\ dlqAt' = [dlqAt EXCEPT ![o] = RowExists(o)]
    /\ HandlerGoto(o, n, "publish")
    /\ UNCHANGED <<status, version, retryCount, audit>>
    /\ UNCHANGED <<queue, exec, lock, dlq, posVars, patches, faults>>

\* findFailedOrders: what the operator's DLQ list shows.
Listed(o) == status[o] = "FAILED" /\ dlqAt[o]

\* publishToDlq, then the Slack alert, which never fails.
PublishToDlq(o, n) ==
    /\ hpc[<<o, n>>] = "publish"
    /\ dlq' = [dlq EXCEPT ![<<o, n>>] = "waiting"]
    /\ HandlerDone(o, n)
    /\ UNCHANGED <<queue, exec, lock, table, posVars, patches, faults>>

\* DlqProcessor.process: alert and acknowledge; it never puts an order back.
ProcessDlq(o, n) ==
    /\ dlq[<<o, n>>] = "waiting"
    /\ dlq' = [dlq EXCEPT ![<<o, n>>] = "acked"]
    /\ UNCHANGED <<queue, exec, lock, table, handlers, posVars, patches, faults>>

-----------------------------------------------------------------------------
(* The PATCH endpoints of the POS terminals: an unconditional UPDATE of the *)
(* status, past the map, the version and the audit log.                    *)

SetStatus(o, to) ==
    /\ RowExists(o)
    /\ patches[o] < MaxPatches
    /\ status' = [status EXCEPT ![o] = to]
    /\ patches' = [patches EXCEPT ![o] = @ + 1]
    /\ UNCHANGED <<version, dlqAt, retryCount, audit>>
    /\ UNCHANGED <<queue, exec, lock, handlers, dlq, posVars, faults>>

\* PATCH /orders/:id/status: UpdateOrderStatusDto admits the terminals' statuses.
UpdateStatus(o, to) == to \in PosStatus /\ SetStatus(o, to)

\* PATCH /order/:id/status takes what the table's CHECK takes.
UpdateOrderStatus(o, to) == SetStatus(o, to)

-----------------------------------------------------------------------------

\* What an execution does when nothing goes wrong around it.
Run(s) ==
    \/ Acquire(s) \/ Insert(s) \/ ReadRow(s) \/ LookupStore(s) \/ CallPos(s)
    \/ TransitionToSaved(s) \/ TransitionToSent(s) \/ TransitionToCompleted(s)
    \/ Release(s) \/ Finish(s)

RunFails(s) ==
    \/ AcquireFails(s) \/ InsertFails(s) \/ ReadFails(s) \/ AnyTransitionFails(s)
    \/ PosFails(s) \/ BreakerOpen(s) \/ ReleaseFails(s)

HandleFailure(o, n) ==
    \/ CountRetry(o, n) \/ ReadFailed(o, n) \/ FailRow(o, n)
    \/ MarkDlq(o, n) \/ PublishToDlq(o, n)

Next ==
    \/ \E o \in Orders :
          \/ PublishOrder(o) \/ Stalled(o) \/ LockExpires(o)
          \/ \E s \in Slots : Pickup(s, o)
          \/ \E n \in Attempts : HandleFailure(o, n) \/ ProcessDlq(o, n)
          \/ \E to \in PatchStatuses : UpdateStatus(o, to) \/ UpdateOrderStatus(o, to)
    \/ \E s \in Slots : Run(s) \/ RunFails(s)
    \/ \E p \in Procs : Crash(p)

Spec == Init /\ [][Next]_vars

\* BullMQ serves waiting jobs and detects orphaned ones, TTLs run out, and the
\* event loop of a live process reaches every continuation.  Nothing obliges
\* clients, terminals or failures to act.
Fairness ==
    /\ \A o \in Orders :
          /\ WF_vars(\E s \in Slots : Pickup(s, o))
          /\ WF_vars(owner[o] = None /\ Stalled(o))
          /\ WF_vars(LockExpires(o) /\ UNCHANGED faults)
          /\ \A n \in Attempts : WF_vars(HandleFailure(o, n)) /\ WF_vars(ProcessDlq(o, n))
    /\ \A s \in Slots : WF_vars(Run(s))

FairSpec == Spec /\ Fairness

-----------------------------------------------------------------------------
(* Safety.                                                                 *)

\* Under one idempotency key at most one execution ever gets to call the POS,
\* whatever is retried, stalls, outlives its lock or was published twice.
PosOnce ==
    /\ \A o \in Orders : calls[o] <= 1
    /\ \A o, q \in Orders :
          KeyOf[o] = KeyOf[q] /\ calls[o] > 0 /\ calls[q] > 0 => o = q

\* Two executions of one order are between acquireOrThrow and release at once only
\* if the lock's TTL has run out under one of them, or under an execution of the
\* same job in the same process: a crash, a stalled job, a lost reply or a failing
\* release never make two holders.
LockExcludes ==
    \A s, t \in Slots :
        s # t /\ Critical(s) /\ Critical(t) /\ at[s] = at[t] => overrun[s] \/ overrun[t]

\* An execution keeps its lock until it releases it or the TTL runs out under it,
\* also when an earlier holder that outlived its TTL gets to its release.  The one
\* release that takes it away comes from an execution of the same job in the same
\* process whose own TTL ran out: the two share a token, so what the comment of
\* release() promises holds between processes only.
LockKept ==
    \A s \in Slots : Critical(s) /\ ~overrun[s] => lock[at[s]] = ProcOf[s]

\* The version counts the audit lines, every line after the first is a transition
\* of the map, and unless a terminal overwrote the status the lines join up and
\* end in the row's status: the log tells the row's true history.
AuditTrail ==
    \A o \in Orders : RowExists(o) =>
        /\ Len(audit[o]) = version[o] + 1
        /\ \A i \in 2 .. Len(audit[o]) : Validate(audit[o][i][1], audit[o][i][2])
        /\ patches[o] = 0 =>
              /\ audit[o][Len(audit[o])][2] = status[o]
              /\ \A i \in 2 .. Len(audit[o]) : audit[o][i][1] = audit[o][i - 1][2]

\* A job reported as completed leaves a row under its idempotency key: treating
\* the insert's conflict as success never acknowledges an order nobody stored.
AckedIsStored ==
    \A o \in Orders : jobState[o] = "completed" => KeyTaken(o)

\* A FAILED order that findFailedOrders does not list to the operator has a
\* moveToDlq that is about to mark it or that died with its process.
FailedIsListed ==
    \A o \in Orders :
        status[o] = "FAILED" /\ patches[o] = 0 /\ ~Listed(o)
            => \E n \in Attempts : hpc[<<o, n>>] \in {"mark", "lost"}

\* The worker implements the ledger.
Ledger == INSTANCE OrderLedger WITH log <- audit, submitted <- calls

ImplementsLedger == Ledger!LedgerSpec

-----------------------------------------------------------------------------
(* Liveness, under FairSpec.                                               *)

\* Every published job ends, however often it was retried, stalled or orphaned.
JobsEnd ==
    \A o \in Orders : jobState[o] = "wait" ~> jobState[o] \in {"completed", "failed"}

\* No order stays locked: release or the TTL ends every holding.
LocksEnd ==
    \A o \in Orders : lock[o] # None ~> lock[o] = None

\* A job whose last attempt failed gets to the DLQ and is alerted on, unless the
\* process handling the failure dies.
ExhaustedReachesDlq ==
    \A o \in Orders :
        jobState[o] = "failed" /\ attemptsMade[o] = MaxAttempts
            ~> \E n \in Attempts : dlq[<<o, n>>] = "acked" \/ hpc[<<o, n>>] = "lost"

\* With no failure and no terminal in the way, every published order is completed,
\* once for all the jobs that carry its key.
CleanRunCompletes ==
    \A o \in Orders :
        jobState[o] # "none"
            ~> \/ \E q \in Orders : KeyOf[q] = KeyOf[o] /\ status[q] = "COMPLETED"
               \/ faults > 0
               \/ \E q \in Orders : patches[q] > 0

-----------------------------------------------------------------------------
(* What the documents say and the code does not do.                        *)

\* docs/03-state-machine.md, scenario A: a SAVED order whose worker failed is taken
\* up again at the POS step by the redelivered job.
SavedIsResumed ==
    \A o \in Orders :
        status[o] = "SAVED"
            ~> status[o] \in {"SENT_TO_POS", "COMPLETED", "FAILED"}

=============================================================================
