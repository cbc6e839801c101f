------------------------- MODULE OrderSystemProofs -------------------------
(***************************************************************************)
(* The worker beside its neighbours.  The system composed of intake and    *)
(* worker behaves, on either side's variables, like that side alone: a     *)
(* request that publishes its job is a PublishOrder step, and any other    *)
(* step of a request leaves the worker as it is.  The operator's redrive   *)
(* never does anything to the worker's variables.  What was proved of the  *)
(* two halves therefore holds of the whole, and together gives the         *)
(* promises that span both.                                                *)
(***************************************************************************)
EXTENDS OrderSystem, AdminRedrive, OrderWorkerProofs

\* A step of the system is a step of the worker or leaves its variables alone.
LEMMA SystemStep == ASSUME [SystemNext]_systemVars
                    PROVE  [Next]_vars
<1>1. CASE IntakeStep
  BY <1>1 DEF IntakeStep, Next
<1>2. CASE WorkerStep
  BY <1>2 DEF WorkerStep
<1>3. CASE UNCHANGED systemVars
  BY <1>3 DEF systemVars
<1> QED
  BY <1>1, <1>2, <1>3 DEF SystemNext

\* Whatever requests, duplicates, failures and expired keys make of the intake, the
\* queue is used as the worker's specification says: its jobs are only published.
THEOREM SystemImplementsWorker == SystemSpec => Spec
<1>1. SystemInit => Init
  BY DEF SystemInit
<1>2. [SystemNext]_systemVars => [Next]_vars
  BY SystemStep
<1> QED
  BY <1>1, <1>2, PTL DEF SystemSpec, Spec

\* However many requests carry one key and however often the intake lets a second
\* job of it through, at most one execution under the key ever calls the POS.
THEOREM SystemCallsPosOnce == SystemSpec => []PosOnce
  BY SystemImplementsWorker, PosCalledOnce, PTL

\* Behind the intake, with second jobs of a key and all, the order store is the ledger,
THEOREM SystemImplementsLedger == SystemSpec => ImplementsLedger
  BY SystemImplementsWorker, WorkerImplementsLedger, PTL

\* and no job is acknowledged that left nothing under its key.
THEOREM SystemStoresAcked == SystemSpec => []AckedIsStored
  BY SystemImplementsWorker, NothingAckedUnstored, PTL

-----------------------------------------------------------------------------

\* The worker never disturbs the intake: behind a running queue, requests and the
\* set of published jobs still behave as OrderIntake says.
THEOREM SystemImplementsIntake == SystemSpec => Intake!Spec
<1>1. SystemInit => Intake!Init
  BY DEF SystemInit
<1>2. [SystemNext]_systemVars => [Intake!Next]_(Intake!vars)
  <2> SUFFICES ASSUME [SystemNext]_systemVars
               PROVE  [Intake!Next]_(Intake!vars)
    OBVIOUS
  <2>1. CASE IntakeStep
    BY <2>1 DEF IntakeStep
  <2>2. CASE WorkerStep
    BY <2>2 DEF WorkerStep, apiVars, Intake!vars
  <2>3. CASE UNCHANGED systemVars
    BY <2>3 DEF systemVars, apiVars, vars, queue, published, Intake!vars
  <2> QED
    BY <2>1, <2>2, <2>3 DEF SystemNext
<1> QED
  BY <1>1, <1>2, PTL DEF SystemSpec, Intake!Spec

-----------------------------------------------------------------------------
(* The intake's theorems, carried over.  IntakeProofs names the same       *)
(* definitions as Intake and brings their proofs along.                    *)

IntakeProofs == INSTANCE OrderIntakeProofs
                WITH Requests <- Orders, MaxFaults <- MaxApiFaults, faults <- apiFaults

LEMMA SameIntake ==
  /\ Intake!Init => IntakeProofs!Init
  /\ [Intake!Next]_(Intake!vars) => [IntakeProofs!Next]_(IntakeProofs!vars)
<1>1. Intake!Init => IntakeProofs!Init
  BY DEF Intake!Init, IntakeProofs!Init
<1>2. [Intake!Next]_(Intake!vars) => [IntakeProofs!Next]_(IntakeProofs!vars)
  BY DEF Intake!Next, IntakeProofs!Next, Intake!vars, IntakeProofs!vars, Intake!Serve, IntakeProofs!Serve,
     Intake!ServeFails, IntakeProofs!ServeFails, Intake!Receive, IntakeProofs!Receive,
     Intake!ReceiveOrder, IntakeProofs!ReceiveOrder, Intake!ReceiveCompat, IntakeProofs!ReceiveCompat,
     Intake!ReceiveBridge, IntakeProofs!ReceiveBridge, Intake!TryAcquire, IntakeProofs!TryAcquire,
     Intake!TryAcquireFails, IntakeProofs!TryAcquireFails, Intake!GetCachedResponse,
     IntakeProofs!GetCachedResponse, Intake!ValidateItems, IntakeProofs!ValidateItems,
     Intake!Publish, IntakeProofs!Publish, Intake!SetCompleted, IntakeProofs!SetCompleted,
     Intake!TryBlockFails, IntakeProofs!TryBlockFails, Intake!Release, IntakeProofs!Release,
     Intake!RedisFails, IntakeProofs!RedisFails, Intake!Die, IntakeProofs!Die,
     Intake!PendingExpires, IntakeProofs!PendingExpires, Intake!ResponseExpires, IntakeProofs!ResponseExpires,
     Intake!Goto, IntakeProofs!Goto, Intake!Reply, IntakeProofs!Reply, Intake!Catch, IntakeProofs!Catch,
     Intake!Calm, IntakeProofs!Calm, Intake!Fault, IntakeProofs!Fault, Intake!Holding, IntakeProofs!Holding
<1> QED
  BY <1>1, <1>2

LEMMA SystemIntake == SystemSpec => [](IntakeProofs!OneJobPerKey /\ IntakeProofs!AnswerIsTrue)
<1>1. IntakeProofs!IntakeAssumption
  BY WorkerAssumption, SystemAssumption
<1>2. SystemSpec => IntakeProofs!Spec
  BY SameIntake, SystemImplementsIntake, PTL DEF Intake!Spec, IntakeProofs!Spec
<1>3. IntakeProofs!Spec => []IntakeProofs!OneJobPerKey
  BY <1>1, IntakeProofs!JobPerKey
<1>4. IntakeProofs!Spec => []IntakeProofs!AnswerIsTrue
  BY <1>1, IntakeProofs!AnswersAreTrue
<1> QED
  BY <1>2, <1>3, <1>4, PTL

\* The invariants of the worker, behind the intake.
LEMMA SystemWorker == SystemSpec => [](TypeInv /\ PosInv /\ StoredInv /\ FreshInv /\ HandOverInv)
  BY SystemImplementsWorker, PosInvHolds, StoredInvHolds, HandOverInvHolds, PTL

\* The id a client was given with 202 has a row once its job is through, unless a
\* failure or an expiry touched its key; and a request that was turned away has
\* neither a row nor a call of the POS.
THEOREM AnsweredIdsHaveRows == SystemSpec => []AnsweredIdHasRow
<1>1. ASSUME IntakeProofs!OneJobPerKey, IntakeProofs!AnswerIsTrue, TypeInv, PosInv, StoredInv
      PROVE  AnsweredIdHasRow
  <2> SUFFICES ASSUME NEW r \in Orders, rpc[r] = "answered"
               PROVE  /\ Accepted(r) /\ KeyOf[r] \notin disturbed /\ jobState[orderId[r]] = "completed"
                            => RowExists(orderId[r])
                      /\ answer[r] \in {"invalid", "conflict", "refused"}
                            => ~RowExists(r) /\ calls[r] = 0
    BY DEF AnsweredIdHasRow
  <2>1. ASSUME Accepted(r), KeyOf[r] \notin disturbed, jobState[orderId[r]] = "completed"
        PROVE  RowExists(orderId[r])
    \* The job's key has a row, and that row's job is the only one of the key.
    <3>1. orderId[r] \in published /\ KeyOf[orderId[r]] = KeyOf[r]
      BY <1>1, <2>1 DEF Accepted, IntakeProofs!AnswerIsTrue
    <3>2. orderId[r] \in Orders
      BY <3>1 DEF published
    <3>3. PICK q \in Orders : KeyOf[q] = KeyOf[orderId[r]] /\ RowExists(q)
      BY <1>1, <2>1, <3>2 DEF StoredInv, AckedIsStored, KeyTaken
    <3>4. q \in published
      BY <1>1, <3>3 DEF StoredInv, published
    <3>5. q = orderId[r]
      BY <1>1, <2>1, <3>1, <3>3, <3>4 DEF IntakeProofs!OneJobPerKey
    <3> QED
      BY <3>3, <3>5
  <2>2. ASSUME answer[r] \in {"invalid", "conflict", "refused"}
        PROVE  ~RowExists(r) /\ calls[r] = 0
    <3>1. jobState[r] = "none"
      BY <1>1, <2>2 DEF IntakeProofs!AnswerIsTrue, published
    <3>2. ~RowExists(r)
      BY <1>1, <3>1 DEF StoredInv
    <3>3. calls[r] = 0
      BY <1>1, <3>2 DEF PosInv, CallsInv, TypeInv, TypeOK, RestType
    <3> QED
      BY <3>2, <3>3
  <2> QED
    BY <2>1, <2>2
<1> QED
  BY <1>1, SystemIntake, SystemWorker, PTL

\* All clients told 202 under a key are told the same order, and only that order of the
\* key is ever stored or handed to the POS.
AnswersAgree ==
    \A r \in Orders : Accepted(r) /\ KeyOf[r] \notin disturbed =>
        /\ \A q \in Orders : Accepted(q) /\ KeyOf[q] = KeyOf[r] => orderId[q] = orderId[r]
        /\ \A q \in Orders : KeyOf[q] = KeyOf[r] /\ (RowExists(q) \/ calls[q] > 0) => q = orderId[r]

\* As long as no failure and no expiry touches a key, retries and concurrent requests under
\* it agree with each other and with the store: one id is answered, stored and sent.
THEOREM AnswersNameOneOrder == SystemSpec => []AnswersAgree
<1>1. ASSUME IntakeProofs!OneJobPerKey, IntakeProofs!AnswerIsTrue, TypeInv, PosInv, StoredInv
      PROVE  AnswersAgree
  <2> SUFFICES ASSUME NEW r \in Orders, Accepted(r), KeyOf[r] \notin disturbed, NEW q \in Orders,
                      KeyOf[q] = KeyOf[r]
               PROVE  /\ Accepted(q) => orderId[q] = orderId[r]
                      /\ RowExists(q) \/ calls[q] > 0 => q = orderId[r]
    BY DEF AnswersAgree
  <2>1. \A p \in Orders : Accepted(p) => orderId[p] \in published /\ KeyOf[orderId[p]] = KeyOf[p]
    BY <1>1 DEF Accepted, IntakeProofs!AnswerIsTrue
  <2>2. RowExists(q) \/ calls[q] > 0 => q \in published
    BY <1>1 DEF PosInv, CallsInv, StoredInv, published
  <2> QED
    BY <1>1, <2>1, <2>2 DEF IntakeProofs!OneJobPerKey
<1> QED
  BY <1>1, SystemIntake, SystemWorker, PTL

\* With at least two attempts configured, an order a client was told 202 for is on its
\* way, stored under its key or in the operator's hands, unless the process handing
\* it over died or the job was failed for stalling.
THEOREM AcceptedOrdersAreKept ==
  ASSUME MaxAttempts >= 2
  PROVE  SystemSpec => []AcceptedIsKept
<1>1. ASSUME IntakeProofs!AnswerIsTrue, TypeInv, StoredInv, FreshInv, HandOverInv
      PROVE  AcceptedIsKept
  <2> SUFFICES ASSUME NEW r \in Orders, Accepted(r), NEW o, o = orderId[r],
                      ~(stalledCount[o] > MaxStalledCount)
               PROVE  OnItsWay(o) \/ KeyTaken(o) \/ HandedOver(o) \/ HandlerLost(o)
    BY DEF AcceptedIsKept
  <2>1. o \in Orders /\ jobState[o] # "none"
    BY <1>1 DEF Accepted, IntakeProofs!AnswerIsTrue, published
  <2>2. jobState[o] \in {"wait", "active", "completed", "failed"}
    BY <1>1, <2>1 DEF TypeInv, TypeOK, QueueType, JobState
  <2>3. CASE jobState[o] \in {"wait", "active"}
    BY <2>3 DEF OnItsWay
  <2>4. CASE jobState[o] = "completed"
    BY <1>1, <2>1, <2>4 DEF StoredInv, AckedIsStored
  <2>5. CASE jobState[o] = "failed"
    \* The handler of the last attempt has been started; it cannot only have counted.
    <3> DEFINE n == MaxAttempts
    <3>1. n \in Attempts /\ n >= 2 /\ n \in Nat
      BY WorkerAssumption DEF Attempts
    <3>2. attemptsMade[o] = n
      BY <1>1, <2>1, <2>5 DEF HandOverInv
    <3>3. hpc[<<o, n>>] # "none"
      BY <1>1, <2>1, <3>1, <3>2 DEF FreshInv
    <3>4. hpc[<<o, n>>] # "count"
      BY <1>1, <2>1, <3>1 DEF HandOverInv
    <3>5. hpc[<<o, n>>] = "done" => dlq[<<o, n>>] # "none"
      BY <1>1, <2>1, <3>1 DEF HandOverInv
    <3>6. hpc[<<o, n>>] \in HandlerPc
      BY <1>1, <2>1, <3>1 DEF TypeInv, TypeOK, HandlerType, Handlers
    <3> QED
      BY <3>1, <3>3, <3>4, <3>5, <3>6 DEF HandlerPc, HandedOver, HandlerLost
  <2> QED
    BY <2>2, <2>3, <2>4, <2>5
<1> QED
  BY <1>1, SystemIntake, SystemWorker, PTL

-----------------------------------------------------------------------------
(* The operator's redrive.  The map has no move out of FAILED, so its      *)
(* transition never finds a row and nothing of the worker changes.         *)

LEMMA RedriveStep == ASSUME [RedriveNext]_<<vars, adminVars>>
                     PROVE  [Next]_vars
<1>1. ASSUME NEW o \in Orders, RedriveOrder(o) PROVE UNCHANGED vars
  <2>1. ~Matches(o, "FAILED", "QUEUED", aver[o])
    BY DEF Matches, Validate, AllowedTransitions
  <2> QED
    BY <1>1, <2>1 DEF RedriveOrder, ReadForRedrive, RedriveRow, vars
<1> QED
  BY <1>1 DEF RedriveNext

\* Whatever operators redrive and whenever, the worker and its tables see none of it:
\* transitionStatus validates without the redrive flag and refuses every one, what
\* redrive_refused shows for one order.
THEOREM RedriveChangesNothing == RedriveSpec => Spec
<1>1. RedriveInit => Init
  BY DEF RedriveInit
<1> QED
  BY <1>1, RedriveStep, PTL DEF RedriveSpec, Spec

\* The mark of a row stays.
LEMMA MarkStays ==
  ASSUME TypeInv, [Next]_vars, NEW o \in Orders, RowExists(o), dlqAt[o]
  PROVE  dlqAt'[o]
<1>1. ASSUME NEW s \in Slots, Run(s) \/ RunFails(s) PROVE dlqAt'[o]
  <2>1. CASE Finish(s)
    BY <2>1 DEF Finish, table
  <2> QED
    BY <1>1, <2>1, RunHandlers DEF FailsAttempt
<1>2. ASSUME NEW q \in Orders, NEW n \in Attempts, HandleFailure(q, n) \/ ProcessDlq(q, n)
      PROVE  dlqAt'[o]
  <2>1. CASE MarkDlq(q, n)
    BY <2>1 DEF MarkDlq, TypeInv, TypeOK, TableType
  <2> QED
    BY <1>2, <2>1 DEF HandleFailure, CountRetry, ReadFailed, FailRow, MoveRow, PublishToDlq, ProcessDlq, table
<1>3. ASSUME NEW q \in Orders,
             \/ PublishOrder(q) \/ Stalled(q) \/ LockExpires(q) \/ \E s \in Slots : Pickup(s, q)
             \/ \E to \in PatchStatuses : UpdateStatus(q, to) \/ UpdateOrderStatus(q, to)
      PROVE  dlqAt'[o]
  BY <1>3 DEF PublishOrder, Stalled, LockExpires, Pickup, UpdateStatus, UpdateOrderStatus, SetStatus, table
<1>4. CASE (\E p \in Procs : Crash(p)) \/ UNCHANGED vars
  BY <1>4 DEF Crash, vars, table
<1> QED
  BY <1>1, <1>2, <1>3, <1>4 DEF Next

\* An order that was given up stays FAILED, and listed once it is listed, whatever late
\* executions and second handlers do, unless a terminal or the operator touches it.
THEOREM GivenUpStays == RedriveSpec => GivenUpForGood
<1>1. ASSUME TypeInv, [Next]_vars, NEW o \in Orders, status[o] = "FAILED", patches'[o] = patches[o]
      PROVE  status'[o] = "FAILED" /\ (dlqAt[o] => dlqAt'[o])
  <2>0. RowExists(o)
    BY <1>1 DEF RowExists, Absent
  <2>1. ASSUME NEW q \in Orders, Creates(q) PROVE status'[o] = "FAILED"
    BY <1>1, <2>0, <2>1 DEF Creates, CreateRow, KeyTaken, TypeInv, TypeOK, TableType
  <2>2. ASSUME NEW q \in Orders, NEW from \in Status, NEW to \in Status, Moves(q, from, to)
        PROVE  status'[o] = "FAILED"
    <3>1. q # o
      BY <1>1, <2>2 DEF Moves, Matches, Validate, AllowedTransitions
    <3> QED
      BY <1>1, <2>2, <3>1 DEF Moves, MoveRow, TypeInv, TypeOK, TableType
  <2>3. ASSUME NEW q \in Orders, NEW to \in PatchStatuses, SetStatus(q, to) PROVE status'[o] = "FAILED"
    <3>1. q # o
      BY <1>1, <2>3, WorkerAssumption DEF SetStatus, TypeInv, TypeOK, RestType
    <3> QED
      BY <1>1, <2>3, <3>1 DEF SetStatus, TypeInv, TypeOK, TableType
  <2>4. status'[o] = "FAILED"
    BY <1>1, <2>1, <2>2, <2>3, NextRowStep DEF RowStep
  <2> QED
    BY <1>1, <2>0, <2>4, MarkStays
<1>2. TypeInv /\ [RedriveNext]_<<vars, adminVars>> =>
        [\A o \in Orders : LeftAlone(o) =>
           /\ status[o] = "FAILED" => status'[o] = "FAILED"
           /\ o \in GetDlqOrders => o \in GetDlqOrders']_<<vars, adminVars>>
  BY <1>1, RedriveStep DEF GetDlqOrders, Listed, LeftAlone
<1>3. RedriveSpec => []TypeInv
  BY RedriveChangesNothing, FreshInvHolds, PTL
<1> QED
  BY <1>2, <1>3, PTL DEF RedriveSpec, GivenUpForGood

\* Beside the operator's redrive the worker keeps every promise it keeps alone: its types,
\* one POS call per key, a true log, no unstored acknowledgement, no unlisted failure.
THEOREM RedriveKeepsWorker ==
  RedriveSpec => [](TypeOK /\ PosOnce /\ AuditTrail /\ AckedIsStored /\ FailedIsListed)
  BY RedriveChangesNothing, TypeCorrect, PosCalledOnce, LogIsTrue, NothingAckedUnstored, NoFailureUnlisted, PTL

\* and the order store still is the ledger.
THEOREM RedriveImplementsLedger == RedriveSpec => ImplementsLedger
  BY RedriveChangesNothing, WorkerImplementsLedger, PTL

=============================================================================
