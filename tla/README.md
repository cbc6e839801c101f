# TLA+ models of the chicken-order-system

The repository is an order pipeline for a franchise: an HTTP API accepts an order
under a client-chosen idempotency key and puts a job on a BullMQ queue; worker
processes store the order in PostgreSQL, hand it to the store's POS and walk its
status along a state machine; failures are retried, then moved to a dead letter
queue (DLQ) for an operator. Terminals in the stores follow and change the orders,
operators keep the list of delivery areas. This directory holds TLA+ models of that system,
the TLC runs that check them and the TLAPS proofs about them.

    tlc -workers 2 -config worker_safety.cfg MCAdminRedrive
    tlapm OrderWorkerProofs.tla

`PROJECT.json` lists components, runs, mutants (one plausible bug per property,
which TLC must detect), the map from definitions to source lines, findings,
hazards and theorems.

## 1. Inventory

| Component (source under `src/src`) | State | Operations | Interacts with |
|---|---|---|---|
| Intake: `create-order.service.ts`, `idempotency.service.ts`, called by `POST /orders`, `POST /order`, `POST /internal/orders` | Redis `idempotency:<k>` and `idempotency:<k>:response`, both with a TTL | tryAcquire, cached answer, validate, publish, setCompleted, release | queue, menus, socket gateway |
| Queue: `order-queue.service.ts`, BullMQ | jobs `order-<id>`, attempts, job locks | publishOrder, pickup, retry, stalled check, publishToDlq | intake, worker |
| Worker: `process-order.service.ts`, `order.processor.ts` | executions in flight | process, handleFailure, moveToDlq | lock, repository, POS, DLQ |
| Lock: `distributed-lock.service.ts` | Redis `lock:order:<id>` with a TTL | SET NX EX, compare-and-delete | worker |
| Repository: `order.repository.ts` | orders, order_state_transitions | createOrder, transitionStatus, markDlq, incrementRetryCount | worker, admin |
| State machine: `order-state-machine.ts` | none | validate | repository |
| POS adapters and circuit breaker | breaker per process and store | execute, sendOrder | worker |
| DLQ processor, notification | jobs of `orders-dlq` | alert, acknowledge | handler |
| Terminals: PATCH of `order.controller.ts` and `public.controller.ts`, `order.gateway.ts` | orders.status, updated_at; socket rooms | unconditional UPDATE, order_updated, new_order, join, disconnect | repository's rows, intake |
| Order lists and sales: `public.controller.ts` | none | orders, by date, missed orders, order status, sales report | repository's rows |
| Admin: `admin.service.ts` | none | redrive, DLQ list | repository, queue |
| Menus: `menu-admin.controller.ts`, menu cache | menus, Redis `menu:*` | replace all, cached read | intake, order_items |
| Phone OTP: `auth.controller.ts` | map in the process | send, verify, sweep | none |
| Status page: `admin.service.ts` getSystemStatus | Redis `cb:store:<id>` | read | breaker |
| Delivery areas: `admin.controller.ts` with the page script it serves, `public.controller.ts` | areas, stores.is_active; copies in browser pages | list, create, update, delete, resolve an address | operators, customers |
| Settings, metrics, logging, bootstrap | none worth a model | | |

What is hard here: several executions of one order at once (a stalled job is delivered
again while its first worker still runs), handlers of failed attempts running beside the
next attempt, process crashes between two awaits, replies of Redis, PostgreSQL or the
POS that are lost after the effect took place, lock and key TTLs that run out, terminals
that overwrite statuses underneath everything, readers that poll by a clock, and pages
that save from a stale copy. What must hold: no order reaches the POS twice, no
acknowledged order is lost, the log tells the truth, no key or lock is taken for good,
every job ends, every order that was given up on can be found by an operator, what a
customer was shown is not taken back, and an edit changes only what its operator
touched.

## 2. Modules

| Module | Models |
|---|---|
| `OrderStateMachine` | statuses, transition map, `Validate` |
| `OrderLedger` | abstract specification: what the order store promises |
| `OrderWorker` | queue, executions, lock, table, POS outcomes, failure handlers, DLQ, PATCH |
| `MCOrderWorker` | instances of it for TLC |
| `OrderWorkerProofs` | TLAPS proofs about it |
| `OrderIntake` | `CreateOrderService.execute` and the idempotency keys |
| `MCOrderIntake` | instances of it for TLC |
| `OrderIntakeProofs` | TLAPS proofs about it |
| `AdminRedrive` | extends `OrderWorker` by the operator: `redriveOrder`, the DLQ list |
| `OrderSystem` | `OrderIntake` and `OrderWorker` composed |
| `OrderSystemProofs` | TLAPS proofs that it implements both, about accepted orders, and about `AdminRedrive` |
| `MenuCatalog` | menus, price cache, amount check, menu saves, foreign key of the items |
| `PosBreaker` | retry around the breaker in each process, status in Redis |
| `PhoneOtp` | one-time codes of a phone number |
| `StoreDesk` | over `OrderLedger`: socket rooms, PATCH with its answer and event, order lists, sales report |
| `StoreDirectory` | areas table, operators' pages, resolution of an address |
| `MenuCatalogProofs`, `PosBreakerProofs`, `PhoneOtpProofs`, `StoreDeskProofs`, `StoreDirectoryProofs` | TLAPS proofs about these |
| `MCOrderSystem`, `MCAdminRedrive`, `MCMenuCatalog`, `MCPosBreaker`, `MCPhoneOtp`, `MCStoreDesk`, `MCStoreDirectory` | instances of these for TLC |

`OrderSystem` puts `OrderIntake` and `OrderWorker` side by side; they meet in the
published jobs. `AdminRedrive` adds the operator to the worker. `OrderLedger` is what
the worker promises of the order rows: `worker_safety` checks and
`WorkerImplementsLedger` proves that the worker implements it, and `StoreDesk` is built
on the promise instead of on the worker.
`PosBreaker` gives `OrderWorker` the outcomes of a POS call, `MenuCatalog` refines
the verdict of `ValidateItems` and shows where the worker's insert can fail for good.

### OrderWorker

One action per await. `pc[s]` names the next await of execution slot `s`:

| `pc` | code | action |
|---|---|---|
| acquire | `lock.acquireOrThrow` | `Acquire`, `AcquireFails` |
| insert | transaction of `createOrder` | `Insert`, `InsertFails` |
| reread | `findOne` after its commit | `ReadRow`, `ReadFails` |
| save | `transitionToSaved` | `TransitionToSaved`, `AnyTransitionFails` |
| lookup | store row, adapter | `LookupStore`, `ReadFails` |
| pos | breaker around `sendOrder` | `CallPos`, `PosFails`, `BreakerOpen` |
| readSaved, sent, readSent, complete | the two reads and transitions after the call | `ReadRow`, `TransitionToSent`, `TransitionToCompleted` |
| release | the `finally` block | `Release`, `ReleaseFails` |
| finish | BullMQ's report | `Finish` |

`hpc[<<o, n>>]` does the same for `handleFailure` after attempt `n` of order `o`:
`CountRetry`, or `ReadFailed`, `FailRow`, `MarkDlq`, `PublishToDlq`, and then
`ProcessDlq` for the DLQ job. An exception that leaves this event listener is an
unhandled rejection and ends the process, so `FailRow` contains that outcome for
statuses the map does not lead to FAILED from, and a failing query of a handler
is the `Crash` of its process.

A database transaction is one step. Its failure is another that either left
nothing or committed and lost the answer. The POS call with its inner retries is
one step: they all carry the same idempotency header and end in one answer. A
breaker that opens between two of them ends in the same rejection as `PosFails`.

BullMQ is external; the model uses only what the code relies on: a job id is
added once, a rejected attempt is retried until `attempts` are used up,
`attemptsMade` already counts the failed attempt when `failed` is emitted, an
execution that lost its job cannot report, the stalled check puts an active job
whose lock has run out back, and a job that stalled more than
`maxStalledCount` times is failed without running the processor. Job
deduplication for completed jobs that were trimmed (`removeOnComplete`) never
matters because an order id is published by one request.

The lock's token is `workerId:jobId`. A stalled job that the same process takes again
runs twice there with one token (`SharesToken`), and the release of the late execution
frees the lock of the other, against the comment at distributed-lock.service.ts:42. So
`overrun[s]` says that a TTL ran out under `s` or under an execution that shares its
token; a new execution inherits it from one of its token that is still running.
`LockExcludes` and `LockKept` are stated up to `overrun`: between processes
compare-and-delete does what the comment says, within one it does not.

Left out of the data: amounts, items, traces, timestamps, reasons. The missing
store and the unknown POS type in `sendToPos` are unreachable behind the foreign
key and the CHECK constraint of migration 001, so no execution throws a
`BusinessLogicError`.

### OrderIntake

One element of `Requests` is one call of `execute` together with the order id it
generates. `rpc` names its next await. A failing command either had its effect or
not; `TryAcquireFails` includes the SET NX that took the key, lost its reply and
was sent again. `PendingExpires` never fires under a request in flight: the TTL is
a day. Menu and amount validation is a choice between its verdicts.

Of the three endpoints, `POST /order` and `POST /internal/orders` refuse some
requests themselves (`ReceiveCompat`, `ReceiveBridge`); the DTO of `POST /orders`
keeps others from being received at all.

### OrderSystem

A request and the order it may create are one element of `Orders`. The intake's
`published` is defined as the set of orders that have a job in `orders-main`,
finished ones included, and is all the two share. `IntakeStep` is a step of the
intake in which the worker's side changes by `PublishOrder` at most; `WorkerStep` is
any step of the worker that publishes nothing. So two jobs of one key exist exactly
when the intake let a second request in, after a failure or an expired TTL.

### AdminRedrive

`ReadForRedrive` is the `findById` of `redriveOrder` with its check for FAILED,
`RedriveRow` the transition to QUEUED. The two awaits are two steps, and every action of
`OrderWorker` may come between them. A request answered with 404 or 400 changes nothing
and is not a step. `Matches` refuses the transition of every row, because the code
validates it without `isAdminRedrive`: that is the finding of `redrive_refused`. After a
transition that succeeds the code would publish job `order-<id>` again, which BullMQ
ignores because it keeps failed jobs.

### MenuCatalog

One store. `Browse` is `GET /menus` together with the customer's choice,
`GetCached`, `FindMenusByIds` and `SetCached` are the three awaits of
`getMenusCached`, each followed by the verdict where the code gives it,
`InsertItems` is the worker's transaction as far as the constraints of the tables are
concerned (`Insertable`): the foreign key to the menus, and the values the columns take,
of which `fits[o]` keeps whether the order's quantities and key are such. `CreateOrderDto`
asks for whole quantities from 1 without an upper limit, `POST /order` and
`POST /internal/orders` pass on what they get, so a quantity of 0, 1.5 or beyond INTEGER
whose amount adds up is accepted and then refused by every insert.
A save is two steps because it runs under READ COMMITTED: its DELETE sees the rows
committed when it starts (`SaveMenus`), then waits for other writers and skips
what is gone (`CommitMenus`). Rows another save inserted in between it does not
see. ON DELETE RESTRICT or a taken id rolls the transaction back.

### PosBreaker

cockatiel is external and modelled from how the service uses it. `Enter` is a call
meeting the breaker; in the half-open state all but the test call wait for it.
Results of calls that started before the breaker opened arrive late. The open
duration (30 s) is longer than the longest timeout of an adapter (8 s), so
`HalfOpenAfter` finds no call in flight. Failure counts saturate at the threshold,
the only value they are compared with. `writes` are the unawaited `hset` commands.

### PhoneOtp

One number, one process, time in half minutes. The record is in the memory of the API
process: with several API tasks behind the balancer, as production runs them, each keeps
its own, and all limits of `CodeIsLimited` and `SendsSpaced` are limits per process; a
restart forgets them. The handlers do not await between
reading and writing the record, so each is one step; turned-away requests change
nothing. `codes` is a history variable.

### StoreDesk

Rows come and move by the actions of `OrderLedger`; its `Override` is here the UPDATE
of a PATCH request. A PATCH is two steps: `StartPatch` fixes NOW() and what the
statement's snapshot finds, then it may wait for a worker's row lock, and
`FinishPatch` writes, answers and emits. `UpdateResult` is what TypeORM resolves to
for an UPDATE with RETURNING, `[rows, count]`, which `order.repository.ts:172`
relies on and the PATCH handlers do not. Sockets are sets of rooms; an event goes
to who is in the room at that moment. `GetMissedOrders` is a terminal that asks for
what it missed since it last asked. The 24 hours of `GET /orders` are more than the
clock ticks of an instance, and the LIMITs of the lists more than its orders. The
three queries of `GET /sales` are three steps, with other steps in between; `Charged`
are the orders with `calculated_amount > 0`, which the cancels ask for and the two other
queries do not. A socket joins the room of whatever store id it sends, the word
`undefined` included; `JoinedRooms` says which of the two rooms an instance uses.

### StoreDirectory

Each operator page has the copy it loaded last (`shown`, `offered`) and an edit
form. `LoadData` and `Answered` put an answer on its way, `Loaded` is its arrival, in
any order; an answer that is lost stays on its way. `Loaded` fills both selects
again, as the script does. `CreateArea`, `UpdateArea` and `DeleteArea` are the
statements of the endpoints. The two queries of `getAreasData` are taken as one,
because `stores.is_active` is changed by hand only (`SetStoreActive`). Areas and
stores are numbered in the order the queries sort them by; the name, `sort_order` and
the passwords are left out. `ver`, `touched`, `rerendered` and `served` are history.

## 3. Runs

| Run | Instance | Shows |
|---|---|---|
| `worker_safety` | 1 order, 2 processes with 1 slot, 3 attempts, 2 failures, 1 PATCH, redrives | `TypeOK`; `LockExcludes`: two executions overlap only after a TTL ran out; `LockKept`: a late release never frees the lock of an execution in another process; `FailedIsListed`: a FAILED row without dlq_at has a handler that is about to mark it or died; `AuditTrail`: the log is the row's history; `GivenUpForGood`: no late execution and no second handler moves a FAILED row or takes it off the operator's list; `ImplementsLedger`: refinement of `OrderLedger` |
| `worker_liveness` | 1 order, 1 process with 2 slots, 2 failures | `LockKept` for executions that share a token: only a TTL that ran out under one of them costs a lock; `JobsEnd`, `LocksEnd`, `ExhaustedReachesDlq`, `CleanRunCompletes` |
| `intake` | 4 requests, 3 under one key, 2 failures | `OneJobPerKey`, `HolderOwnsKey`, `AnswerIsTrue`, `KeyNotStuck` |
| `system` | 2 requests of one key, 2 processes, 2 attempts, 1 failure in the intake and 1 in the worker | `PosOnce`: one POS call per key; `AckedIsStored`: an acknowledged job has a row under its key; `AnsweredIdHasRow`: the id of a 202 can be looked up once its job is through; `AcceptedIsKept`: an accepted order is on its way, stored or with the operator, unless a handler died or the job stalled out |
| `menu` | 2 orders, one of which may have values the columns refuse, 2 saves, 3 menu ids, 3 lists | `PricedFromOneList`: one state of the menus prices all items, and the sum is the one shown; `OrderedRowsStay`: a menu that was ordered is never deleted or changed; `CacheCatchesUp`; `AcceptedGetsStored`: an accepted order is stored, or given up because a menu of it was deleted first or the columns refuse its values; new prices, sold-out menus and stale cache entries never cost one |
| `breaker` | 1 process, 2 executions, threshold 3, 3 retries, 1 restart | `TestsAlone`, `ExecutionsEnd` |
| `otp_limits` | 3 codes, 4 minutes | `CodeIsLimited`: attempts per code, none on an expired or replaced one; `SendsSpaced`: the next code waits for the cooldown, or for the expiry of one whose attempts are used up |
| `desk` | 1 order, 1 terminal, 2 PATCH requests, 2 ticks, 1 report | `PollsMissOnlyOverlaps`: polling misses only a change whose PATCH was under way at the last poll; `ReportKeepsSales`: workers that move orders between the three queries never take a sale out of a report, or put one among the cancelled; `CustomerNeverSetBack`: workers never take back what a customer was shown |
| `directory` | 2 pages, 2 areas, 2 stores, 2 writes, 2 edits, 1 load, 1 store opened or closed | `UntouchedStays`: a save changes no field its operator left alone unless the row moved on or a late load refilled the form; `DeletedForGood`; `ResolvedHasServed`: no address leads to a store that was never active |

Runs in which the code does not do what the repository says of it:

| Run | Says | Does |
|---|---|---|
| `worker_saved_resumed` | docs/03-state-machine.md, scenario A: a redelivered job goes on at the POS step | it takes its own row for a finished duplicate and completes; the order stays SAVED |
| `redrive_refused` | README.md:93 and :167, docs/03-state-machine.md:48: the operator's redrive puts a FAILED order back to QUEUED | `transitionStatus` calls `validate` without `isAdminRedrive`; the map has no move out of FAILED, so the redrive of every order is refused |
| `desk_update` | order.gateway.ts:62: a status change is emitted to the store's terminals | the handlers take `[rows, count]` for the rows: the event goes to room `store:undefined`, and an unknown id is not answered with 404 |

Further disagreements that came up while modelling and have no run of their own:

- PATCH moves a status along no edge of the map, which order-state-machine.ts:12
  says no code can do. `AuditTrail` says what remains true then.
- The handler moves an order to the DLQ after its second attempt, with the third still
  scheduled: the literal 2 at process-order.service.ts:184 is compared with an
  `attemptsMade` that already counts the failed attempt. WORK_LOG.md:133 says three.
- README.md:4 says that no order is lost. Two processes that die before the insert of
  one job leave an accepted order nowhere: the job is failed for stalling at its first
  attempt, whose handler only counts, so there is no row, no DLQ entry and no alert.
  It is the last disjunct of `AcceptedIsKept`. `system`, with one failure on the worker's
  side, stops short of it; the theorem `AcceptedOrdersAreKept` does not, and one order
  with two such failures violates the property without that disjunct.
- 001_initial_schema.sql:92 says later menu changes do not affect orders. A save
  between acceptance and insert makes the order unstorable; `AcceptedGetsStored`
  says exactly which orders that and a refused value cost.
- Missed orders are selected by `updated_at`, which only PATCH sets: a new order, or
  one a worker moved, is never among them. `PollsMissOnlyOverlaps` is about the rest.
- A fee of 0 is answered as 2000 by `GET /delivery-fee` (`||`) and as 0 by
  `GET /settings` (`??`).
- `resolveArea` does not check `stores.is_active` for a delivery: a store that was
  closed keeps its areas and its orders; hence "was ever active" in `ResolvedHasServed`.
- A page's load that arrives while an edit form is open resets the form's store to the
  first one, `updateArea` writes all columns and so undoes what another page saved, and
  on a deleted area it changes nothing and answers ok.
- distributed-lock.service.ts:42 says a release frees only the caller's own lock. Two
  executions of one job in one process share the token, so once the TTL ran out under
  one, its release frees the other's lock, and a further execution may enter beside it.
  order.processor.ts:11 allows 20 executions per process. `LockKept` and `LockExcludes`
  hold up to that (`overrun`); `PosCalledOnce` holds all the same.
- The intake's catch block also gives the key back when the order was queued and
  only caching the answer failed; hence `disturbed` in `OneJobPerKey`.
- After the first stored order every save of the store's menu is refused by the
  foreign key (the other side of `OrderedRowsStay`), and two overlapping saves with
  fresh ids leave both lists in the table.
- The breaker status page is right for one process without restart only
  (`StatusIsCurrent`): all worker processes write one hash, and the last writer wins.
- The retry is the outer policy, so the refusal of an open breaker is retried, which
  docs/05-fault-tolerance.md:63 means to avoid.

### Bounds

`MaxFaults` caps the failures the environment injects (`MaxApiFaults` those of the
intake in `system`), `MaxPatches` the PATCH calls; retries and stalls are then bounded
by the code itself. Two failures are enough for a job that stalls twice, for a stall
followed by an expired lock, and for a failed attempt whose handler crashes; the
failures the code brings about itself (a lock that is taken, a refused transition) are
not counted. In `system` one failure on the intake's side lets the second job of a key
in, and one on the worker's side overlaps the two. Two slots give every pair of
overlapping executions, in two processes (`worker_safety`, `system`) and in one
(`worker_liveness`, where they share a token); a slot is used again, so a third
execution follows one that ended. Three at once are beyond TLC's reach here; the
theorems cover any number. `MaxAttempts` is the default 3, so the handler of attempt 2
can overlap attempt 3 (2 in `system`, whose questions end with the row). `SomeStatuses`
takes one terminal status and one worker status for PATCH: the code treats the nine
alike except for whether the map knows them. `Lists` of `MenuCatalog` has two lists with
equal sums and different prices, one with a sold-out menu, and one with a menu gone, one
at another price and a fresh id; two saves suffice for one list before and one after a
cache fill, and for an overlap. The breaker's threshold is 3 in place of 5: with four
calls per execution it is still crossed in the middle of one and by two together. OTP
limits are the code's own; 4 minutes pass the 3 of a code's validity. In `desk` two
ticks let a PATCH start, a poll come, the PATCH commit and another poll come; its
statuses are one the worker never sets and one it moves on from, so a worker can
overtake a terminal and a terminal a worker. In `directory` two writes and two edits are
one of each per page, which is what it takes for one page to save over the other, and
the one load may come before, between or after them. Deadlock is not checked: with all
orders processed and no further client or operator the system rightly rests. Symmetry is
used in safety runs only: worker processes together with their slots, requests of one
key, PATCH requests, pages.

### Fairness

`Fairness` of the worker asks for weak fairness of pickup, of the stalled check on
a job whose process is gone, of TTL expiry once the holder is gone, of every step
of a live execution and handler, and of the DLQ processor. These are the event loop
of a live process (`maxRetriesPerRequest` is null and every query ends), the polling
of BullMQ workers and Redis' own expiry. The intake and the catalogue ask for the
steps of requests and transactions in flight and for TTL expiry, the breaker for
the steps of an execution, whose POS call ends by its timeout. Nothing is assumed
of clients, terminals, operators or failures, and `system`, `desk` and `directory`,
whose properties are about safety, assume no fairness at all. `ExhaustedReachesDlq` excepts
handlers that died with their process: no code takes up their work.

## 4. Proofs

Every safety property the passing runs check is also a theorem. The theorems hold for
every value of the constants that satisfies the module's assumption: any number of
orders, processes, executions, requests, pages, retries and failures. Each proof module
states one inductive invariant, or a few that build on each other, shows that the
initial states have it and that each action keeps it, and reads the properties off it.
TLC has checked each invariant on the instance of the component's run.

**`OrderWorkerProofs`**

- `TypeCorrect`. `TypeOK` alone is not inductive: that `attemptsMade` never passes
  `MaxAttempts` needs that a job still in the queue or active has attempts left
  (`JobInv`), and that a busy slot has an order (`SlotInv`).
- `PosCalledOnce` (`PosOnce`). The argument does not use the lock. The right to call
  the POS is the row: an execution that passed the insert owns the row of its order
  (`OwnsRow`) and is the only one to do so before the POS call (`OwnsAlone`), because
  the insert succeeds once per key; no call has been made while such an owner is still
  before the call (`CallsInv`); and one key has one row (`KeyInv`). So even two
  executions that hold the order's lock at once cannot both reach the POS.
- `NothingAckedUnstored` (`AckedIsStored`). An execution that is about to report success
  knows that its key is taken, by its own insert or by the row it conflicted with
  (`StoredInv`), and rows are never deleted.
- `LogIsTrue` (`AuditTrail`). Row and audit line are written in one transaction; the
  rest is that an order without a row has an empty log and version 0 (`TrailInv`).
- `WorkerImplementsLedger` (`ImplementsLedger`): the refinement, step by step. The
  ledger's guards on `Submit` and `Advance` are the hard part. They need that an
  execution at the POS step has a logged SAVED and that one past it has the POS's
  consent (`ConsentInv`), on top of `PosInv`.
- `LockIsKept`, `LockIsExclusive` (`LockKept`, `LockExcludes`), for any number of
  executions per process. The two are inductive together with `TokenInv`, that of the
  executions that share a token all or none are `overrun`: an execution whose TTL did not
  run out then shares the critical section with no other of its token
  (`LockExcludes`), so its release frees no lock but its own, which is what `LockKept`
  needs of it.
- `NoFailureUnlisted` (`FailedIsListed`). A failed attempt starts the first handler of
  its number, so no handler is overwritten (`FreshInv`).
- `LedgerKeepsPromise`: what `OrderLedger` alone guarantees (`LedgerPromise`): one row
  per key, at most one submission of a row, none before SAVED was logged, no acceptance
  without a submission, no SENT_TO_POS or COMPLETED in the log without the acceptance,
  and no terminal's status in the log at all. It is proved of the ledger's steps only;
  `WorkerKeepsPromise` gets it through the refinement. With the log it gives
  `SentOrdersWereTaken`: an order no terminal has touched shows SENT_TO_POS or COMPLETED
  only if the POS took it.
- `AbandonedForGood` and `StrandedForGood` are the general form of the finding of
  `worker_saved_resumed`. An execution gets on the way to the POS only by creating its
  row (`OwnersCreate`), so once the creator has thrown or died short of the POS
  (`Abandoned`), nothing under the key ever reaches it. When the job has then ended, as
  a duplicate as a rule, and no handler is on the way to mark the row (`Stranded`), the
  row stays QUEUED or SAVED, outside the operator's list of FAILED orders, until a
  terminal overwrites it. TLC reaches such a state with one crash. `EndedJobsStay`, on
  which this rests, is of interest by itself: the late report of an execution whose job
  was taken from it never changes a job that has ended.

**`OrderIntakeProofs`**: `TypeCorrect`, `KeyIsHolders` (`HolderOwnsKey`), `JobPerKey`
(`OneJobPerKey`) and `AnswersAreTrue` (`AnswerIsTrue`), all from one invariant.
`OneJobPerKey` needs to know why a second request cannot get in: a published order of
an undisturbed key still has the key in its name and is not on its way to the release
(`PublishInv`). `AnswerIsTrue` needs that a cached id is a published order of the same
key (`ResponseInv`) and that a request that failed validation published nothing
(`CatchInv`).

**`OrderSystemProofs`** carries this over to the whole pipeline.
`SystemImplementsWorker` and `SystemImplementsIntake` show that every step of the
composed system is, on the worker's variables, a step of the worker or a stutter, and
likewise for the intake, because a worker step leaves the requests and the published
jobs alone. From there:

- `SystemCallsPosOnce`: behind the real intake, however often it lets a second job of a
  key through, one execution per key calls the POS. `SystemImplementsLedger` and
  `SystemStoresAcked` carry the ledger and `AckedIsStored` over in the same way.
- `AnswersNameOneOrder`: under a key that no failure and no expiry touched, all clients
  told 202 are told one order id, and it is that order, no other of the key, that is
  stored and handed to the POS. The intake knows of one job per key, the worker that
  rows and POS calls come from jobs; neither half can state it alone.
- `AnsweredIdsHaveRows` (`AnsweredIdHasRow`): the intake's promise that an undisturbed
  key has one job meets the worker's that a completed job's key has a row.
- `AcceptedOrdersAreKept` (`AcceptedIsKept`), for `MaxAttempts >= 2`. A job that failed
  without stalling has used all its attempts, and the handler of a second or later
  attempt ends only with a job in the dead letter queue (`HandOverInv`). With one
  attempt the handler merely counts and the property is false; the code configures 3.
- `RedriveChangesNothing`: the map has no move out of FAILED, so an operator's redrive
  is a stutter of the worker (the finding of `redrive_refused` for every instance), and
  the worker's theorems hold of `RedriveSpec` too (`RedriveKeepsWorker`,
  `RedriveImplementsLedger`), which is the specification `worker_safety` runs.
  `GivenUpStays` (`GivenUpForGood`) builds on it.

**`PosBreakerProofs`**: `BreakerTypeCorrect`; `TestCallIsAlone` (`TestsAlone`) from
`TestInv`: a closed or open breaker has no test call, one that is due has no call at all
in flight; `StatusIsCurrent` (`ShownIsCurrent`, which no run checks) from `ShownInv`:
the last write on its way, or else what is shown, is the state. `BreakerAssumption`
takes the processes to be finite in number, so that "one process" can be said by a
cardinality.

**`PhoneOtpProofs`**: `OtpTypeCorrect`, `CodesAreLimited`, `SendsAreSpaced`. The link
between record and history is what has to be carried along: a record is that of the
last code, unverified, with its times and tries (`RecordIsLast`), and without a record
the last code was verified or has expired (`DroppedIsOver`).

**`MenuCatalogProofs`**: `PricesComeFromOneList` (`PricedFromOneList`) from `PriceInv`:
what is cached or was read for a cart is of one state of the menus;
`OrderedMenusStay` (`OrderedRowsStay`) from `KeyInv`, the foreign key;
`MenuTypeCorrect` (`TypeOK`), which needs that the sum of a cart's prices is a natural
number. The sum is a fold of the community modules over a set whose elements it
chooses one by one. The library's induction rules are out of the provers' reach, so
that such a sum exists, and is a number, is shown by a least counterexample: of the
sizes for which it fails there would be a smallest (`LeastNumber`), and taking one
element out gives a smaller one (`SumExists`). This asks for finite menu tables, which
`IsMenuList` says. `AmountsAreReal` puts both together: the amount of an accepted
order is what its items, all on sale, cost in one state the menus were really in.

**`StoreDeskProofs`**: `DeskTypeCorrect`, `OnlyOverlapsAreMissed`
(`PollsMissOnlyOverlaps`), `WorkersTakeNoSaleBack` (`ReportKeepsSales`),
`CustomersAreNotSetBack` (`CustomerNeverSetBack`). `TimeInv` says that the times of rows
and UPDATEs are in order, that an UPDATE that found its row finds it still, and that a
request under way has not been answered; `ReportInv` that what a query counted still
counts, as sold or as cancelled, unless a terminal changed it since: the statuses that
count as sold are closed under the workers' map. `DeskAssumption` asks for a clock that
can show its first tick. `DeskImplementsLedger` shows that the desk, which is built on
the ledger's actions, stays within them: an UPDATE that ends overwrites a row that was
there when it began. `UpdatesMissTheStore` is the finding of `desk_update` for any
number of terminals: the event of a PATCH reaches sockets in the room of an undefined
store id only.

**`StoreDirectoryProofs`**: `DirectoryTypeCorrect`, `ResolvedStoresHaveServed`,
`DeletedStays`, `SavesKeepTheRest`. Pages, loads and requests carry copies, and
`DirectoryInv` says what a copy is worth: its version is one of the past, and it is
true as long as its version is the row's (`CopyOK`, `FormTrue`); only stores that were
active are offered (`OfferedInv`); a POST under way is for an area of its own
(`PostInv`), which is why a deleted area never returns. That versions stay within
`MaxWrites` rests on counting the requests still under way (`BudgetInv`).

**Only model-checked.** Liveness, because fairness and ENABLED are outside the prover's
reach: `JobsEnd`, `LocksEnd`, `ExhaustedReachesDlq`, `CleanRunCompletes`, `KeyNotStuck`,
`CacheCatchesUp`, `AcceptedGetsStored`, `ExecutionsEnd`. The three runs
that end in a violation are counterexamples and need no proof; each of them has a
theorem that says the same of every instance (`StrandedForGood`, `RedriveChangesNothing`,
`UpdatesMissTheStore`).

## 5. Plan

Done: the worker with its ledger, the intake, both composed, the operator's redrive,
the menu catalogue, the breaker, the one-time codes, the stores' desk, the delivery
areas, proofs of their safety properties, the ledger's promise and what follows from
it for the worker, the intake and worker together, and the redrive. Nothing of the plan
is left; liveness stays with TLC.

## 6. Not modelled

Store settings are one row that each save replaces as a whole, with one expression per
endpoint. Categories and options are stored and never read: their endpoints answer
with empty lists. `GET /customers` and the endpoints that answer with constants
(banners, riders, tables, audit, promotions) touch nothing another part writes. HTML
markup, message formats of the POS adapters, metrics, logging, tracing, configuration
and deployment carry no state of the orders. `order-status-publisher` and `bbq-bridge`
are called by no code. `PROJECT.json` lists every part with its reason.
