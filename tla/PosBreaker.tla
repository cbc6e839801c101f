----------------------------- MODULE PosBreaker -----------------------------
(***************************************************************************)
(* PosCircuitBreakerService for one store: in every worker process a retry *)
(* wrapped around a circuit breaker of its own (cockatiel), shared by the  *)
(* executions of that process, and one Redis hash all processes write the  *)
(* breaker's state to for the operators' status page.                      *)
(***************************************************************************)
EXTENDS Integers, Sequences, FiniteSets

CONSTANTS
    Procs,          \* worker processes
    Slots, ProcOf,  \* concurrent executions and the process each runs in
    Threshold,      \* circuitBreaker.failureThreshold
    MaxRetries,     \* maxAttempts of the retry policy: calls after the first
    MaxRuns,        \* bound: calls of execute() per slot
    MaxRestarts     \* bound: restarts of worker processes

ASSUME BreakerAssumption ==
    /\ IsFiniteSet(Procs)
    /\ ProcOf \in [Slots -> Procs]
    /\ Threshold \in Nat \ {0}
    /\ MaxRetries \in Nat
    /\ MaxRuns \in Nat
    /\ MaxRestarts \in Nat

VARIABLES
    state,     \* state[p]  : "due" is open with halfOpenAfter over
    count,     \* count[p]  : consecutive failures, up to Threshold
    bpc,       \* bpc[s]    : next await of the execution
    retries,   \* retries[s]: retries used
    result,    \* result[s] : how its last execute() ended
    writes,    \* writes[p] : hset commands on their way to Redis
    shown,     \* the state in cb:store:<id>
    runs, restarts

procVars == <<state, count, writes>>
slotVars == <<bpc, retries, result>>
vars == <<procVars, slotVars, shown, runs, restarts>>

Shown == {"UNKNOWN", "CLOSED", "OPEN"}

TypeOK ==
    /\ state \in [Procs -> {"closed", "open", "due", "half"}]
    /\ count \in [Procs -> 0 .. Threshold]
    /\ bpc \in [Slots -> {"idle", "enter", "call", "test", "wait"}]
    /\ retries \in [Slots -> 0 .. MaxRetries]
    /\ result \in [Slots -> {"none", "ok", "unavailable", "broken"}]
    /\ writes \in [Procs -> Seq(Shown \ {"UNKNOWN"})]
    /\ shown \in Shown
    /\ runs \in [Slots -> 0 .. MaxRuns]
    /\ restarts \in 0 .. MaxRestarts

Init ==
    /\ state = [p \in Procs |-> "closed"]
    /\ count = [p \in Procs |-> 0]
    /\ bpc = [s \in Slots |-> "idle"]
    /\ retries = [s \in Slots |-> 0]
    /\ result = [s \in Slots |-> "none"]
    /\ writes = [p \in Procs |-> <<>>]
    /\ shown = "UNKNOWN"
    /\ runs = [s \in Slots |-> 0]
    /\ restarts = 0

InFlight(p) == {s \in Slots : ProcOf[s] = p /\ bpc[s] \in {"call", "test"}}

-----------------------------------------------------------------------------
(* The retry policy.                                                       *)

Execute(s) ==
    /\ bpc[s] = "idle"
    /\ runs[s] < MaxRuns
    /\ runs' = [runs EXCEPT ![s] = @ + 1]
    /\ bpc' = [bpc EXCEPT ![s] = "enter"]
    /\ retries' = [retries EXCEPT ![s] = 0]
    /\ result' = [result EXCEPT ![s] = "none"]
    /\ UNCHANGED <<procVars, shown, restarts>>

Ends(s, r) ==
    /\ bpc' = [bpc EXCEPT ![s] = "idle"]
    /\ retries' = [retries EXCEPT ![s] = 0]
    /\ result' = [result EXCEPT ![s] = r]

\* Mutation of Fails: retry without maxAttempts.
FailsForNow(s, r) ==
    /\ bpc' = [bpc EXCEPT ![s] = "enter"]
    /\ UNCHANGED <<retries, result>>

\* Mutation of Fails: one retry too many.
FailsOnceMore(s, r) ==
    \/ /\ retries[s] <= MaxRetries
       /\ bpc' = [bpc EXCEPT ![s] = "enter"]
       /\ retries' = [retries EXCEPT ![s] = @ + 1]
       /\ UNCHANGED result
    \/ /\ retries[s] > MaxRetries
       /\ Ends(s, r)

\* Every error is retried, the refusal of an open breaker like any other; the last
\* one is thrown.
Fails(s, r) ==
    \/ /\ retries[s] < MaxRetries
       /\ bpc' = [bpc EXCEPT ![s] = "enter"]
       /\ retries' = [retries EXCEPT ![s] = @ + 1]
       /\ UNCHANGED result
    \/ /\ retries[s] = MaxRetries
       /\ Ends(s, r)

-----------------------------------------------------------------------------
(* The breaker.                                                            *)

\* onBreak and onReset: hset, not awaited.
OnBreak(p) == writes' = [writes EXCEPT ![p] = Append(@, "OPEN")]

OnReset(p) == writes' = [writes EXCEPT ![p] = Append(@, "CLOSED")]

Counted(n) == IF n < Threshold THEN n + 1 ELSE n

\* The breaker opens, unless it is open already.
Break(p) ==
    \/ /\ state[p] \in {"closed", "half"}
       /\ state' = [state EXCEPT ![p] = "open"]
       /\ OnBreak(p)
    \/ /\ state[p] \in {"open", "due"}
       /\ UNCHANGED <<state, writes>>

\* A call meets the breaker: it passes, waits for the test call, is refused, or
\* becomes the test call.
Enter(s) ==
    LET p == ProcOf[s] IN
    /\ bpc[s] = "enter"
    /\ \/ /\ state[p] = "closed"
          /\ bpc' = [bpc EXCEPT ![s] = "call"]
          /\ UNCHANGED <<state, retries, result>>
       \/ /\ state[p] = "half"
          /\ bpc' = [bpc EXCEPT ![s] = "wait"]
          /\ UNCHANGED <<state, retries, result>>
       \/ /\ state[p] = "open"
          /\ Fails(s, "broken")
          /\ UNCHANGED state
       \/ /\ state[p] = "due"
          /\ bpc' = [bpc EXCEPT ![s] = "test"]
          /\ state' = [state EXCEPT ![p] = "half"]
          /\ UNCHANGED <<retries, result>>
    /\ UNCHANGED <<count, writes, shown, runs, restarts>>

\* The test call a call waited for is over.
Awake(s) ==
    /\ bpc[s] = "wait"
    /\ state[ProcOf[s]] # "half"
    /\ bpc' = [bpc EXCEPT ![s] = "enter"]
    /\ UNCHANGED <<procVars, retries, result, shown, runs, restarts>>

\* sendOrder resolves.  Only the test call closes a breaker that has opened.
PosAnswers(s) ==
    LET p == ProcOf[s] IN
    /\ bpc[s] \in {"call", "test"}
    /\ Ends(s, "ok")
    /\ count' = [count EXCEPT ![p] = 0]
    /\ \/ /\ bpc[s] = "test" /\ state[p] = "half"
          /\ state' = [state EXCEPT ![p] = "closed"]
          /\ OnReset(p)
       \/ /\ ~(bpc[s] = "test" /\ state[p] = "half")
          /\ UNCHANGED <<state, writes>>
    /\ UNCHANGED <<shown, runs, restarts>>

\* sendOrder throws PosUnavailableError: an error of the POS, or its timeout.
PosUnavailable(s) ==
    LET p == ProcOf[s] IN
    /\ bpc[s] \in {"call", "test"}
    /\ Fails(s, "unavailable")
    /\ count' = [count EXCEPT ![p] = Counted(@)]
    /\ \/ /\ bpc[s] = "test" \/ count'[p] = Threshold
          /\ Break(p)
       \/ /\ bpc[s] = "call" /\ count'[p] < Threshold
          /\ UNCHANGED <<state, writes>>
    /\ UNCHANGED <<shown, runs, restarts>>

\* Mutation of HalfOpenAfter: an open duration shorter than a call.
HalfOpenAtOnce(p) ==
    /\ state[p] = "open"
    /\ state' = [state EXCEPT ![p] = "due"]
    /\ UNCHANGED <<count, writes, slotVars, shown, runs, restarts>>

\* openDurationMs are over; every call from before has met the timeout of its
\* adapter long since.
HalfOpenAfter(p) ==
    /\ state[p] = "open"
    /\ InFlight(p) = {}
    /\ state' = [state EXCEPT ![p] = "due"]
    /\ UNCHANGED <<count, writes, slotVars, shown, runs, restarts>>

-----------------------------------------------------------------------------

\* Redis executes the next command of a process.
WriteState(p) ==
    /\ writes[p] # <<>>
    /\ shown' = Head(writes[p])
    /\ writes' = [writes EXCEPT ![p] = Tail(@)]
    /\ UNCHANGED <<state, count, slotVars, runs, restarts>>

\* A worker process ends, with what it had not sent, and comes back with an empty
\* registry.
Restart(p) ==
    LET mine(f, x) == [s \in Slots |-> IF ProcOf[s] = p THEN x ELSE f[s]] IN
    /\ restarts < MaxRestarts
    /\ restarts' = restarts + 1
    /\ state' = [state EXCEPT ![p] = "closed"]
    /\ count' = [count EXCEPT ![p] = 0]
    /\ writes' = [writes EXCEPT ![p] = <<>>]
    /\ bpc' = mine(bpc, "idle") /\ retries' = mine(retries, 0) /\ result' = mine(result, "none")
    /\ UNCHANGED <<shown, runs>>

Step(s) == Enter(s) \/ Awake(s) \/ PosAnswers(s) \/ PosUnavailable(s)

Next ==
    \/ \E s \in Slots : Execute(s) \/ Step(s)
    \/ \E p \in Procs : HalfOpenAfter(p) \/ WriteState(p) \/ Restart(p)

Spec == Init /\ [][Next]_vars

\* Calls end by their timeout and executions go on.
FairSpec == Spec /\ \A s \in Slots : WF_vars(Step(s))

-----------------------------------------------------------------------------
(* Properties.                                                             *)

\* A half-open breaker lets exactly one call of its process at the store: a POS
\* that just came back is not met by the calls that were in flight when it failed
\* nor by those that wait for the test.
TestsAlone ==
    \A p \in Procs : state[p] = "half" => Cardinality(InFlight(p)) = 1

\* Every execute() ends, answered or refused, whatever the others in its process
\* do to the breaker and however long the POS is away: nobody waits for a test
\* call for ever or is retried for ever.
ExecutionsEnd ==
    \A s \in Slots : bpc[s] # "idle" ~> bpc[s] = "idle"

\* getStatus: once all that was to be written is written, OPEN is shown exactly
\* while the store's breaker is not closed, if one worker process serves the store
\* and has not been restarted.  Neither failed tests nor late results get in the
\* way.  With a second process the last writer wins, and a restart leaves OPEN.
ShownIsCurrent ==
    Cardinality(Procs) = 1 /\ restarts = 0 /\ (\A p \in Procs : writes[p] = <<>>)
        => (shown = "OPEN" <=> \E p \in Procs : state[p] # "closed")

=============================================================================
