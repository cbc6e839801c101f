-------------------------- MODULE PosBreakerProofs --------------------------
(***************************************************************************)
(* Proofs about PosBreaker, for any number of worker processes, executions *)
(* and retries and every threshold: a half-open breaker is met by one call *)
(* alone, and the status page shows the breaker.                           *)
(***************************************************************************)
EXTENDS PosBreaker, FiniteSetTheorems, SequenceTheorems, TLAPS

\* Only a half-open breaker has a test call, and then it has no other in flight; one
\* that may be tested has none.
TestOK(p) ==
    /\ state[p] \in {"closed", "open"} => \A s \in Slots : ProcOf[s] = p => bpc[s] # "test"
    /\ state[p] = "due" => \A s \in Slots : ProcOf[s] = p => bpc[s] \notin {"call", "test"}
    /\ state[p] = "half" =>
          \E s \in Slots :
              /\ ProcOf[s] = p /\ bpc[s] = "test"
              /\ \A t \in Slots \ {s} : ProcOf[t] = p => bpc[t] \notin {"call", "test"}

TestInv == \A p \in Procs : TestOK(p)

\* What the status page shows once the writes of p are through.
LastShown(p) == IF writes[p] = <<>> THEN shown ELSE writes[p][Len(writes[p])]

\* The writes of the only process, which was not restarted, end with its state.
ShownInv ==
    \A p \in Procs :
        Procs = {p} /\ restarts = 0 => (LastShown(p) = "OPEN" <=> state[p] # "closed")

-----------------------------------------------------------------------------
(* Types.                                                                  *)

LEMMA InitTypes == Init => TypeOK
BY BreakerAssumption DEF Init, TypeOK, Shown

\* How an execution goes on after an error.
LEMMA FailsTypes ==
    ASSUME TypeOK, NEW s \in Slots, NEW r \in {"ok", "unavailable", "broken"}, Fails(s, r)
    PROVE  /\ bpc' \in [Slots -> {"idle", "enter", "call", "test", "wait"}]
           /\ retries' \in [Slots -> 0 .. MaxRetries]
           /\ result' \in [Slots -> {"none", "ok", "unavailable", "broken"}]
           /\ bpc'[s] \in {"idle", "enter"}
           /\ \A t \in Slots \ {s} : bpc'[t] = bpc[t]
<1>1. /\ retries[s] \in 0 .. MaxRetries /\ MaxRetries \in Nat
      /\ retries \in [Slots -> 0 .. MaxRetries]
      /\ bpc \in [Slots -> {"idle", "enter", "call", "test", "wait"}]
      /\ result \in [Slots -> {"none", "ok", "unavailable", "broken"}]
  BY BreakerAssumption DEF TypeOK
<1>2. CASE /\ retries[s] < MaxRetries
           /\ bpc' = [bpc EXCEPT ![s] = "enter"]
           /\ retries' = [retries EXCEPT ![s] = @ + 1]
           /\ UNCHANGED result
  BY <1>1, <1>2
<1>3. CASE retries[s] = MaxRetries /\ Ends(s, r)
  BY <1>1, <1>3 DEF Ends
<1> QED
  BY <1>2, <1>3 DEF Fails

\* The breaker opens: its types, and what the other processes see of it.
LEMMA BreakTypes ==
    ASSUME TypeOK, NEW p \in Procs, Break(p)
    PROVE  /\ state' \in [Procs -> {"closed", "open", "due", "half"}]
           /\ writes' \in [Procs -> Seq(Shown \ {"UNKNOWN"})]
           /\ state'[p] \in {"open", "due"}
           /\ \A q \in Procs \ {p} : state'[q] = state[q]
<1>1. /\ writes \in [Procs -> Seq(Shown \ {"UNKNOWN"})] /\ writes[p] \in Seq(Shown \ {"UNKNOWN"})
      /\ state \in [Procs -> {"closed", "open", "due", "half"}]
  BY DEF TypeOK
<1>2. Append(writes[p], "OPEN") \in Seq(Shown \ {"UNKNOWN"})
  BY <1>1, AppendProperties DEF Shown
<1>3. CASE /\ state[p] \in {"closed", "half"}
           /\ state' = [state EXCEPT ![p] = "open"]
           /\ OnBreak(p)
  BY <1>1, <1>2, <1>3 DEF OnBreak
<1>4. CASE state[p] \in {"open", "due"} /\ UNCHANGED <<state, writes>>
  BY <1>1, <1>4
<1> QED
  BY <1>3, <1>4 DEF Break

LEMMA EnterTypes == ASSUME TypeOK, NEW s \in Slots, Enter(s) PROVE TypeOK'
<1> DEFINE p == ProcOf[s]
<1>1. p \in Procs
  BY BreakerAssumption
<1>2. UNCHANGED <<count, writes, shown, runs, restarts>>
  BY DEF Enter
<1>3. CASE state[p] = "open" /\ Fails(s, "broken") /\ UNCHANGED state
  BY <1>2, <1>3, FailsTypes DEF TypeOK
<1>4. CASE /\ state[p] = "due" /\ bpc' = [bpc EXCEPT ![s] = "test"]
           /\ state' = [state EXCEPT ![p] = "half"] /\ UNCHANGED <<retries, result>>
  BY <1>1, <1>2, <1>4 DEF TypeOK
<1>5. CASE state[p] = "closed" /\ bpc' = [bpc EXCEPT ![s] = "call"] /\ UNCHANGED <<state, retries, result>>
  BY <1>2, <1>5 DEF TypeOK
<1>6. CASE state[p] = "half" /\ bpc' = [bpc EXCEPT ![s] = "wait"] /\ UNCHANGED <<state, retries, result>>
  BY <1>2, <1>6 DEF TypeOK
<1> QED
  BY <1>3, <1>4, <1>5, <1>6 DEF Enter

LEMMA PosAnswersTypes == ASSUME TypeOK, NEW s \in Slots, PosAnswers(s) PROVE TypeOK'
<1> DEFINE p == ProcOf[s]
<1>1. p \in Procs
  BY BreakerAssumption
<1>2. /\ count' = [count EXCEPT ![p] = 0] /\ UNCHANGED <<shown, runs, restarts>>
      /\ bpc' = [bpc EXCEPT ![s] = "idle"] /\ retries' = [retries EXCEPT ![s] = 0]
      /\ result' = [result EXCEPT ![s] = "ok"]
  BY DEF PosAnswers, Ends
<1>3. /\ state' \in [Procs -> {"closed", "open", "due", "half"}]
      /\ writes' \in [Procs -> Seq(Shown \ {"UNKNOWN"})]
  <2>1. writes[p] \in Seq(Shown \ {"UNKNOWN"})
    BY <1>1 DEF TypeOK
  <2>2. Append(writes[p], "CLOSED") \in Seq(Shown \ {"UNKNOWN"})
    BY <2>1, AppendProperties DEF Shown
  <2>3. CASE state' = [state EXCEPT ![p] = "closed"] /\ OnReset(p)
    BY <2>2, <2>3, <1>1 DEF OnReset, TypeOK
  <2>4. CASE UNCHANGED <<state, writes>>
    BY <2>4 DEF TypeOK
  <2> QED
    BY <2>3, <2>4 DEF PosAnswers
<1>4. count' \in [Procs -> 0 .. Threshold] /\ retries' \in [Slots -> 0 .. MaxRetries]
  BY <1>1, <1>2, BreakerAssumption DEF TypeOK
<1>5. /\ bpc' \in [Slots -> {"idle", "enter", "call", "test", "wait"}]
      /\ result' \in [Slots -> {"none", "ok", "unavailable", "broken"}]
  BY <1>2 DEF TypeOK
<1> QED
  BY <1>2, <1>3, <1>4, <1>5 DEF TypeOK

LEMMA PosUnavailableTypes == ASSUME TypeOK, NEW s \in Slots, PosUnavailable(s) PROVE TypeOK'
<1> DEFINE p == ProcOf[s]
<1>1. p \in Procs
  BY BreakerAssumption
<1>2. /\ Fails(s, "unavailable") /\ count' = [count EXCEPT ![p] = Counted(@)]
      /\ UNCHANGED <<shown, runs, restarts>>
      /\ Break(p) \/ UNCHANGED <<state, writes>>
  BY DEF PosUnavailable
<1>3. Counted(count[p]) \in 0 .. Threshold
  BY <1>1, BreakerAssumption DEF TypeOK, Counted
<1>4. count' \in [Procs -> 0 .. Threshold]
  BY <1>1, <1>2, <1>3 DEF TypeOK
<1>5. /\ state' \in [Procs -> {"closed", "open", "due", "half"}]
      /\ writes' \in [Procs -> Seq(Shown \ {"UNKNOWN"})]
  BY <1>1, <1>2, BreakTypes DEF TypeOK
<1> QED
  BY <1>2, <1>4, <1>5, FailsTypes DEF TypeOK

LEMMA RestartTypes == ASSUME TypeOK, NEW p \in Procs, Restart(p) PROVE TypeOK'
BY BreakerAssumption DEF TypeOK, Restart

LEMMA OtherTypes ==
    ASSUME TypeOK,
           \/ \E s \in Slots : Execute(s) \/ Awake(s)
           \/ \E p \in Procs : HalfOpenAfter(p) \/ WriteState(p)
           \/ UNCHANGED vars
    PROVE  TypeOK'
<1>1. CASE \E s \in Slots : Execute(s)
  BY <1>1, BreakerAssumption DEF TypeOK, Execute, procVars
<1>2. CASE \E s \in Slots : Awake(s)
  BY <1>2 DEF TypeOK, Awake, procVars
<1>3. CASE \E p \in Procs : HalfOpenAfter(p)
  BY <1>3 DEF TypeOK, HalfOpenAfter, slotVars
<1>4. ASSUME NEW p \in Procs, WriteState(p) PROVE TypeOK'
  <2>1. writes[p] \in Seq(Shown \ {"UNKNOWN"}) /\ writes[p] # <<>>
    BY <1>4 DEF TypeOK, WriteState
  <2>2. Head(writes[p]) \in Shown /\ Tail(writes[p]) \in Seq(Shown \ {"UNKNOWN"})
    BY <2>1, HeadTailProperties
  <2> QED
    BY <1>4, <2>2 DEF TypeOK, WriteState, slotVars
<1>5. CASE UNCHANGED vars
  BY <1>5 DEF TypeOK, vars, procVars, slotVars
<1> QED
  BY <1>1, <1>2, <1>3, <1>4, <1>5

\* The breakers, executions and writes keep their types; in particular no execution
\* is retried more than MaxRetries times.
THEOREM BreakerTypeCorrect == Spec => []TypeOK
<1>1. TypeOK /\ [Next]_vars => TypeOK'
  BY EnterTypes, PosAnswersTypes, PosUnavailableTypes, RestartTypes, OtherTypes DEF Next, Step
<1> QED
  BY <1>1, InitTypes, PTL DEF Spec

-----------------------------------------------------------------------------
(* The test call.                                                          *)

\* A breaker whose state and whose executions stay is as it was.
LEMMA TestFrame ==
    ASSUME NEW p \in Procs, TestOK(p), state'[p] = state[p],
           \A s \in Slots : ProcOf[s] = p => bpc'[s] = bpc[s]
    PROVE  TestOK(p)'
<1>1. CASE state[p] = "half"
  <2>1. PICK s \in Slots :
          /\ ProcOf[s] = p /\ bpc[s] = "test"
          /\ \A t \in Slots \ {s} : ProcOf[t] = p => bpc[t] \notin {"call", "test"}
    BY <1>1 DEF TestOK
  <2>2. bpc'[s] = "test" /\ \A t \in Slots \ {s} : ProcOf[t] = p => bpc'[t] \notin {"call", "test"}
    BY <2>1
  <2> QED
    BY <1>1, <2>1, <2>2 DEF TestOK
<1>2. CASE state[p] # "half"
  BY <1>2 DEF TestOK
<1> QED
  BY <1>1, <1>2

\* An execution that leaves the breaker's hands (it ends, is retried or waits) does
\* not disturb a breaker that stays closed, open or due.
LEMMA LeaveFrame ==
    ASSUME NEW s \in Slots, TestOK(ProcOf[s]), state'[ProcOf[s]] = state[ProcOf[s]],
           state[ProcOf[s]] # "half", bpc'[s] \notin {"call", "test"},
           \A t \in Slots \ {s} : bpc'[t] = bpc[t]
    PROVE  TestOK(ProcOf[s])'
<1>1. \A t \in Slots : bpc'[t] = bpc[t] \/ bpc'[t] \notin {"call", "test"}
  OBVIOUS
<1> QED
  BY <1>1 DEF TestOK

LEMMA EnterTests ==
    ASSUME TypeOK, TestInv, NEW s \in Slots, Enter(s) PROVE TestOK(ProcOf[s])'
<1> DEFINE p == ProcOf[s]
<1>1. p \in Procs /\ TestOK(p) /\ bpc[s] = "enter"
  BY BreakerAssumption DEF TestInv, Enter
<1>2. /\ state \in [Procs -> {"closed", "open", "due", "half"}]
      /\ bpc \in [Slots -> {"idle", "enter", "call", "test", "wait"}]
  BY DEF TypeOK
<1>3. CASE state[p] = "closed" /\ bpc' = [bpc EXCEPT ![s] = "call"] /\ UNCHANGED state
  BY <1>1, <1>2, <1>3 DEF TestOK
<1>4. CASE state[p] = "half" /\ bpc' = [bpc EXCEPT ![s] = "wait"] /\ UNCHANGED state
  <2>1. PICK u \in Slots :
          /\ ProcOf[u] = p /\ bpc[u] = "test"
          /\ \A t \in Slots \ {u} : ProcOf[t] = p => bpc[t] \notin {"call", "test"}
    BY <1>1, <1>4 DEF TestOK
  <2>2. /\ bpc'[u] = "test"
        /\ \A t \in Slots \ {u} : ProcOf[t] = p => bpc'[t] \notin {"call", "test"}
    BY <2>1, <1>1, <1>2, <1>4
  <2>3. state'[p] = "half"
    BY <1>4
  <2> QED
    BY <2>1, <2>2, <2>3 DEF TestOK
<1>5. CASE state[p] = "open" /\ Fails(s, "broken") /\ UNCHANGED state
  <2>1. bpc'[s] \in {"idle", "enter"} /\ \A t \in Slots \ {s} : bpc'[t] = bpc[t]
    BY <1>5, FailsTypes
  <2> QED
    BY <2>1, <1>1, <1>5, LeaveFrame
<1>6. CASE /\ state[p] = "due" /\ bpc' = [bpc EXCEPT ![s] = "test"]
           /\ state' = [state EXCEPT ![p] = "half"]
  <2>1. \A t \in Slots : ProcOf[t] = p => bpc[t] \notin {"call", "test"}
    BY <1>1, <1>6 DEF TestOK
  <2>2. /\ bpc'[s] = "test" /\ state'[p] = "half"
        /\ \A t \in Slots \ {s} : ProcOf[t] = p => bpc'[t] \notin {"call", "test"}
    BY <2>1, <1>1, <1>2, <1>6
  <2> QED
    BY <2>2 DEF TestOK
<1> QED
  BY <1>3, <1>4, <1>5, <1>6 DEF Enter

\* In a half-open process the only call in flight is the test.
LEMMA OnlyTest ==
    ASSUME NEW s \in Slots, TestOK(ProcOf[s]), bpc[s] \in {"call", "test"}
    PROVE  /\ state[ProcOf[s]] = "half" =>
                /\ bpc[s] = "test"
                /\ \A t \in Slots \ {s} : ProcOf[t] = ProcOf[s] => bpc[t] \notin {"call", "test"}
           /\ state[ProcOf[s]] # "due"
           /\ state[ProcOf[s]] \in {"closed", "open"} => bpc[s] = "call"
BY DEF TestOK

LEMMA PosAnswersTests ==
    ASSUME TypeOK, TestInv, NEW s \in Slots, PosAnswers(s) PROVE TestOK(ProcOf[s])'
<1> DEFINE p == ProcOf[s]
<1>1. p \in Procs /\ TestOK(p) /\ bpc[s] \in {"call", "test"}
  BY BreakerAssumption DEF TestInv, PosAnswers
<1>2. bpc'[s] = "idle" /\ \A t \in Slots \ {s} : bpc'[t] = bpc[t]
  BY DEF PosAnswers, Ends, TypeOK
<1>3. CASE state[p] = "half"
  <2>1. state'[p] = "closed"
    BY <1>1, <1>3, OnlyTest DEF PosAnswers, TypeOK
  <2>2. \A t \in Slots : ProcOf[t] = p => bpc'[t] # "test"
    BY <1>1, <1>2, <1>3, OnlyTest
  <2> QED
    BY <2>1, <2>2 DEF TestOK
<1>4. CASE state[p] # "half"
  <2>1. state'[p] = state[p]
    BY <1>4 DEF PosAnswers
  <2> QED
    BY <2>1, <1>1, <1>2, <1>4, LeaveFrame
<1> QED
  BY <1>3, <1>4

LEMMA PosUnavailableTests ==
    ASSUME TypeOK, TestInv, NEW s \in Slots, PosUnavailable(s) PROVE TestOK(ProcOf[s])'
<1> DEFINE p == ProcOf[s]
<1>1. p \in Procs /\ TestOK(p) /\ bpc[s] \in {"call", "test"}
  BY BreakerAssumption DEF TestInv, PosUnavailable
<1>2. bpc'[s] \in {"idle", "enter"} /\ \A t \in Slots \ {s} : bpc'[t] = bpc[t]
  BY FailsTypes DEF PosUnavailable
<1>3. state[p] \in {"closed", "open", "half"}
  BY <1>1, OnlyTest DEF TypeOK
<1>4. CASE state'[p] = "open"
  <2>1. \A t \in Slots : ProcOf[t] = p => bpc'[t] # "test"
    BY <1>1, <1>2, <1>3, OnlyTest DEF TestOK
  <2> QED
    BY <1>4, <2>1 DEF TestOK
<1>5. CASE state'[p] # "open"
  <2>1. ~Break(p)
    BY <1>1, <1>3, <1>5 DEF Break, TypeOK
  <2>2. bpc[s] = "call" /\ UNCHANGED state
    BY <2>1 DEF PosUnavailable
  <2>3. state[p] # "half"
    BY <2>2, <1>1, OnlyTest
  <2> QED
    BY <2>2, <2>3, <1>1, <1>2, LeaveFrame
<1> QED
  BY <1>4, <1>5

\* The executions of the other processes and their breakers are not met.
LEMMA OtherProcesses ==
    ASSUME TypeOK, NEW s \in Slots,
           Execute(s) \/ Enter(s) \/ Awake(s) \/ PosAnswers(s) \/ PosUnavailable(s)
    PROVE  /\ \A t \in Slots \ {s} : bpc'[t] = bpc[t]
           /\ \A q \in Procs \ {ProcOf[s]} : state'[q] = state[q]
<1>1. /\ state \in [Procs -> {"closed", "open", "due", "half"}]
      /\ bpc \in [Slots -> {"idle", "enter", "call", "test", "wait"}] /\ ProcOf[s] \in Procs
  BY BreakerAssumption DEF TypeOK
<1>2. CASE Execute(s) \/ Awake(s)
  BY <1>1, <1>2 DEF Execute, Awake, procVars
<1>3. CASE Enter(s)
  <2>1. \A t \in Slots \ {s} : bpc'[t] = bpc[t]
    BY <1>1, <1>3, FailsTypes DEF Enter
  <2>2. \A q \in Procs \ {ProcOf[s]} : state'[q] = state[q]
    BY <1>1, <1>3 DEF Enter
  <2> QED
    BY <2>1, <2>2
<1>4. CASE PosAnswers(s)
  BY <1>1, <1>4 DEF PosAnswers, Ends
<1>5. CASE PosUnavailable(s)
  <2>1. \A t \in Slots \ {s} : bpc'[t] = bpc[t]
    BY <1>5, FailsTypes DEF PosUnavailable
  <2>2. \A q \in Procs \ {ProcOf[s]} : state'[q] = state[q]
    BY <1>1, <1>5, BreakTypes DEF PosUnavailable
  <2> QED
    BY <2>1, <2>2
<1> QED
  BY <1>2, <1>3, <1>4, <1>5

LEMMA NextTests == TypeOK /\ TestInv /\ [Next]_vars => TestInv'
<1> SUFFICES ASSUME TypeOK, TestInv, [Next]_vars, NEW q \in Procs PROVE TestOK(q)'
  BY DEF TestInv
<1>1. TestOK(q)
  BY DEF TestInv
<1>2. ASSUME NEW s \in Slots, Execute(s) \/ Step(s) PROVE TestOK(q)'
  <2>1. /\ \A t \in Slots \ {s} : bpc'[t] = bpc[t]
        /\ \A r \in Procs \ {ProcOf[s]} : state'[r] = state[r]
    BY <1>2, OtherProcesses DEF Step
  <2>2. CASE q # ProcOf[s]
    <3>1. \A t \in Slots : ProcOf[t] = q => bpc'[t] = bpc[t]
      BY <2>1, <2>2
    <3> QED
      BY <3>1, <2>1, <2>2, <1>1, TestFrame
  <2>3. CASE q = ProcOf[s]
    <3>1. CASE Execute(s) \/ Awake(s)
      <4>1. bpc[s] \in {"idle", "wait"} /\ bpc'[s] = "enter" /\ UNCHANGED state
        BY <3>1 DEF Execute, Awake, procVars, TypeOK
      <4>2. CASE state[q] = "half"
        <5>1. PICK u \in Slots :
                /\ ProcOf[u] = q /\ bpc[u] = "test"
                /\ \A t \in Slots \ {u} : ProcOf[t] = q => bpc[t] \notin {"call", "test"}
          BY <1>1, <4>2 DEF TestOK
        <5>2. /\ bpc'[u] = "test"
              /\ \A t \in Slots \ {u} : ProcOf[t] = q => bpc'[t] \notin {"call", "test"}
          BY <5>1, <4>1, <2>1
        <5>3. state'[q] = "half"
          BY <4>1, <4>2
        <5> QED
          BY <5>1, <5>2, <5>3 DEF TestOK
      <4>3. CASE state[q] # "half"
        BY <4>1, <4>3, <2>1, <2>3, <1>1, LeaveFrame
      <4> QED
        BY <4>2, <4>3
    <3> QED
      BY <3>1, <2>3, <1>2, EnterTests, PosAnswersTests, PosUnavailableTests DEF Step
  <2> QED
    BY <2>2, <2>3
<1>3. ASSUME NEW p \in Procs, HalfOpenAfter(p) PROVE TestOK(q)'
  <2>1. state[p] = "open" /\ bpc' = bpc /\ state' = [state EXCEPT ![p] = "due"] /\ InFlight(p) = {}
    BY <1>3 DEF HalfOpenAfter, slotVars
  <2>2. CASE q # p
    BY <2>1, <2>2, <1>1, TestFrame DEF TypeOK
  <2>3. CASE q = p
    <3>1. state'[q] = "due" /\ \A t \in Slots : ProcOf[t] = q => bpc'[t] \notin {"call", "test"}
      BY <2>1, <2>3 DEF InFlight, TypeOK
    <3> QED
      BY <3>1 DEF TestOK
  <2> QED
    BY <2>2, <2>3
<1>4. CASE (\E p \in Procs : WriteState(p)) \/ UNCHANGED vars
  <2>1. state' = state /\ bpc' = bpc
    BY <1>4 DEF WriteState, slotVars, procVars, vars
  <2> QED
    BY <2>1, <1>1, TestFrame
<1>5. ASSUME NEW p \in Procs, Restart(p) PROVE TestOK(q)'
  <2>1. /\ state' = [state EXCEPT ![p] = "closed"]
        /\ bpc' = [s \in Slots |-> IF ProcOf[s] = p THEN "idle" ELSE bpc[s]]
    BY <1>5 DEF Restart
  <2>2. CASE q # p
    BY <2>1, <2>2, <1>1, TestFrame DEF TypeOK
  <2>3. CASE q = p
    BY <2>1, <2>3 DEF TestOK, TypeOK
  <2> QED
    BY <2>2, <2>3
<1> QED
  BY <1>2, <1>3, <1>4, <1>5 DEF Next

\* A half-open breaker lets exactly one call of its process at the store, however many
\* executions share it and whenever results come in.
THEOREM TestCallIsAlone == Spec => []TestsAlone
<1>1. Init => TestInv
  BY BreakerAssumption DEF Init, TestInv, TestOK
<1>2. TypeOK /\ TestInv => TestsAlone
  <2> SUFFICES ASSUME TestInv, NEW p \in Procs, state[p] = "half"
               PROVE Cardinality(InFlight(p)) = 1
    BY DEF TestsAlone
  <2>1. PICK s \in Slots :
          /\ ProcOf[s] = p /\ bpc[s] = "test"
          /\ \A t \in Slots \ {s} : ProcOf[t] = p => bpc[t] \notin {"call", "test"}
    BY DEF TestInv, TestOK
  <2>2. InFlight(p) = {s}
    BY <2>1 DEF InFlight
  <2> QED
    BY <2>2, FS_Singleton
<1> QED
  BY <1>1, <1>2, NextTests, BreakerTypeCorrect, PTL DEF Spec

-----------------------------------------------------------------------------
(* The status page.                                                        *)

\* A write that is appended is what will be shown.
LEMMA ShownAppend ==
    ASSUME TypeOK, NEW p \in Procs, NEW v \in Shown \ {"UNKNOWN"},
           writes' = [writes EXCEPT ![p] = Append(@, v)]
    PROVE  LastShown(p)' = v
<1>1. writes[p] \in Seq(Shown \ {"UNKNOWN"}) /\ writes'[p] = Append(writes[p], v)
  BY DEF TypeOK
<1>2. /\ writes'[p] # <<>> /\ Len(writes'[p]) = Len(writes[p]) + 1
      /\ writes'[p][Len(writes[p]) + 1] = v
  BY <1>1, AppendProperties
<1> QED
  BY <1>2 DEF LastShown

\* What will be shown does not change when a write goes through.
LEMMA ShownWritten ==
    ASSUME TypeOK, NEW p \in Procs, WriteState(p)
    PROVE  LastShown(p)' = LastShown(p)
<1> DEFINE w == writes[p]
<1>1. w \in Seq(Shown \ {"UNKNOWN"}) /\ w # <<>> /\ shown' = Head(w) /\ writes'[p] = Tail(w)
  BY DEF TypeOK, WriteState
<1>2. /\ Tail(w) \in Seq(Shown \ {"UNKNOWN"}) /\ Len(Tail(w)) = Len(w) - 1
      /\ \A i \in 1 .. Len(Tail(w)) : Tail(w)[i] = w[i + 1]
  BY <1>1, HeadTailProperties
<1>3. Len(w) \in Nat /\ Len(w) > 0 /\ Head(w) = w[1]
  BY <1>1
<1>4. CASE Tail(w) = <<>>
  <2>1. Len(w) = 1
    <3> HIDE DEF w
    <3>1. Len(Tail(w)) = 0
      BY <1>4, EmptySeq, Zenon
    <3> QED
      BY <3>1, <1>2, <1>3
  <2> QED
    BY <2>1, <1>1, <1>3, <1>4 DEF LastShown
<1>5. CASE Tail(w) # <<>>
  <2>1. Len(Tail(w)) > 0
    BY <1>2, <1>5
  <2>2. Tail(w)[Len(Tail(w))] = w[Len(w)]
    BY <2>1, <1>2, <1>3
  <2> QED
    BY <2>2, <1>1, <1>5 DEF LastShown
<1> QED
  BY <1>4, <1>5

\* A step that changes neither what will be shown nor whether the breaker is closed.
LEMMA ShownFrame ==
    ASSUME NEW p \in Procs, LastShown(p)' = LastShown(p),
           state'[p] = "closed" <=> state[p] = "closed",
           LastShown(p) = "OPEN" <=> state[p] # "closed"
    PROVE  (LastShown(p) = "OPEN" <=> state[p] # "closed")'
OBVIOUS

LEMMA NextShown == TypeOK /\ ShownInv /\ [Next]_vars => ShownInv'
<1> SUFFICES ASSUME TypeOK, ShownInv, [Next]_vars,
                    NEW p \in Procs, Procs = {p}, restarts' = 0
             PROVE (LastShown(p) = "OPEN" <=> state[p] # "closed")'
  BY DEF ShownInv
<1>1. state \in [Procs -> {"closed", "open", "due", "half"}]
  BY DEF TypeOK
<1>2. \A q \in Procs : ~Restart(q)
  BY BreakerAssumption DEF Restart, TypeOK
<1>3. restarts = 0
  <2>1. UNCHANGED restarts
    BY <1>2 DEF Next, Step, Execute, Enter, Awake, PosAnswers, PosUnavailable,
                HalfOpenAfter, WriteState, vars
  <2> QED
    BY <2>1
<1>4. LastShown(p) = "OPEN" <=> state[p] # "closed"
  BY <1>3 DEF ShownInv
<1>5. ASSUME UNCHANGED <<writes, shown>>, state'[p] = "closed" <=> state[p] = "closed"
      PROVE (LastShown(p) = "OPEN" <=> state[p] # "closed")'
  <2>1. LastShown(p)' = LastShown(p)
    BY <1>5 DEF LastShown
  <2> QED
    BY <2>1, <1>4, <1>5, ShownFrame
<1>6. CASE UNCHANGED vars \/ \E s \in Slots : Execute(s) \/ Awake(s)
  BY <1>5, <1>6 DEF Execute, Awake, vars, procVars
<1>7. ASSUME NEW s \in Slots, Enter(s) PROVE (LastShown(p) = "OPEN" <=> state[p] # "closed")'
  <2>1. ProcOf[s] = p
    BY BreakerAssumption
  <2>2. UNCHANGED <<writes, shown>> /\ (state'[p] = "closed" <=> state[p] = "closed")
    BY <2>1, <1>1, <1>7 DEF Enter
  <2> QED
    BY <2>2, <1>5
<1>8. ASSUME NEW s \in Slots, PosAnswers(s) PROVE (LastShown(p) = "OPEN" <=> state[p] # "closed")'
  <2>1. ProcOf[s] = p /\ UNCHANGED shown
    BY <1>8, BreakerAssumption DEF PosAnswers
  <2>2. CASE state' = [state EXCEPT ![p] = "closed"] /\ OnReset(p)
    <3>1. LastShown(p)' = "CLOSED" /\ state'[p] = "closed"
      BY <2>2, <1>1, ShownAppend DEF OnReset, Shown
    <3> QED
      BY <3>1
  <2>3. CASE UNCHANGED <<state, writes>>
    BY <2>1, <2>3, <1>5
  <2> QED
    BY <2>1, <2>2, <2>3, <1>8 DEF PosAnswers
<1>9. ASSUME NEW s \in Slots, PosUnavailable(s)
      PROVE (LastShown(p) = "OPEN" <=> state[p] # "closed")'
  <2>1. ProcOf[s] = p /\ UNCHANGED shown
    BY <1>9, BreakerAssumption DEF PosUnavailable
  <2>2. CASE state' = [state EXCEPT ![p] = "open"] /\ OnBreak(p)
    <3>1. LastShown(p)' = "OPEN" /\ state'[p] = "open"
      BY <2>2, <1>1, ShownAppend DEF OnBreak, Shown
    <3> QED
      BY <3>1
  <2>3. CASE UNCHANGED <<state, writes>>
    BY <2>1, <2>3, <1>5
  <2> QED
    BY <2>1, <2>2, <2>3, <1>9 DEF PosUnavailable, Break
<1>10. ASSUME NEW q \in Procs, HalfOpenAfter(q)
       PROVE (LastShown(p) = "OPEN" <=> state[p] # "closed")'
  <2>1. UNCHANGED <<writes, shown>> /\ (state'[p] = "closed" <=> state[p] = "closed")
    BY <1>1, <1>10 DEF HalfOpenAfter
  <2> QED
    BY <2>1, <1>5
<1>11. ASSUME NEW q \in Procs, WriteState(q)
       PROVE (LastShown(p) = "OPEN" <=> state[p] # "closed")'
  <2>1. WriteState(p) /\ UNCHANGED state
    BY <1>11 DEF WriteState
  <2> QED
    BY <2>1, <1>4, ShownWritten, ShownFrame
<1> QED
  BY <1>2, <1>6, <1>7, <1>8, <1>9, <1>10, <1>11 DEF Next, Step

\* With one worker process that has not been restarted the status page shows OPEN
\* exactly while the breaker is not closed, once its writes are through: no order of
\* results, tests and writes leaves it behind.
THEOREM StatusIsCurrent == Spec => []ShownIsCurrent
<1>1. Init => ShownInv
  BY DEF Init, ShownInv, LastShown
<1>2. ShownInv => ShownIsCurrent
  <2> SUFFICES ASSUME ShownInv, Cardinality(Procs) = 1, restarts = 0,
                      \A p \in Procs : writes[p] = <<>>
               PROVE shown = "OPEN" <=> \E p \in Procs : state[p] # "closed"
    BY DEF ShownIsCurrent
  <2>1. PICK p : Procs = {p}
    BY BreakerAssumption, FS_Singleton
  <2>2. shown = LastShown(p)
    BY <2>1 DEF LastShown
  <2> QED
    BY <2>1, <2>2 DEF ShownInv
<1> QED
  BY <1>1, <1>2, NextShown, BreakerTypeCorrect, PTL DEF Spec

=============================================================================
