------------------------- MODULE OrderIntakeProofs -------------------------
(***************************************************************************)
(* Proofs about OrderIntake, for any number of requests, keys and failures. *)
(***************************************************************************)
EXTENDS OrderIntake, TLAPS

\* A request that is about to cache its answer has published its order.  A published
\* order has passed its publish; while its key is undisturbed the key is still in
\* its name and nothing will give it back.
PublishInv ==
    /\ \A r \in Requests : rpc[r] = "cache" => r \in published
    /\ \A r \in published :
          /\ rpc[r] \in {"cache", "release", "answered", "dead"}
          /\ KeyOf[r] \notin disturbed => pending[KeyOf[r]] = r /\ rpc[r] # "release"

\* What is cached under a key is a published order of that key.
ResponseInv ==
    \A k \in Keys : response[k] # None => response[k] \in published /\ KeyOf[response[k]] = k

\* A request on its way through the catch block has an error to answer with; one
\* that failed validation published nothing.
CatchInv ==
    \A r \in Requests : rpc[r] = "release" =>
        /\ answer[r] \in {"invalid", "unavailable"}
        /\ answer[r] = "invalid" => r \notin published

IntakeInv ==
    /\ TypeOK /\ HolderOwnsKey /\ PublishInv /\ ResponseInv /\ CatchInv /\ AnswerIsTrue

USE IntakeAssumption

-----------------------------------------------------------------------------

LEMMA InitIntakeInv == Init => IntakeInv
BY DEF Init, IntakeInv, TypeOK, HolderOwnsKey, Holding, PublishInv, ResponseInv, CatchInv,
       AnswerIsTrue, RequestPc, Answer

\* Types.
LEMMA NextTypeOK == TypeOK /\ [Next]_vars => TypeOK'
<1> SUFFICES ASSUME TypeOK, [Next]_vars PROVE TypeOK'
  OBVIOUS
<1> USE DEF TypeOK, RequestPc, Answer
<1>1. CASE UNCHANGED vars
  BY <1>1 DEF vars
<1>2. ASSUME NEW r \in Requests, Receive(r) PROVE TypeOK'
  BY <1>2 DEF Receive, ReceiveOrder, ReceiveCompat, ReceiveBridge, Goto, Reply, Calm
<1>3. ASSUME NEW r \in Requests, Serve(r) PROVE TypeOK'
  <2>1. CASE TryAcquire(r)
    BY <2>1 DEF TryAcquire, Goto, Calm
  <2>2. CASE GetCachedResponse(r)
    BY <2>2 DEF GetCachedResponse, Reply, Calm
  <2>3. CASE ValidateItems(r)
    BY <2>3 DEF ValidateItems, Goto, Catch, Calm
  <2>4. CASE Publish(r)
    BY <2>4 DEF Publish, Goto, Calm
  <2>5. CASE SetCompleted(r)
    BY <2>5 DEF SetCompleted, Reply, Calm
  <2>6. CASE Release(r)
    BY <2>6 DEF Release, Reply, Calm
  <2> QED BY <1>3, <2>1, <2>2, <2>3, <2>4, <2>5, <2>6 DEF Serve
<1>4. ASSUME NEW r \in Requests, ServeFails(r) PROVE TypeOK'
  <2>1. CASE TryAcquireFails(r)
    BY <2>1 DEF TryAcquireFails, Goto, Reply, Fault
  <2>2. CASE TryBlockFails(r)
    BY <2>2 DEF TryBlockFails, Catch, Fault
  <2>3. CASE RedisFails(r)
    BY <2>3 DEF RedisFails, Reply, Fault
  <2>4. CASE Die(r)
    BY <2>4 DEF Die, Fault
  <2> QED BY <1>4, <2>1, <2>2, <2>3, <2>4 DEF ServeFails
<1>5. ASSUME NEW k \in Keys, PendingExpires(k) \/ ResponseExpires(k) PROVE TypeOK'
  BY <1>5 DEF PendingExpires, ResponseExpires
<1> QED BY <1>1, <1>2, <1>3, <1>4, <1>5 DEF Next

\* The conjuncts about keys and jobs, one step per action.
LEMMA NextIntakeInv == IntakeInv /\ [Next]_vars => IntakeInv'
<1> SUFFICES ASSUME IntakeInv, [Next]_vars PROVE IntakeInv'
  OBVIOUS
<1> DEFINE Rest == HolderOwnsKey /\ PublishInv /\ ResponseInv /\ CatchInv /\ AnswerIsTrue
<1>0. TypeOK'
  BY NextTypeOK DEF IntakeInv
<1> USE <1>0 DEF IntakeInv
<1> USE DEF TypeOK, RequestPc, Answer, HolderOwnsKey, Holding, PublishInv, ResponseInv,
            CatchInv, AnswerIsTrue
<1>1. CASE UNCHANGED vars
  BY <1>1 DEF vars
<1>2. ASSUME NEW r \in Requests, Receive(r) PROVE Rest'
  BY <1>2 DEF Receive, ReceiveOrder, ReceiveCompat, ReceiveBridge, Goto, Reply, Calm
<1>3. ASSUME NEW r \in Requests, TryAcquire(r) PROVE Rest'
  BY <1>3 DEF TryAcquire, Goto, Calm
<1>4. ASSUME NEW r \in Requests, GetCachedResponse(r) PROVE Rest'
  BY <1>4 DEF GetCachedResponse, Reply, Calm
<1>5. ASSUME NEW r \in Requests, ValidateItems(r) PROVE Rest'
  BY <1>5 DEF ValidateItems, Goto, Catch, Calm
<1>6. ASSUME NEW r \in Requests, Publish(r) PROVE Rest'
  BY <1>6 DEF Publish, Goto, Calm
<1>7. ASSUME NEW r \in Requests, SetCompleted(r) PROVE Rest'
  BY <1>7 DEF SetCompleted, Reply, Calm
<1>8. ASSUME NEW r \in Requests, Release(r) PROVE Rest'
  BY <1>8 DEF Release, Reply, Calm
<1>9. ASSUME NEW r \in Requests, TryAcquireFails(r) PROVE Rest'
  BY <1>9 DEF TryAcquireFails, Goto, Reply, Fault
<1>10. ASSUME NEW r \in Requests, TryBlockFails(r) PROVE Rest'
  BY <1>10 DEF TryBlockFails, Catch, Fault
<1>11. ASSUME NEW r \in Requests, RedisFails(r) PROVE Rest'
  BY <1>11 DEF RedisFails, Reply, Fault
<1>12. ASSUME NEW r \in Requests, Die(r) PROVE Rest'
  BY <1>12 DEF Die, Fault
<1>13. ASSUME NEW k \in Keys, PendingExpires(k) PROVE Rest'
  BY <1>13 DEF PendingExpires
<1>14. ASSUME NEW k \in Keys, ResponseExpires(k) PROVE Rest'
  BY <1>14 DEF ResponseExpires
<1> QED
  BY <1>1, <1>2, <1>3, <1>4, <1>5, <1>6, <1>7, <1>8, <1>9, <1>10, <1>11, <1>12, <1>13, <1>14
     DEF Next, Serve, ServeFails

LEMMA IntakeInvariant == Spec => []IntakeInv
BY InitIntakeInv, NextIntakeInv, PTL DEF Spec

-----------------------------------------------------------------------------

\* Every reachable state of the intake is well-typed: what is under a key in Redis
\* is always a request of its own or nothing.
THEOREM TypeCorrect == Spec => []TypeOK
<1>1. IntakeInv => TypeOK
  BY DEF IntakeInv
<1> QED BY <1>1, IntakeInvariant, PTL

\* The unconditional DEL of the catch block never frees a key that another request
\* has taken.
THEOREM KeyIsHolders == Spec => []HolderOwnsKey
<1>1. IntakeInv => HolderOwnsKey
  BY DEF IntakeInv
<1> QED BY <1>1, IntakeInvariant, PTL

\* However many requests carry a key and however they interleave, at most one job
\* is published for it until a failure or an expiry touches its Redis entries.
THEOREM JobPerKey == Spec => []OneJobPerKey
<1>1. IntakeInv => OneJobPerKey
  BY DEF IntakeInv, PublishInv, OneJobPerKey
<1> QED BY <1>1, IntakeInvariant, PTL

\* A 202 names a published order of the request's key, and a refused request has
\* left no job behind, whatever failed in between.
THEOREM AnswersAreTrue == Spec => []AnswerIsTrue
<1>1. IntakeInv => AnswerIsTrue
  BY DEF IntakeInv
<1> QED BY <1>1, IntakeInvariant, PTL

=============================================================================
