---------------------------- MODULE OrderIntake ----------------------------
(***************************************************************************)
(* The synchronous half: CreateOrderService.execute behind the three       *)
(* endpoints that accept orders, the idempotency keys in Redis and the     *)
(* publishing of the order job.                                            *)
(*                                                                         *)
(* A request generates its order id before anything else, so a request and *)
(* the order it may create are one and the same element of Requests.  A    *)
(* client's retry is another request with the same key.  Menu and amount   *)
(* validation is a choice between its verdicts.                            *)
(***************************************************************************)
EXTENDS Integers, FiniteSets

CONSTANTS
    Requests, Keys, KeyOf,  \* requests and the idempotency key each carries
    None,                   \* no request
    MaxFaults               \* bound: failures the environment may inject

ASSUME IntakeAssumption ==
    /\ KeyOf \in [Requests -> Keys]
    /\ None \notin Requests
    /\ MaxFaults \in Nat

VARIABLES
    rpc,       \* rpc[r]      : next await of execute()
    answer,    \* answer[r]   : the HTTP answer, or the one the catch block will give
    orderId,   \* orderId[r]  : the order id the answer carries
    pending,   \* pending[k]  : value of idempotency:<k>, or None
    response,  \* response[k] : order id in idempotency:<k>:response, or None
    published, \* order ids whose job was added to orders-main
    disturbed, \* keys whose Redis entries a failure or an expiry touched (history)
    faults     \* failures injected so far

vars == <<rpc, answer, orderId, pending, response, published, disturbed, faults>>

RequestPc == {"new", "acquire", "cached", "validate", "publish", "cache", "release",
              "answered", "dead"}

Answer == {"none", "accepted", "replayed", "conflict", "invalid", "unavailable", "error",
           "refused"}

TypeOK ==
    /\ rpc \in [Requests -> RequestPc]
    /\ answer \in [Requests -> Answer]
    /\ orderId \in [Requests -> Requests \cup {None}]
    /\ pending \in [Keys -> Requests \cup {None}]
    /\ response \in [Keys -> Requests \cup {None}]
    /\ published \subseteq Requests
    /\ disturbed \subseteq Keys
    /\ faults \in 0 .. MaxFaults

Init ==
    /\ rpc = [r \in Requests |-> "new"]
    /\ answer = [r \in Requests |-> "none"]
    /\ orderId = [r \in Requests |-> None]
    /\ pending = [k \in Keys |-> None]
    /\ response = [k \in Keys |-> None]
    /\ published = {}
    /\ disturbed = {}
    /\ faults = 0

\* Requests that hold their key: inside the try block or its catch.
Holding(r) == rpc[r] \in {"validate", "publish", "cache", "release"}

Goto(r, l) == rpc' = [rpc EXCEPT ![r] = l] /\ UNCHANGED <<answer, orderId>>

\* The answer is sent; ids only go out with 202.
Reply(r, a, id) ==
    /\ rpc' = [rpc EXCEPT ![r] = "answered"]
    /\ answer' = [answer EXCEPT ![r] = a]
    /\ orderId' = [orderId EXCEPT ![r] = id]

\* Into the catch block, which releases the key before it answers.
Catch(r, a) ==
    /\ rpc' = [rpc EXCEPT ![r] = "release"]
    /\ answer' = [answer EXCEPT ![r] = a]
    /\ UNCHANGED orderId

Calm == UNCHANGED <<disturbed, faults>>

\* A failure that leaves the key's Redis entries in doubt.
Fault(r) ==
    /\ faults < MaxFaults
    /\ faults' = faults + 1
    /\ disturbed' = disturbed \cup {KeyOf[r]}

-----------------------------------------------------------------------------

\* The three endpoints hand a request on to execute(); two refuse some themselves.

\* POST /orders: what the DTO does not admit never gets here.
ReceiveOrder(r) == Goto(r, "acquire")

\* POST /order: 202 with ok = false without a store or a positive total.  A request
\* without a key is given one of its own.
ReceiveCompat(r) == Goto(r, "acquire") \/ Reply(r, "refused", None)

\* POST /internal/orders: 401 for a wrong bridge key; the order id is the key.
ReceiveBridge(r) == Goto(r, "acquire") \/ Reply(r, "refused", None)

Receive(r) ==
    /\ rpc[r] = "new"
    /\ ReceiveOrder(r) \/ ReceiveCompat(r) \/ ReceiveBridge(r)
    /\ UNCHANGED <<pending, response, published>> /\ Calm

\* Mutation of TryAcquire: SET without NX.
TryAcquireWithoutNx(r) ==
    /\ rpc[r] = "acquire"
    /\ pending' = [pending EXCEPT ![KeyOf[r]] = r]
    /\ Goto(r, "validate")
    /\ UNCHANGED <<response, published>> /\ Calm

\* tryAcquire: SET NX EX.
TryAcquire(r) ==
    LET k == KeyOf[r] IN
    /\ rpc[r] = "acquire"
    /\ \/ pending[k] = None /\ pending' = [pending EXCEPT ![k] = r] /\ Goto(r, "validate")
       \/ pending[k] # None /\ UNCHANGED pending /\ Goto(r, "cached")
    /\ UNCHANGED <<response, published>> /\ Calm

\* The command errors (500), or it took the key, lost its reply and was sent again:
\* the second SET finds the key taken, by this very request.
TryAcquireFails(r) ==
    LET k == KeyOf[r] IN
    /\ rpc[r] = "acquire"
    /\ Fault(r)
    /\ \/ Reply(r, "error", None) /\ UNCHANGED pending
       \/ /\ pending[k] = None
          /\ pending' = [pending EXCEPT ![k] = r]
          /\ Goto(r, "cached")
    /\ UNCHANGED <<response, published>>

\* Mutation of GetCachedResponse: the refused duplicate gives the key back, too.
GetCachedThenRelease(r) ==
    /\ rpc[r] = "cached"
    /\ pending' = [pending EXCEPT ![KeyOf[r]] = None]
    /\ Reply(r, "conflict", None)
    /\ UNCHANGED <<response, published>> /\ Calm

\* A taken key: replay the cached answer, or 409 while there is none.
GetCachedResponse(r) ==
    LET k == KeyOf[r] IN
    /\ rpc[r] = "cached"
    /\ IF response[k] # None THEN Reply(r, "replayed", response[k])
                             ELSE Reply(r, "conflict", None)
    /\ UNCHANGED <<pending, response, published>> /\ Calm

\* validateAndEnrichItems: passes, or finds a missing or sold-out menu or another sum.
ValidateItems(r) ==
    /\ rpc[r] = "validate"
    /\ Goto(r, "publish") \/ Catch(r, "invalid")
    /\ UNCHANGED <<pending, response, published>> /\ Calm

\* publishOrder, then the socket notification.
Publish(r) ==
    /\ rpc[r] = "publish"
    /\ published' = published \cup {r}
    /\ Goto(r, "cache")
    /\ UNCHANGED <<pending, response>> /\ Calm

\* Mutation of SetCompleted: the key is cached in place of the order id.
SetCompletedWithKey(r) ==
    /\ rpc[r] = "cache"
    /\ response' = [response EXCEPT ![KeyOf[r]] = KeyOf[r]]
    /\ Reply(r, "accepted", r)
    /\ UNCHANGED <<pending, published>> /\ Calm

\* setCompleted, and the answer 202.
SetCompleted(r) ==
    /\ rpc[r] = "cache"
    /\ response' = [response EXCEPT ![KeyOf[r]] = r]
    /\ Reply(r, "accepted", r)
    /\ UNCHANGED <<pending, published>> /\ Calm

\* Mutation of TryBlockFails: an error of the queue is ignored.
QueueErrorIgnored(r) ==
    /\ Fault(r)
    /\ rpc[r] = "publish"
    /\ Goto(r, "cache")
    /\ UNCHANGED <<pending, response, published>>

\* An await of the try block rejects, its effect done or not: 503 after the release.
TryBlockFails(r) ==
    /\ Fault(r)
    /\ \/ /\ rpc[r] = "validate"
          /\ UNCHANGED <<response, published>>
       \/ /\ rpc[r] = "publish"
          /\ published' \in {published, published \cup {r}}
          /\ UNCHANGED response
       \/ /\ rpc[r] = "cache"
          /\ response' \in {response, [response EXCEPT ![KeyOf[r]] = r]}
          /\ UNCHANGED published
    /\ Catch(r, "unavailable")
    /\ UNCHANGED pending

\* The catch block: DEL of the key, whoever's it is, then the answer.
Release(r) ==
    /\ rpc[r] = "release"
    /\ pending' = [pending EXCEPT ![KeyOf[r]] = None]
    /\ Reply(r, answer[r], None)
    /\ UNCHANGED <<response, published>> /\ Calm

\* The DEL or the read of the cached answer errors: 500.
RedisFails(r) ==
    /\ Fault(r)
    /\ \/ rpc[r] = "cached" /\ UNCHANGED pending
       \/ rpc[r] = "release" /\ pending' \in {pending, [pending EXCEPT ![KeyOf[r]] = None]}
    /\ Reply(r, "error", None)
    /\ UNCHANGED <<response, published>>

\* The API process ends under the request; nothing gives its key back.
Die(r) ==
    /\ rpc[r] \notin {"new", "answered", "dead"}
    /\ Fault(r)
    /\ rpc' = [rpc EXCEPT ![r] = "dead"]
    /\ UNCHANGED <<answer, orderId, pending, response, published>>

\* Mutation of PendingExpires: SET without EX.
PendingWithoutTtl(k) == FALSE /\ UNCHANGED vars

\* The TTL of a key, a day by default, outlives every request in flight.
PendingExpires(k) ==
    /\ pending[k] # None
    /\ ~Holding(pending[k])
    /\ pending' = [pending EXCEPT ![k] = None]
    /\ disturbed' = disturbed \cup {k}
    /\ UNCHANGED <<rpc, answer, orderId, response, published, faults>>

\* The cached answer, set after its request took the key, goes after that key.
ResponseExpires(k) ==
    /\ response[k] # None
    /\ pending[k] # response[k]
    /\ response' = [response EXCEPT ![k] = None]
    /\ disturbed' = disturbed \cup {k}
    /\ UNCHANGED <<rpc, answer, orderId, pending, published, faults>>

-----------------------------------------------------------------------------

Serve(r) ==
    \/ TryAcquire(r) \/ GetCachedResponse(r) \/ ValidateItems(r)
    \/ Publish(r) \/ SetCompleted(r) \/ Release(r)

ServeFails(r) == TryAcquireFails(r) \/ TryBlockFails(r) \/ RedisFails(r) \/ Die(r)

Next ==
    \/ \E r \in Requests : Receive(r) \/ Serve(r) \/ ServeFails(r)
    \/ \E k \in Keys : PendingExpires(k) \/ ResponseExpires(k)

Spec == Init /\ [][Next]_vars

\* A received request is served and TTLs run out; clients need not call.
FairSpec ==
    /\ Spec
    /\ \A r \in Requests : WF_vars(Serve(r))
    /\ \A k \in Keys : WF_vars(PendingExpires(k))

-----------------------------------------------------------------------------
(* Properties.                                                             *)

\* As long as no failure and no expiry has touched a key's Redis entries, all the
\* requests that carry it, however they interleave, publish one job.
OneJobPerKey ==
    \A r, q \in published : KeyOf[r] = KeyOf[q] /\ KeyOf[r] \notin disturbed => r = q

\* A request that will release its key still owns it: the unconditional DEL of the
\* catch block never frees a key another request has taken in the meantime.
HolderOwnsKey ==
    \A r \in Requests : Holding(r) => pending[KeyOf[r]] = r

\* A 202, first-hand or replayed, names an order whose job was published under the
\* request's own key; a request that was refused left no job behind.
AnswerIsTrue ==
    \A r \in Requests : rpc[r] = "answered" =>
        /\ answer[r] \in {"accepted", "replayed"} =>
              orderId[r] \in published /\ KeyOf[orderId[r]] = KeyOf[r]
        /\ answer[r] \in {"invalid", "conflict", "refused"} => r \notin published

\* A key is never taken for good: its request finishes and leaves an answer to
\* replay, or the key becomes free again, by release or by its TTL.
KeyNotStuck ==
    \A k \in Keys : pending[k] # None ~> pending[k] = None \/ response[k] # None

=============================================================================
