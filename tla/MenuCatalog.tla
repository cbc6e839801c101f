---------------------------- MODULE MenuCatalog ----------------------------
(***************************************************************************)
(* One store's menus between the POS that replaces them, the customers who *)
(* order from them, the cached price lists in Redis and the worker that    *)
(* stores the ordered items under a foreign key to them.                   *)
(*                                                                         *)
(* A menu list is a function from menu ids to rows.  A POS item whose id   *)
(* is not a UUID gets a fresh id on every save: a list with other ids.     *)
(* Failing commands, retries of requests and the idempotency key are the   *)
(* business of OrderIntake and OrderWorker.  Quantities scale both sides   *)
(* of the amount check; what is kept of them is whether the columns of the *)
(* tables take them, which not every endpoint looks at.                    *)
(***************************************************************************)
EXTENDS Integers, FiniteSets, FiniteSetsExt

CONSTANTS
    MenuIds,      \* menu ids
    Lists,        \* bound: the menu lists the POS may send
    FirstList,    \* the menus of the store at the start
    Orders,       \* order requests
    Misfits,      \* bound: those whose values the columns may refuse
    Saves,        \* calls of POST /menu-data/save
    MaxAttempts,  \* retry.maxAttempts
    Miss          \* no entry under a cache key

Row == [price : Nat, available : BOOLEAN]

\* A partial function from menu ids to rows, of a table that has finitely many.
IsMenuList(rows) ==
    /\ DOMAIN rows \subseteq MenuIds /\ IsFiniteSet(DOMAIN rows)
    /\ \A m \in DOMAIN rows : rows[m] \in Row

ASSUME CatalogAssumption ==
    /\ \A rows \in Lists : IsMenuList(rows)
    /\ IsMenuList(FirstList)
    /\ Misfits \subseteq Orders
    /\ MaxAttempts \in Nat \ {0}

\* Sorted and joined, the ids of a cart are its cache key.
Carts == SUBSET MenuIds

VARIABLES
    menus,      \* the committed rows of table menus
    past,       \* every state menus has been in (history)
    cache,      \* cache[K]     : the list under menu:<store>:<K>, or Miss
    opc,        \* opc[o]       : next step of the order
    cart,       \* cart[o]      : the ids it orders
    fits,       \* fits[o]      : its quantities and its key are such as the columns take
    requested,  \* requested[o] : requestedAmount
    lines,      \* lines[o]     : the list read for it; once accepted, its items' prices
    attempts,   \* attempts[o]  : failed inserts
    spc,        \* spc[v]       : where the save is
    list,       \* list[v]      : the list it was sent
    seen        \* seen[v]      : ids of the rows its DELETE has seen that are still there

orderVars == <<opc, cart, fits, requested, lines, attempts>>
saveVars  == <<spc, list, seen>>
vars == <<menus, past, cache, orderVars, saveVars>>

NoRows == [m \in {} |-> 0]

TypeOK ==
    /\ \A rows \in {menus} \cup past : IsMenuList(rows)
    /\ DOMAIN cache = Carts /\ \A K \in Carts : cache[K] = Miss \/ IsMenuList(cache[K])
    /\ opc \in [Orders -> {"new", "get", "find", "set", "rejected", "queued", "stored", "failed"}]
    /\ cart \in [Orders -> Carts]
    /\ fits \in [Orders -> BOOLEAN]
    /\ requested \in [Orders -> Nat]
    /\ DOMAIN lines = Orders /\ \A o \in Orders : IsMenuList(lines[o])
    /\ attempts \in [Orders -> 0 .. MaxAttempts]
    /\ spc \in [Saves -> {"new", "deleting", "ok", "error"}]
    /\ list \in [Saves -> Lists \cup {NoRows}]
    /\ seen \in [Saves -> SUBSET MenuIds]

Init ==
    /\ menus = FirstList
    /\ past = {FirstList}
    /\ cache = [K \in Carts |-> Miss]
    /\ opc = [o \in Orders |-> "new"]
    /\ cart = [o \in Orders |-> {}]
    /\ fits = [o \in Orders |-> TRUE]
    /\ requested = [o \in Orders |-> 0]
    /\ lines = [o \in Orders |-> NoRows]
    /\ attempts = [o \in Orders |-> 0]
    /\ spc = [v \in Saves |-> "new"]
    /\ list = [v \in Saves |-> NoRows]
    /\ seen = [v \in Saves |-> {}]

RowsOf(rows, ids) == [m \in ids \cap DOMAIN rows |-> rows[m]]

Total(rows, ids) == MapThenSumSet(LAMBDA m : rows[m].price, ids)

-----------------------------------------------------------------------------
(* Ordering.                                                               *)

\* GET /menus shows what is on sale; the customer orders some of it at that price.
\* CreateOrderDto asks for whole quantities from 1 and sets no limit; POST /order and
\* POST /internal/orders take what they are sent.
Browse(o, K, fit) ==
    /\ opc[o] = "new"
    /\ K # {}
    /\ K \subseteq {m \in DOMAIN menus : menus[m].available}
    /\ opc' = [opc EXCEPT ![o] = "get"]
    /\ cart' = [cart EXCEPT ![o] = K]
    /\ fit \/ o \in Misfits
    /\ fits' = [fits EXCEPT ![o] = fit]
    /\ requested' = [requested EXCEPT ![o] = Total(menus, K)]
    /\ UNCHANGED <<menus, past, cache, lines, attempts, saveVars>>

\* validateAndEnrichItems: no menu is missing or sold out, and the sums agree.
Acceptable(rows, K, amount) ==
    /\ K \subseteq DOMAIN rows
    /\ \A m \in K : rows[m].available
    /\ Total(rows, K) = amount

\* The verdict on a list, and the job that carries the priced items.
Judge(o, rows) ==
    /\ opc' = [opc EXCEPT ![o] = IF Acceptable(rows, cart[o], requested[o])
                                 THEN "queued" ELSE "rejected"]
    /\ lines' = [lines EXCEPT ![o] = rows]
    /\ UNCHANGED <<cart, fits, requested, attempts>>

\* Mutation of Cached: one cache entry per menu; only missing menus are read.
CachedPerMenu(K) ==
    LET known == {m \in K : cache[{m}] # Miss /\ m \in DOMAIN cache[{m}]} IN
    IF known = {} THEN Miss
    ELSE [m \in known \cup (K \cap DOMAIN menus) |->
             IF m \in known THEN cache[{m}][m] ELSE menus[m]]

\* redis.get; the list cached for a cart without any row, [], counts as an entry.
Cached(K) == cache[K]

GetCached(o) ==
    /\ opc[o] = "get"
    /\ \/ /\ Cached(cart[o]) # Miss
          /\ Judge(o, Cached(cart[o]))
       \/ /\ Cached(cart[o]) = Miss
          /\ opc' = [opc EXCEPT ![o] = "find"]
          /\ UNCHANGED <<cart, fits, requested, lines, attempts>>
    /\ UNCHANGED <<menus, past, cache, saveVars>>

\* findMenusByIds.
FindMenusByIds(o) ==
    /\ opc[o] = "find"
    /\ opc' = [opc EXCEPT ![o] = "set"]
    /\ lines' = [lines EXCEPT ![o] = RowsOf(menus, cart[o])]
    /\ UNCHANGED <<menus, past, cache, cart, fits, requested, attempts, saveVars>>

\* redis.set with the TTL, then the verdict.
SetCached(o) ==
    /\ opc[o] = "set"
    /\ cache' = [cache EXCEPT ![cart[o]] = lines[o]]
    /\ Judge(o, lines[o])
    /\ UNCHANGED <<menus, past, saveVars>>

\* Mutation of CacheExpires: SET without EX.
CacheWithoutTtl(K) == FALSE /\ UNCHANGED vars

\* MENU_CACHE_TTL_SECONDS are over.
CacheExpires(K) ==
    /\ cache[K] # Miss
    /\ cache' = [cache EXCEPT ![K] = Miss]
    /\ UNCHANGED <<menus, past, orderVars, saveVars>>

\* Mutation of GivesUp: one attempt too many.
GivesUpLate(n) == n > MaxAttempts

GivesUp(n) == n >= MaxAttempts

\* Mutation of Insertable: the items must still have the prices of the menus.
InsertableAtPrice(o) == fits[o] /\ lines[o] = RowsOf(menus, cart[o])

\* What the tables take: quantity INTEGER CHECK (quantity > 0), the length of the key,
\* and the foreign key from an item to its menu.
Insertable(o) == fits[o] /\ cart[o] \subseteq DOMAIN menus

\* createOrder inserts the order and its items in one transaction.  What the tables
\* refuse fails the attempt.
InsertItems(o) ==
    /\ opc[o] = "queued"
    /\ \/ /\ Insertable(o)
          /\ opc' = [opc EXCEPT ![o] = "stored"]
          /\ UNCHANGED attempts
       \/ /\ ~Insertable(o)
          /\ attempts' = [attempts EXCEPT ![o] = @ + 1]
          /\ opc' = [opc EXCEPT ![o] = IF GivesUp(attempts'[o]) THEN "failed" ELSE @]
    /\ UNCHANGED <<menus, past, cache, cart, fits, requested, lines, saveVars>>

-----------------------------------------------------------------------------
(* POST /menu-data/save: DELETE of all the rows, then the INSERTs.  Under   *)
(* READ COMMITTED the DELETE sees the rows committed when it starts, waits *)
(* for other writers of these rows, and skips those that are gone by then. *)

SaveMenus(v, new) ==
    /\ spc[v] = "new"
    /\ spc' = [spc EXCEPT ![v] = "deleting"]
    /\ list' = [list EXCEPT ![v] = new]
    /\ seen' = [seen EXCEPT ![v] = DOMAIN menus]
    /\ UNCHANGED <<menus, past, cache, orderVars>>

\* Menus some stored order item refers to.
Ordered == UNION {cart[o] : o \in {q \in Orders : opc[q] = "stored"}}

\* Mutation of Deletable: ON DELETE CASCADE.
DeletableAlways(ids) == TRUE

\* ON DELETE RESTRICT.
Deletable(ids) == ids \cap Ordered = {}

\* The rest of the transaction: all of it, or nothing when a deleted menu was
\* ordered or an inserted id is taken.
CommitMenus(v) ==
    LET kept == DOMAIN menus \ seen[v]
        new  == list[v]
    IN
    /\ spc[v] = "deleting"
    /\ \/ /\ Deletable(seen[v]) /\ kept \cap DOMAIN new = {}
          /\ menus' = [m \in kept \cup DOMAIN new |-> IF m \in kept THEN menus[m] ELSE new[m]]
          /\ past' = past \cup {menus'}
          /\ seen' = [u \in Saves |-> IF u = v THEN {} ELSE seen[u] \ seen[v]]
          /\ spc' = [spc EXCEPT ![v] = "ok"]
       \/ /\ ~(Deletable(seen[v]) /\ kept \cap DOMAIN new = {})
          /\ spc' = [spc EXCEPT ![v] = "error"]
          /\ seen' = [seen EXCEPT ![v] = {}]
          /\ UNCHANGED <<menus, past>>
    /\ UNCHANGED <<cache, orderVars, list>>

-----------------------------------------------------------------------------

Serve(o) == GetCached(o) \/ FindMenusByIds(o) \/ SetCached(o) \/ InsertItems(o)

Next ==
    \/ \E o \in Orders : Serve(o) \/ \E K \in Carts, fit \in BOOLEAN : Browse(o, K, fit)
    \/ \E v \in Saves : CommitMenus(v) \/ \E new \in Lists : SaveMenus(v, new)
    \/ \E K \in Carts : CacheExpires(K)

Spec == Init /\ [][Next]_vars

\* Requests in flight, jobs and transactions go on, and TTLs run out.
FairSpec ==
    /\ Spec
    /\ \A o \in Orders : WF_vars(Serve(o))
    /\ \A v \in Saves : WF_vars(CommitMenus(v))
    /\ \A K \in Carts : WF_vars(CacheExpires(K))

-----------------------------------------------------------------------------
(* Properties.                                                             *)

\* The items of an accepted order are priced and on sale in one state the menus
\* have really been in, and add up to the amount the customer was shown: neither
\* an old cache entry nor saves in between ever mix the prices of two lists.
PricedFromOneList ==
    \A o \in Orders : opc[o] \in {"queued", "stored", "failed"} =>
        /\ \E c \in past : \A m \in cart[o] :
              m \in DOMAIN c /\ c[m].available /\ lines[o][m] = c[m]
        /\ Total(lines[o], cart[o]) = requested[o]

\* A menu somebody ordered keeps its row as it is for ever, whatever lists are
\* saved and however saves overlap with the insert of the items.
OrderedRowsStay ==
    [][\A m \in Ordered : m \in DOMAIN menus' /\ menus'[m] = menus[m]]_vars

\* Once the POS stops saving, what Redis holds of the menus comes to agree with
\* the table and stays so, entries written late from an older read included.
CacheCatchesUp ==
    <>[](\A K \in Carts : cache[K] # Miss => cache[K] = RowsOf(menus, K))

\* An accepted order is stored in the end, or given up because one of its menus was
\* deleted before the insert or its values are not ones the columns take.  Prices that
\* change, menus that sell out, stale cache entries and saves that keep the ids never
\* cost an order that the customer was told is accepted.
AcceptedGetsStored ==
    \A o \in Orders :
        opc[o] = "queued" ~>
            \/ opc[o] = "stored"
            \/ opc[o] = "failed" /\ ~(fits[o] /\ cart[o] \subseteq DOMAIN menus)

=============================================================================
