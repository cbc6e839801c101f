------------------------- MODULE MenuCatalogProofs -------------------------
(***************************************************************************)
(* Proofs about MenuCatalog, for any menus, lists, orders and saves: how   *)
(* accepted orders are priced, and that ordered menus stay.                *)
(***************************************************************************)
EXTENDS MenuCatalog, FiniteSetTheorems, WellFoundedInduction, TLAPS

\* The domains and ranges the arguments need.
Types ==
    /\ DOMAIN cache = Carts
    /\ opc \in [Orders -> {"new", "get", "find", "set", "rejected", "queued", "stored", "failed"}]
    /\ cart \in [Orders -> Carts]
    /\ DOMAIN requested = Orders
    /\ DOMAIN lines = Orders

\* The rows of one state the menus have been in.
FromOneList(rows, K) == \E c \in past : rows = RowsOf(c, K)

\* What is cached or was read for a cart is of one list; an accepted order was judged
\* on such a reading.
PriceInv ==
    /\ menus \in past
    /\ \A K \in Carts : cache[K] # Miss => FromOneList(cache[K], K)
    /\ \A o \in Orders :
          opc[o] \in {"set", "queued", "stored", "failed"} => FromOneList(lines[o], cart[o])
    /\ \A o \in Orders :
          opc[o] \in {"queued", "stored", "failed"} => Acceptable(lines[o], cart[o], requested[o])

\* The foreign key: what is stored refers to rows there are.
KeyInv == \A o \in Orders : opc[o] = "stored" => cart[o] \subseteq DOMAIN menus

MenuInv == Types /\ PriceInv /\ KeyInv

-----------------------------------------------------------------------------

\* The states the menus have been in are never forgotten.
LEMMA FromStays ==
    ASSUME past \subseteq past', NEW rows, NEW K, FromOneList(rows, K)
    PROVE  FromOneList(rows, K)'
BY DEF FromOneList, RowsOf

\* Nothing is cached or ordered yet.
LEMMA InitMenu == Init => MenuInv
<1> SUFFICES ASSUME Init PROVE MenuInv
  OBVIOUS
<1>1. \A o \in Orders : opc[o] = "new"
  BY DEF Init
<1>2. \A K \in Carts : cache[K] = Miss
  BY DEF Init
<1>3. Types
  BY DEF Init, Types, Carts
<1>4. PriceInv /\ KeyInv
  BY <1>1, <1>2 DEF Init, PriceInv, KeyInv
<1> QED
  BY <1>3, <1>4 DEF MenuInv

\* A step of order o leaves the menus and the other orders alone.
LEMMA OrderFrame ==
    ASSUME MenuInv, NEW o \in Orders, UNCHANGED <<menus, past>>, Types',
           \A q \in Orders \ {o} : /\ opc'[q] = opc[q] /\ cart'[q] = cart[q]
                                   /\ lines'[q] = lines[q] /\ requested'[q] = requested[q],
           \A K \in Carts : cache'[K] # Miss => cache'[K] = cache[K] \/ FromOneList(cache'[K], K),
           opc'[o] \in {"set", "queued", "stored", "failed"} => FromOneList(lines'[o], cart'[o]),
           opc'[o] \in {"queued", "stored", "failed"} => Acceptable(lines'[o], cart'[o], requested'[o]),
           opc'[o] = "stored" => cart'[o] \subseteq DOMAIN menus
    PROVE  MenuInv'
<1>1. menus' = menus /\ past' = past
  OBVIOUS
<1>2. /\ menus \in past
      /\ \A K \in Carts : cache[K] # Miss => FromOneList(cache[K], K)
      /\ \A q \in Orders :
            opc[q] \in {"set", "queued", "stored", "failed"} => FromOneList(lines[q], cart[q])
      /\ \A q \in Orders :
            opc[q] \in {"queued", "stored", "failed"} => Acceptable(lines[q], cart[q], requested[q])
      /\ \A q \in Orders : opc[q] = "stored" => cart[q] \subseteq DOMAIN menus
  BY DEF MenuInv, PriceInv, KeyInv
<1>3. \A K \in Carts : cache'[K] # Miss => FromOneList(cache'[K], K)
  BY <1>2
<1>4. \A q \in Orders :
        opc'[q] \in {"set", "queued", "stored", "failed"} => FromOneList(lines'[q], cart'[q])
  BY <1>2
<1>5. \A q \in Orders :
        opc'[q] \in {"queued", "stored", "failed"} => Acceptable(lines'[q], cart'[q], requested'[q])
  BY <1>2
<1>6. KeyInv'
  BY <1>1, <1>2 DEF KeyInv
<1>7. PriceInv'
  <2>1. \A K \in Carts : (cache[K] # Miss => FromOneList(cache[K], K))'
    BY <1>1, <1>3 DEF FromOneList, RowsOf
  <2>2. \A q \in Orders : (opc[q] \in {"set", "queued", "stored", "failed"} =>
                              FromOneList(lines[q], cart[q]))'
    BY <1>1, <1>4 DEF FromOneList, RowsOf
  <2>3. \A q \in Orders : (opc[q] \in {"queued", "stored", "failed"} =>
                              Acceptable(lines[q], cart[q], requested[q]))'
    BY <1>5
  <2> QED
    BY <2>1, <2>2, <2>3, <1>1, <1>2 DEF PriceInv
<1> QED
  BY <1>6, <1>7 DEF MenuInv

LEMMA BrowseMenu ==
    ASSUME MenuInv, NEW o \in Orders, NEW K \in Carts, NEW fit \in BOOLEAN, Browse(o, K, fit) PROVE MenuInv'
<1>1. /\ opc' = [opc EXCEPT ![o] = "get"] /\ cart' = [cart EXCEPT ![o] = K]
      /\ requested' = [requested EXCEPT ![o] = Total(menus, K)]
      /\ UNCHANGED <<menus, past, cache, lines>>
  BY DEF Browse
<1>2. Types'
  BY <1>1 DEF MenuInv, Types
<1>3. opc'[o] = "get"
  BY <1>1 DEF MenuInv, Types
<1>4. \A q \in Orders \ {o} : /\ opc'[q] = opc[q] /\ cart'[q] = cart[q]
                              /\ lines'[q] = lines[q] /\ requested'[q] = requested[q]
  BY <1>1 DEF MenuInv, Types
<1> QED
  BY <1>1, <1>2, <1>3, <1>4, OrderFrame

\* The verdict on a reading that is of one list.
LEMMA JudgeMenu ==
    ASSUME MenuInv, NEW o \in Orders, NEW rows, Judge(o, rows), FromOneList(rows, cart[o]),
           UNCHANGED <<menus, past>>, DOMAIN cache' = Carts,
           \A K \in Carts : cache'[K] # Miss => cache'[K] = cache[K] \/ FromOneList(cache'[K], K)
    PROVE  MenuInv'
<1>1. /\ opc' = [opc EXCEPT ![o] = IF Acceptable(rows, cart[o], requested[o])
                                   THEN "queued" ELSE "rejected"]
      /\ lines' = [lines EXCEPT ![o] = rows] /\ UNCHANGED <<cart, requested>>
  BY DEF Judge
<1>2. Types'
  BY <1>1 DEF MenuInv, Types
<1>3. /\ opc'[o] = (IF Acceptable(rows, cart[o], requested[o]) THEN "queued" ELSE "rejected")
      /\ lines'[o] = rows /\ cart'[o] = cart[o] /\ requested'[o] = requested[o]
  BY <1>1 DEF MenuInv, Types
<1>4. \A q \in Orders \ {o} : /\ opc'[q] = opc[q] /\ cart'[q] = cart[q]
                              /\ lines'[q] = lines[q] /\ requested'[q] = requested[q]
  BY <1>1 DEF MenuInv, Types
<1>5. FromOneList(lines'[o], cart'[o])
  BY <1>3
<1>6. opc'[o] \in {"queued", "stored", "failed"} => Acceptable(lines'[o], cart'[o], requested'[o])
  BY <1>3
<1>7. opc'[o] # "stored"
  BY <1>3
<1> QED
  BY <1>2, <1>4, <1>5, <1>6, <1>7, OrderFrame

LEMMA GetCachedMenu == ASSUME MenuInv, NEW o \in Orders, GetCached(o) PROVE MenuInv'
<1>1. UNCHANGED <<menus, past, cache>> /\ cart[o] \in Carts /\ DOMAIN cache = Carts
  BY DEF GetCached, MenuInv, Types
<1>2. CASE cache[cart[o]] # Miss /\ Judge(o, cache[cart[o]])
  <2>1. FromOneList(cache[cart[o]], cart[o])
    BY <1>1, <1>2 DEF MenuInv, PriceInv
  <2> QED
    BY <2>1, <1>1, <1>2, JudgeMenu
<1>3. CASE opc' = [opc EXCEPT ![o] = "find"] /\ UNCHANGED <<cart, fits, requested, lines, attempts>>
  <2>1. Types'
    BY <1>1, <1>3 DEF MenuInv, Types
  <2>2. /\ opc'[o] = "find"
        /\ \A q \in Orders \ {o} : /\ opc'[q] = opc[q] /\ cart'[q] = cart[q]
                                   /\ lines'[q] = lines[q] /\ requested'[q] = requested[q]
    BY <1>3 DEF MenuInv, Types
  <2> QED
    BY <2>1, <2>2, <1>1, OrderFrame
<1> QED
  BY <1>2, <1>3 DEF GetCached, Cached

LEMMA FindMenusMenu == ASSUME MenuInv, NEW o \in Orders, FindMenusByIds(o) PROVE MenuInv'
<1>1. /\ opc' = [opc EXCEPT ![o] = "set"]
      /\ lines' = [lines EXCEPT ![o] = RowsOf(menus, cart[o])]
      /\ UNCHANGED <<menus, past, cache, cart, requested>>
  BY DEF FindMenusByIds
<1>2. Types'
  BY <1>1 DEF MenuInv, Types
<1>3. /\ opc'[o] = "set" /\ lines'[o] = RowsOf(menus, cart[o]) /\ cart'[o] = cart[o]
      /\ \A q \in Orders \ {o} : /\ opc'[q] = opc[q] /\ cart'[q] = cart[q]
                                 /\ lines'[q] = lines[q] /\ requested'[q] = requested[q]
  BY <1>1 DEF MenuInv, Types
<1>4. FromOneList(lines'[o], cart'[o])
  BY <1>3 DEF FromOneList, MenuInv, PriceInv
<1> QED
  BY <1>1, <1>2, <1>3, <1>4, OrderFrame

LEMMA SetCachedMenu == ASSUME MenuInv, NEW o \in Orders, SetCached(o) PROVE MenuInv'
<1>1. /\ opc[o] = "set" /\ cache' = [cache EXCEPT ![cart[o]] = lines[o]]
      /\ Judge(o, lines[o]) /\ UNCHANGED <<menus, past>>
  BY DEF SetCached
<1>2. FromOneList(lines[o], cart[o])
  BY <1>1 DEF MenuInv, PriceInv
<1>3. /\ DOMAIN cache' = Carts
      /\ \A K \in Carts : cache'[K] # Miss => cache'[K] = cache[K] \/ FromOneList(cache'[K], K)
  BY <1>1, <1>2 DEF MenuInv, Types
<1> QED
  BY <1>1, <1>2, <1>3, JudgeMenu

LEMMA InsertItemsMenu == ASSUME MenuInv, NEW o \in Orders, InsertItems(o) PROVE MenuInv'
<1>1. opc[o] = "queued" /\ UNCHANGED <<menus, past, cache, cart, requested, lines>>
  BY DEF InsertItems
<1>2. FromOneList(lines[o], cart[o]) /\ Acceptable(lines[o], cart[o], requested[o])
  BY <1>1 DEF MenuInv, PriceInv
<1>3. /\ opc' \in [Orders -> {"new", "get", "find", "set", "rejected", "queued", "stored", "failed"}]
      /\ \A q \in Orders \ {o} : opc'[q] = opc[q]
      /\ opc'[o] = "stored" => cart[o] \subseteq DOMAIN menus
  BY <1>1 DEF InsertItems, Insertable, MenuInv, Types
<1>4. Types'
  BY <1>1, <1>3 DEF MenuInv, Types
<1> QED
  BY <1>1, <1>2, <1>3, <1>4, OrderFrame

\* A save keeps the rows that are ordered, and the menus were in their new state.
LEMMA CommitMenusStep ==
    ASSUME MenuInv, NEW v \in Saves, CommitMenus(v)
    PROVE  /\ past \subseteq past' /\ menus' \in past'
           /\ \A m \in Ordered : m \in DOMAIN menus' /\ menus'[m] = menus[m]
<1>1. Ordered \subseteq DOMAIN menus
  BY DEF Ordered, MenuInv, KeyInv
<1> DEFINE kept == DOMAIN menus \ seen[v]
           new == list[v]
<1>2. CASE /\ Deletable(seen[v]) /\ kept \cap DOMAIN new = {}
           /\ menus' = [m \in kept \cup DOMAIN new |-> IF m \in kept THEN menus[m] ELSE new[m]]
           /\ past' = past \cup {menus'}
  <2>1. Ordered \subseteq kept
    BY <1>1, <1>2 DEF Deletable
  <2> HIDE DEF kept, new
  <2> QED
    BY <2>1, <1>2
<1>3. CASE UNCHANGED <<menus, past>>
  BY <1>1, <1>3 DEF MenuInv, PriceInv
<1> QED
  BY <1>2, <1>3 DEF CommitMenus

LEMMA SavesMenu ==
    ASSUME MenuInv, UNCHANGED <<cache, opc, cart, requested, lines>>,
           past \subseteq past', menus' \in past',
           \A m \in Ordered : m \in DOMAIN menus'
    PROVE  MenuInv'
<1>1. Types'
  BY DEF MenuInv, Types
<1>2. KeyInv'
  BY DEF MenuInv, KeyInv, Ordered
<1>3. \A K \in Carts : (cache[K] # Miss => FromOneList(cache[K], K))'
  BY FromStays DEF MenuInv, PriceInv
<1>4. \A q \in Orders : (opc[q] \in {"set", "queued", "stored", "failed"} =>
                            FromOneList(lines[q], cart[q]))'
  BY FromStays DEF MenuInv, PriceInv
<1>5. \A q \in Orders : (opc[q] \in {"queued", "stored", "failed"} =>
                            Acceptable(lines[q], cart[q], requested[q]))'
  BY DEF MenuInv, PriceInv
<1> QED
  BY <1>1, <1>2, <1>3, <1>4, <1>5 DEF MenuInv, PriceInv

LEMMA CacheExpiresMenu == ASSUME MenuInv, NEW K \in Carts, CacheExpires(K) PROVE MenuInv'
<1>1. cache' = [cache EXCEPT ![K] = Miss] /\ UNCHANGED <<menus, past, opc, cart, requested, lines>>
  BY DEF CacheExpires, orderVars
<1>2. Types' /\ KeyInv'
  BY <1>1 DEF MenuInv, Types, KeyInv
<1>3. \A L \in Carts : (cache[L] # Miss => FromOneList(cache[L], L))'
  <2> SUFFICES ASSUME NEW L \in Carts, cache'[L] # Miss PROVE FromOneList(cache'[L], L)
    BY <1>1 DEF FromOneList, RowsOf
  <2>1. cache'[L] = cache[L]
    BY <1>1 DEF MenuInv, Types
  <2> QED
    BY <2>1 DEF MenuInv, PriceInv
<1>4. \A q \in Orders : (opc[q] \in {"set", "queued", "stored", "failed"} =>
                            FromOneList(lines[q], cart[q]))'
  BY <1>1, FromStays DEF MenuInv, PriceInv
<1>5. \A q \in Orders : (opc[q] \in {"queued", "stored", "failed"} =>
                            Acceptable(lines[q], cart[q], requested[q]))'
  BY <1>1 DEF MenuInv, PriceInv
<1> QED
  BY <1>1, <1>2, <1>3, <1>4, <1>5 DEF MenuInv, PriceInv

\* The inductive invariant holds of every behaviour.
THEOREM MenuInvHolds == Spec => []MenuInv
<1>1. MenuInv /\ [Next]_vars => MenuInv'
  <2> SUFFICES ASSUME MenuInv, [Next]_vars PROVE MenuInv'
    OBVIOUS
  <2>1. ASSUME NEW o \in Orders, Serve(o) \/ \E K \in Carts, fit \in BOOLEAN : Browse(o, K, fit) PROVE MenuInv'
    BY <2>1, GetCachedMenu, FindMenusMenu, SetCachedMenu, InsertItemsMenu, BrowseMenu DEF Serve
  <2>2. ASSUME NEW v \in Saves, CommitMenus(v) PROVE MenuInv'
    <3>1. UNCHANGED <<cache, opc, cart, requested, lines>>
      BY <2>2 DEF CommitMenus, orderVars
    <3> QED
      BY <3>1, <2>2, CommitMenusStep, SavesMenu
  <2>3. CASE (\E v \in Saves, new \in Lists : SaveMenus(v, new)) \/ UNCHANGED vars
    <3>1. UNCHANGED <<cache, opc, cart, requested, lines, menus, past>>
      BY <2>3 DEF SaveMenus, orderVars, vars
    <3>2. menus \in past /\ \A m \in Ordered : m \in DOMAIN menus
      BY DEF MenuInv, PriceInv, KeyInv, Ordered
    <3> QED
      BY <3>1, <3>2, SavesMenu
  <2> QED
    BY <2>1, <2>2, <2>3, CacheExpiresMenu DEF Next
<1> QED
  BY <1>1, InitMenu, PTL DEF Spec

\* The items of an accepted order are priced and on sale in one state the menus have
\* been in, and add up to the amount the customer was shown, however old the cache
\* entry is and whatever was saved between the reading and the verdict.
THEOREM PricesComeFromOneList == Spec => []PricedFromOneList
<1>1. MenuInv => PricedFromOneList
  <2> SUFFICES ASSUME MenuInv, NEW o \in Orders, opc[o] \in {"queued", "stored", "failed"}
               PROVE /\ \E c \in past : \A m \in cart[o] :
                            m \in DOMAIN c /\ c[m].available /\ lines[o][m] = c[m]
                     /\ Total(lines[o], cart[o]) = requested[o]
    BY DEF PricedFromOneList
  <2>1. FromOneList(lines[o], cart[o]) /\ Acceptable(lines[o], cart[o], requested[o])
    BY DEF MenuInv, PriceInv
  <2>2. PICK c \in past : lines[o] = RowsOf(c, cart[o])
    BY <2>1 DEF FromOneList
  <2>3. /\ cart[o] \subseteq DOMAIN lines[o] /\ \A m \in cart[o] : lines[o][m].available
        /\ Total(lines[o], cart[o]) = requested[o]
    BY <2>1 DEF Acceptable
  <2>4. \A m \in cart[o] : m \in DOMAIN c /\ lines[o][m] = c[m]
    BY <2>2, <2>3 DEF RowsOf
  <2> QED
    BY <2>3, <2>4
<1> QED
  BY <1>1, MenuInvHolds, PTL

\* A menu somebody ordered keeps its row for ever: the foreign key holds at every
\* step, and a save whose DELETE reaches such a row changes nothing.
THEOREM OrderedMenusStay == Spec => OrderedRowsStay
<1>1. MenuInv /\ [Next]_vars => [\A m \in Ordered : m \in DOMAIN menus' /\ menus'[m] = menus[m]]_vars
  <2> SUFFICES ASSUME MenuInv, Next
               PROVE \A m \in Ordered : m \in DOMAIN menus' /\ menus'[m] = menus[m]
    OBVIOUS
  <2>1. CASE \E v \in Saves : CommitMenus(v)
    BY <2>1, CommitMenusStep
  <2>2. CASE UNCHANGED menus
    BY <2>2 DEF MenuInv, KeyInv, Ordered
  <2> QED
    BY <2>1, <2>2 DEF Next, Serve, GetCached, FindMenusByIds, SetCached, InsertItems, Browse,
                      SaveMenus, CacheExpires
<1> QED
  BY <1>1, MenuInvHolds, PTL DEF Spec, OrderedRowsStay

-----------------------------------------------------------------------------
(* The sum of prices.  Total is the fold of the library, a recursive       *)
(* function over the subsets of a cart: that there is such a function, and *)
(* what its values are, follows from the least size for which it fails.    *)

Pick(s) == CHOOSE m \in s : TRUE

\* f adds up the prices of every set of menus in its domain.
AddsUp(f, D, rows) ==
    f = [s \in D |-> IF s = {} THEN 0 ELSE rows[Pick(s)].price + f[s \ {Pick(s)}]]

LEMMA TotalIsChosen ==
    ASSUME NEW rows, NEW ids
    PROVE  Total(rows, ids) = (CHOOSE f : AddsUp(f, SUBSET ids, rows))[ids]
BY DEF Total, MapThenSumSet, MapThenFoldSet, AddsUp, Pick

\* The least-number principle.
LEMMA LeastNumber ==
    ASSUME NEW S \in SUBSET Nat, S # {}
    PROVE  \E n \in S : \A k \in S : ~(k < n)
<1> DEFINE Less == OpToRel(<, Nat)
<1>1. IsWellFoundedOn(Less, Nat)
  BY NatLessThanWellFounded
<1>2. \A x, y \in Nat : <<y, x>> \in Less <=> y < x
  BY DEF OpToRel
<1> HIDE DEF Less
<1>3. PICK n \in S : \A k \in S : ~(<<k, n>> \in Less)
  BY <1>1, WFMin
<1>4. ASSUME NEW k \in S PROVE ~(k < n)
  <2>1. k \in Nat /\ n \in Nat
    OBVIOUS
  <2> QED
    BY <2>1, <1>2, <1>3, Zenon
<1> QED
  BY <1>4

\* A set without its pick is one smaller.
LEMMA PickSmaller ==
    ASSUME NEW s, IsFiniteSet(s), s # {}
    PROVE  /\ Pick(s) \in s /\ IsFiniteSet(s \ {Pick(s)})
           /\ Cardinality(s) \in Nat /\ Cardinality(s \ {Pick(s)}) \in Nat
           /\ Cardinality(s \ {Pick(s)}) = Cardinality(s) - 1
<1>1. PICK m : m = Pick(s)
  OBVIOUS
<1>2. m \in s
  BY <1>1 DEF Pick
<1>3. IsFiniteSet(s \ {m}) /\ Cardinality(s \ {m}) = Cardinality(s) - 1
  BY <1>2, FS_RemoveElement
<1>4. Cardinality(s) \in Nat /\ Cardinality(s \ {m}) \in Nat
  BY <1>3, FS_CardinalityType
<1> QED
  BY <1>1, <1>2, <1>3, <1>4

\* The subsets of S with n elements or fewer.
UpTo(S, n) == {s \in SUBSET S : Cardinality(s) <= n}

\* There is a function that adds up the prices of all subsets of a finite set.
LEMMA SumExists ==
    ASSUME NEW S, IsFiniteSet(S), NEW rows
    PROVE  \E f : AddsUp(f, SUBSET S, rows)
<1>0. \A s \in SUBSET S : IsFiniteSet(s) /\ Cardinality(s) \in Nat /\ Cardinality(s) <= Cardinality(S)
  BY FS_Subset, FS_CardinalityType
<1> DEFINE Bad == {n \in Nat : ~\E f : AddsUp(f, UpTo(S, n), rows)}
<1>1. Bad = {}
  <2> SUFFICES ASSUME Bad # {} PROVE FALSE
    OBVIOUS
  <2>1. PICK n \in Bad : \A k \in Bad : ~(k < n)
    BY LeastNumber
  <2>2. n \in Nat /\ ~\E f : AddsUp(f, UpTo(S, n), rows)
    OBVIOUS
  <2>3. CASE n = 0
    <3>1. \A s \in UpTo(S, 0) : s = {}
      BY <1>0, FS_EmptySet DEF UpTo
    <3> DEFINE f == [s \in UpTo(S, 0) |-> 0]
    <3>2. AddsUp(f, UpTo(S, 0), rows)
      BY <3>1 DEF AddsUp
    <3> QED
      BY <2>2, <2>3, <3>2
  <2>4. CASE n # 0
    <3>1. n - 1 \in Nat /\ n - 1 < n
      BY <2>2, <2>4
    <3>2. n - 1 \notin Bad
      BY <2>1, <3>1
    <3>3. PICK g : AddsUp(g, UpTo(S, n - 1), rows)
      BY <3>1, <3>2
    <3> DEFINE h == [s \in UpTo(S, n) |->
                        IF s = {} THEN 0 ELSE rows[Pick(s)].price + g[s \ {Pick(s)}]]
    <3>4. ASSUME NEW s \in UpTo(S, n), s # {}
          PROVE  h[s \ {Pick(s)}] = g[s \ {Pick(s)}]
      <4>1. PICK t : t = s \ {Pick(s)}
        OBVIOUS
      <4>2. t \in UpTo(S, n - 1) /\ t \in UpTo(S, n)
        <5>1. s \in SUBSET S /\ Cardinality(s) <= n
          BY DEF UpTo
        <5>2. t \in SUBSET S /\ Cardinality(s) \in Nat /\ Cardinality(t) \in Nat
              /\ Cardinality(t) = Cardinality(s) - 1
          BY <3>4, <4>1, <5>1, <1>0, PickSmaller
        <5>3. Cardinality(t) <= n - 1 /\ Cardinality(t) <= n
          BY <5>1, <5>2, <2>2
        <5> QED
          BY <5>2, <5>3 DEF UpTo
      <4>3. g[t] = IF t = {} THEN 0 ELSE rows[Pick(t)].price + g[t \ {Pick(t)}]
        BY <3>3, <4>2 DEF AddsUp
      <4> QED
        BY <4>1, <4>2, <4>3
    <3>5. AddsUp(h, UpTo(S, n), rows)
      BY <3>4 DEF AddsUp
    <3> QED
      BY <2>2, <3>5
  <2> QED
    BY <2>3, <2>4
<1>2. Cardinality(S) \in Nat /\ UpTo(S, Cardinality(S)) = SUBSET S
  BY <1>0, FS_CardinalityType DEF UpTo
<1>3. \E f : AddsUp(f, UpTo(S, Cardinality(S)), rows)
  BY <1>1, <1>2
<1> HIDE DEF Bad
<1> QED
  BY <1>2, <1>3, Zenon

\* Natural prices add up to a natural number.
LEMMA TotalType ==
    ASSUME NEW rows, NEW ids, IsFiniteSet(ids), \A m \in ids : rows[m].price \in Nat
    PROVE  Total(rows, ids) \in Nat
<1>0. \A s \in SUBSET ids : IsFiniteSet(s) /\ Cardinality(s) \in Nat
  BY FS_Subset, FS_CardinalityType
<1>1. PICK f : f = (CHOOSE g : AddsUp(g, SUBSET ids, rows))
  OBVIOUS
<1>2. AddsUp(f, SUBSET ids, rows) /\ Total(rows, ids) = f[ids]
  BY <1>1, SumExists, TotalIsChosen
<1>3. \A s \in SUBSET ids :
         f[s] = IF s = {} THEN 0 ELSE rows[Pick(s)].price + f[s \ {Pick(s)}]
  BY <1>2 DEF AddsUp
<1> DEFINE Bad == {n \in Nat : \E s \in SUBSET ids : Cardinality(s) = n /\ f[s] \notin Nat}
<1>4. Bad = {}
  <2> SUFFICES ASSUME Bad # {} PROVE FALSE
    OBVIOUS
  <2>1. PICK n \in Bad : \A k \in Bad : ~(k < n)
    BY LeastNumber
  <2>2. PICK s \in SUBSET ids : Cardinality(s) = n /\ f[s] \notin Nat
    OBVIOUS
  <2>3. s # {}
    <3>1. s = {} => f[s] = 0
      BY <1>3
    <3> QED
      BY <2>2, <3>1
  <2>4. PICK t : t = s \ {Pick(s)}
    OBVIOUS
  <2>5. /\ t \in SUBSET ids /\ Pick(s) \in ids /\ Cardinality(t) \in Nat
        /\ Cardinality(t) = Cardinality(s) - 1 /\ Cardinality(s) \in Nat
    BY <1>0, <2>3, <2>4, PickSmaller
  <2>6. Cardinality(t) < n
    BY <2>2, <2>5
  <2>7. f[t] \in Nat
    BY <2>1, <2>5, <2>6
  <2>8. f[s] = rows[Pick(s)].price + f[t]
    BY <1>3, <2>3, <2>4
  <2> QED
    BY <2>2, <2>5, <2>7, <2>8
<1>5. f[ids] \in Nat
  BY <1>0, <1>4
<1> QED
  BY <1>2, <1>5

-----------------------------------------------------------------------------
(* Types.  A job that can still be inserted has an attempt left.           *)

AttemptsInv == \A o \in Orders : opc[o] \notin {"rejected", "stored", "failed"} => attempts[o] < MaxAttempts

TypeInv == TypeOK /\ AttemptsInv

LEMMA ListOfRows ==
    ASSUME NEW rows, IsMenuList(rows), NEW ids PROVE IsMenuList(RowsOf(rows, ids))
<1>1. DOMAIN RowsOf(rows, ids) = ids \cap DOMAIN rows
  BY DEF RowsOf
<1>2. IsFiniteSet(ids \cap DOMAIN rows)
  BY FS_Subset DEF IsMenuList
<1> QED
  BY <1>1, <1>2 DEF RowsOf, IsMenuList

LEMMA NoRowsIsList == IsMenuList(NoRows)
<1>1. DOMAIN NoRows = {}
  BY DEF NoRows
<1> QED
  BY <1>1, FS_EmptySet DEF IsMenuList

LEMMA InitMenuTypes == Init => TypeInv
<1> SUFFICES ASSUME Init PROVE TypeInv
  OBVIOUS
<1>1. MaxAttempts \in Nat \ {0} /\ IsMenuList(FirstList)
  BY CatalogAssumption
<1>2. attempts \in [Orders -> 0 .. MaxAttempts] /\ \A o \in Orders : attempts[o] < MaxAttempts
  BY <1>1 DEF Init
<1>3. \A o \in Orders : IsMenuList(lines[o])
  BY NoRowsIsList DEF Init
<1> QED
  BY <1>1, <1>2, <1>3 DEF Init, TypeInv, TypeOK, AttemptsInv, Carts

\* The amount a customer is shown is a sum of prices.
LEMMA BrowseTypes ==
    ASSUME TypeInv, NEW o \in Orders, NEW K \in Carts, NEW fit \in BOOLEAN, Browse(o, K, fit) PROVE TypeInv'
<1>1. /\ opc[o] = "new" /\ K \subseteq DOMAIN menus
      /\ opc' = [opc EXCEPT ![o] = "get"] /\ cart' = [cart EXCEPT ![o] = K]
      /\ fits' = [fits EXCEPT ![o] = fit]
      /\ requested' = [requested EXCEPT ![o] = Total(menus, K)]
      /\ UNCHANGED <<menus, past, cache, lines, attempts, spc, list, seen>>
  BY DEF Browse, saveVars
<1>2. IsMenuList(menus)
  BY DEF TypeInv, TypeOK
<1>3. IsFiniteSet(K) /\ \A m \in K : menus[m].price \in Nat
  BY <1>1, <1>2, FS_Subset DEF IsMenuList, Row
<1>4. Total(menus, K) \in Nat
  BY <1>3, TotalType
<1>5. /\ opc' \in [Orders -> {"new", "get", "find", "set", "rejected", "queued", "stored", "failed"}]
      /\ cart' \in [Orders -> Carts] /\ requested' \in [Orders -> Nat]
      /\ fits' \in [Orders -> BOOLEAN]
  BY <1>1, <1>4 DEF TypeInv, TypeOK
<1>6. AttemptsInv'
  BY <1>1 DEF TypeInv, TypeOK, AttemptsInv
<1>7. TypeOK'
  BY <1>1, <1>5 DEF TypeInv, TypeOK
<1> QED
  BY <1>6, <1>7 DEF TypeInv

LEMMA JudgeTypes ==
    ASSUME TypeInv, NEW o \in Orders, NEW rows, IsMenuList(rows), Judge(o, rows),
           opc[o] \notin {"rejected", "stored", "failed"},
           UNCHANGED <<menus, past, spc, list, seen>>,
           DOMAIN cache' = Carts, \A K \in Carts : cache'[K] = Miss \/ IsMenuList(cache'[K])
    PROVE  TypeInv'
<1>1. PICK verdict \in {"queued", "rejected"} : opc' = [opc EXCEPT ![o] = verdict]
  BY DEF Judge
<1>2. lines' = [lines EXCEPT ![o] = rows] /\ UNCHANGED <<cart, fits, requested, attempts>>
  BY DEF Judge
<1>3. DOMAIN lines' = Orders /\ \A q \in Orders : IsMenuList(lines'[q])
  BY <1>2 DEF TypeInv, TypeOK
<1>4. AttemptsInv'
  BY <1>1, <1>2 DEF TypeInv, TypeOK, AttemptsInv
<1>5. opc' \in [Orders -> {"new", "get", "find", "set", "rejected", "queued", "stored", "failed"}]
  BY <1>1 DEF TypeInv, TypeOK
<1>6. \A c \in {menus'} \cup past' : IsMenuList(c)
  BY DEF TypeInv, TypeOK
<1>7. TypeOK'
  BY <1>2, <1>3, <1>5, <1>6 DEF TypeInv, TypeOK, IsMenuList
<1> QED
  BY <1>4, <1>7 DEF TypeInv

LEMMA ServeTypes == ASSUME TypeInv, NEW o \in Orders, Serve(o) PROVE TypeInv'
<1>0. cart[o] \in Carts /\ IsMenuList(menus) /\ IsMenuList(lines[o]) /\ DOMAIN cache = Carts
  BY DEF TypeInv, TypeOK
<1>1. CASE GetCached(o)
  <2>1. opc[o] = "get" /\ UNCHANGED <<menus, past, cache, spc, list, seen>>
    BY <1>1 DEF GetCached, saveVars
  <2>2. CASE Cached(cart[o]) # Miss /\ Judge(o, Cached(cart[o]))
    <3>1. IsMenuList(cache[cart[o]]) /\ \A K \in Carts : cache[K] = Miss \/ IsMenuList(cache[K])
      BY <1>0, <2>2 DEF Cached, TypeInv, TypeOK
    <3> QED
      BY <1>0, <2>1, <2>2, <3>1, JudgeTypes DEF Cached
  <2>3. CASE opc' = [opc EXCEPT ![o] = "find"] /\ UNCHANGED <<cart, fits, requested, lines, attempts>>
    <3>1. opc' \in [Orders -> {"new", "get", "find", "set", "rejected", "queued", "stored", "failed"}]
      BY <2>3 DEF TypeInv, TypeOK
    <3>2. AttemptsInv'
      BY <2>1, <2>3 DEF TypeInv, TypeOK, AttemptsInv
    <3> QED
      BY <2>1, <2>3, <3>1, <3>2 DEF TypeInv, TypeOK
  <2> QED
    BY <1>1, <2>2, <2>3 DEF GetCached
<1>2. CASE FindMenusByIds(o)
  <2>1. /\ opc[o] = "find" /\ opc' = [opc EXCEPT ![o] = "set"]
        /\ lines' = [lines EXCEPT ![o] = RowsOf(menus, cart[o])]
        /\ UNCHANGED <<menus, past, cache, cart, fits, requested, attempts, spc, list, seen>>
    BY <1>2 DEF FindMenusByIds, saveVars
  <2>2. IsMenuList(RowsOf(menus, cart[o]))
    BY <1>0, ListOfRows
  <2>3. DOMAIN lines' = Orders /\ \A q \in Orders : IsMenuList(lines'[q])
    BY <2>1, <2>2 DEF TypeInv, TypeOK
  <2>4. opc' \in [Orders -> {"new", "get", "find", "set", "rejected", "queued", "stored", "failed"}]
    BY <2>1 DEF TypeInv, TypeOK
  <2>5. AttemptsInv'
    BY <2>1 DEF TypeInv, TypeOK, AttemptsInv
  <2>6. TypeOK'
    BY <2>1, <2>3, <2>4 DEF TypeInv, TypeOK, IsMenuList
  <2> QED
    BY <2>5, <2>6 DEF TypeInv
<1>3. CASE SetCached(o)
  <2>1. /\ opc[o] = "set" /\ cache' = [cache EXCEPT ![cart[o]] = lines[o]] /\ Judge(o, lines[o])
        /\ UNCHANGED <<menus, past, spc, list, seen>>
    BY <1>3 DEF SetCached, saveVars
  <2>2. DOMAIN cache' = Carts /\ \A K \in Carts : cache'[K] = Miss \/ IsMenuList(cache'[K])
    BY <1>0, <2>1 DEF TypeInv, TypeOK
  <2> QED
    BY <1>0, <2>1, <2>2, JudgeTypes
<1>4. CASE InsertItems(o)
  <2>1. /\ opc[o] = "queued"
        /\ UNCHANGED <<menus, past, cache, cart, fits, requested, lines, spc, list, seen>>
    BY <1>4 DEF InsertItems, saveVars
  <2>2. attempts[o] \in 0 .. MaxAttempts /\ attempts[o] < MaxAttempts /\ MaxAttempts \in Nat
    BY <2>1, CatalogAssumption DEF TypeInv, TypeOK, AttemptsInv
  <2>3. CASE opc' = [opc EXCEPT ![o] = "stored"] /\ UNCHANGED attempts
    <3>1. opc' \in [Orders -> {"new", "get", "find", "set", "rejected", "queued", "stored", "failed"}]
      BY <2>3 DEF TypeInv, TypeOK
    <3>2. AttemptsInv'
      BY <2>3 DEF TypeInv, TypeOK, AttemptsInv
    <3> QED
      BY <2>1, <2>3, <3>1, <3>2 DEF TypeInv, TypeOK
  <2>4. CASE /\ attempts' = [attempts EXCEPT ![o] = @ + 1]
             /\ opc' = [opc EXCEPT ![o] = IF GivesUp(attempts'[o]) THEN "failed" ELSE @]
    <3>1. /\ attempts'[o] = attempts[o] + 1 /\ attempts'[o] \in 0 .. MaxAttempts
          /\ \A q \in Orders \ {o} : attempts'[q] = attempts[q]
      BY <2>2, <2>4 DEF TypeInv, TypeOK
    <3>2. attempts' \in [Orders -> 0 .. MaxAttempts]
      BY <2>4, <3>1 DEF TypeInv, TypeOK
    <3>3. /\ opc' \in [Orders -> {"new", "get", "find", "set", "rejected", "queued", "stored", "failed"}]
          /\ \A q \in Orders \ {o} : opc'[q] = opc[q]
          /\ opc'[o] # "failed" => ~GivesUp(attempts'[o])
      BY <2>1, <2>4 DEF TypeInv, TypeOK
    <3>4. opc'[o] # "failed" => attempts'[o] < MaxAttempts
      BY <2>2, <3>1, <3>3 DEF GivesUp
    <3>5. AttemptsInv'
      BY <3>1, <3>3, <3>4 DEF TypeInv, AttemptsInv
    <3> QED
      BY <2>1, <3>2, <3>3, <3>5 DEF TypeInv, TypeOK
  <2> QED
    BY <1>4, <2>3, <2>4 DEF InsertItems
<1> QED
  BY <1>1, <1>2, <1>3, <1>4 DEF Serve

LEMMA SaveTypes ==
    ASSUME TypeInv, NEW v \in Saves, CommitMenus(v) \/ \E new \in Lists : SaveMenus(v, new)
    PROVE  TypeInv'
<1>1. UNCHANGED <<cache, opc, cart, fits, requested, lines, attempts>>
  BY DEF CommitMenus, SaveMenus, orderVars
<1>2. IsMenuList(menus) /\ IsMenuList(list[v])
  BY NoRowsIsList, CatalogAssumption DEF TypeInv, TypeOK
<1>3. /\ \A rows \in {menus'} \cup past' : IsMenuList(rows)
      /\ spc' \in [Saves -> {"new", "deleting", "ok", "error"}]
      /\ list' \in [Saves -> Lists \cup {NoRows}]
      /\ seen' \in [Saves -> SUBSET MenuIds]
  <2>1. ASSUME NEW new \in Lists, SaveMenus(v, new)
        PROVE  <1>3!:
    BY <1>2, <2>1 DEF SaveMenus, TypeInv, TypeOK, IsMenuList
  <2>2. CASE CommitMenus(v)
    <3> DEFINE kept == DOMAIN menus \ seen[v]
               new == list[v]
    <3>1. CASE /\ menus' = [m \in kept \cup DOMAIN new |-> IF m \in kept THEN menus[m] ELSE new[m]]
               /\ past' = past \cup {menus'}
               /\ seen' = [u \in Saves |-> IF u = v THEN {} ELSE seen[u] \ seen[v]]
               /\ spc' = [spc EXCEPT ![v] = "ok"] /\ UNCHANGED list
      <4>1. DOMAIN menus' = kept \cup DOMAIN new
        BY <3>1
      <4>2. IsFiniteSet(DOMAIN menus) /\ IsFiniteSet(DOMAIN new)
        BY <1>2 DEF IsMenuList
      <4>3. IsFiniteSet(kept)
        BY <4>2, FS_Subset
      <4>4. IsFiniteSet(DOMAIN menus')
        BY <4>1, <4>2, <4>3, FS_Union
      <4>5. IsMenuList(menus')
        BY <1>2, <3>1, <4>1, <4>4 DEF IsMenuList
      <4>6. \A rows \in past : IsMenuList(rows)
        BY DEF TypeInv, TypeOK
      <4>7. \A rows \in {menus'} \cup past' : IsMenuList(rows)
        BY <3>1, <4>5, <4>6
      <4>8. /\ spc' \in [Saves -> {"new", "deleting", "ok", "error"}]
            /\ list' \in [Saves -> Lists \cup {NoRows}]
            /\ seen' \in [Saves -> SUBSET MenuIds]
        BY <3>1 DEF TypeInv, TypeOK
      <4> QED
        BY <4>7, <4>8
    <3>2. CASE /\ spc' = [spc EXCEPT ![v] = "error"]
               /\ seen' = [seen EXCEPT ![v] = {}]
               /\ UNCHANGED <<menus, past, list>>
      BY <3>2 DEF TypeInv, TypeOK
    <3> QED
      BY <2>2, <3>1, <3>2 DEF CommitMenus
  <2> QED
    BY <2>1, <2>2
<1>4. AttemptsInv'
  BY <1>1 DEF TypeInv, AttemptsInv
<1> QED
  BY <1>1, <1>3, <1>4 DEF TypeInv, TypeOK, IsMenuList

LEMMA ExpiryTypes ==
    ASSUME TypeInv, (\E K \in Carts : CacheExpires(K)) \/ UNCHANGED vars PROVE TypeInv'
<1>1. UNCHANGED <<menus, past, opc, cart, fits, requested, lines, attempts, spc, list, seen>>
  BY DEF CacheExpires, vars, orderVars, saveVars
<1>2. DOMAIN cache' = Carts /\ \A K \in Carts : cache'[K] = Miss \/ IsMenuList(cache'[K])
  BY DEF CacheExpires, vars, TypeInv, TypeOK
<1>3. TypeOK'
  BY <1>1, <1>2 DEF TypeInv, TypeOK, IsMenuList
<1>4. AttemptsInv'
  BY <1>1 DEF TypeInv, AttemptsInv
<1> QED
  BY <1>3, <1>4 DEF TypeInv

LEMMA MenuTypes == Spec => []TypeInv
<1>1. TypeInv /\ [Next]_vars => TypeInv'
  BY BrowseTypes, ServeTypes, SaveTypes, ExpiryTypes DEF Next
<1> QED
  BY <1>1, InitMenuTypes, PTL DEF Spec

\* Menus, cache, orders and saves are well-typed: prices add up to natural numbers, a
\* cache entry is a list of menus, and no order is inserted more often than allowed.
THEOREM MenuTypeCorrect == Spec => []TypeOK
<1>1. TypeInv => TypeOK
  BY DEF TypeInv
<1> QED
  BY <1>1, MenuTypes, PTL

-----------------------------------------------------------------------------
(* The amount.                                                             *)

\* A sum depends on the rows of the ids only.
LEMMA TotalOfSameRows ==
    ASSUME NEW r, NEW c, NEW ids, IsFiniteSet(ids), \A m \in ids : r[m] = c[m]
    PROVE  Total(r, ids) = Total(c, ids)
<1>0. \A s \in SUBSET ids : IsFiniteSet(s) /\ Cardinality(s) \in Nat
  BY FS_Subset, FS_CardinalityType
<1>1. PICK f, g : /\ f = (CHOOSE h : AddsUp(h, SUBSET ids, r))
                  /\ g = (CHOOSE h : AddsUp(h, SUBSET ids, c))
  OBVIOUS
<1>2. /\ AddsUp(f, SUBSET ids, r) /\ Total(r, ids) = f[ids]
      /\ AddsUp(g, SUBSET ids, c) /\ Total(c, ids) = g[ids]
  BY <1>1, SumExists, TotalIsChosen
<1>3. \A s \in SUBSET ids :
         /\ f[s] = IF s = {} THEN 0 ELSE r[Pick(s)].price + f[s \ {Pick(s)}]
         /\ g[s] = IF s = {} THEN 0 ELSE c[Pick(s)].price + g[s \ {Pick(s)}]
  BY <1>2 DEF AddsUp
<1> DEFINE Bad == {n \in Nat : \E s \in SUBSET ids : Cardinality(s) = n /\ f[s] # g[s]}
<1>4. Bad = {}
  <2> SUFFICES ASSUME Bad # {} PROVE FALSE
    OBVIOUS
  <2>1. PICK n \in Bad : \A k \in Bad : ~(k < n)
    BY LeastNumber
  <2>2. PICK s \in SUBSET ids : Cardinality(s) = n /\ f[s] # g[s]
    OBVIOUS
  <2>3. s # {}
    BY <1>3, <2>2
  <2>4. PICK t : t = s \ {Pick(s)}
    OBVIOUS
  <2>5. /\ t \in SUBSET ids /\ Pick(s) \in ids /\ Cardinality(t) \in Nat
        /\ Cardinality(t) = Cardinality(s) - 1 /\ Cardinality(s) \in Nat
    BY <1>0, <2>3, <2>4, PickSmaller
  <2>6. Cardinality(t) < n
    BY <2>2, <2>5
  <2>7. f[t] = g[t]
    BY <2>1, <2>5, <2>6
  <2> QED
    BY <1>3, <2>2, <2>3, <2>4, <2>5, <2>7
<1>5. f[ids] = g[ids]
  BY <1>0, <1>4
<1> QED
  BY <1>2, <1>5

\* The amount an accepted order was placed at is what its items cost, all of them on
\* sale, in one state the menus have really been in.
AmountOfOneList ==
    \A o \in Orders : opc[o] \in {"queued", "stored", "failed"} =>
        \E c \in past :
            /\ cart[o] \subseteq {m \in DOMAIN c : c[m].available}
            /\ Total(c, cart[o]) = requested[o]

\* A customer whose order is accepted pays what the store asked at some moment: the
\* check against the cached lines is a check against the table.
THEOREM AmountsAreReal == Spec => []AmountOfOneList
<1>1. TypeInv /\ PricedFromOneList => AmountOfOneList
  <2> SUFFICES ASSUME TypeInv, PricedFromOneList,
                      NEW o \in Orders, opc[o] \in {"queued", "stored", "failed"}
               PROVE  \E c \in past : /\ cart[o] \subseteq {m \in DOMAIN c : c[m].available}
                                      /\ Total(c, cart[o]) = requested[o]
    BY DEF AmountOfOneList
  <2>1. PICK c \in past : \A m \in cart[o] :
            m \in DOMAIN c /\ c[m].available /\ lines[o][m] = c[m]
    BY DEF PricedFromOneList
  <2>2. Total(lines[o], cart[o]) = requested[o]
    BY DEF PricedFromOneList
  <2>3. IsFiniteSet(cart[o])
    BY <2>1, FS_Subset DEF TypeInv, TypeOK, IsMenuList
  <2>4. Total(lines[o], cart[o]) = Total(c, cart[o])
    BY <2>1, <2>3, TotalOfSameRows
  <2> QED
    BY <2>1, <2>2, <2>4
<1> QED
  BY <1>1, MenuTypes, PricesComeFromOneList, PTL

=============================================================================
