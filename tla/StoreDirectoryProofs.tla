------------------------ MODULE StoreDirectoryProofs ------------------------
(***************************************************************************)
(* Proofs about StoreDirectory, for any number of areas, stores, pages and *)
(* writes: what pages and requests carry was true at the version they      *)
(* carry it at, and only stores that were active get areas.                *)
(***************************************************************************)
EXTENDS StoreDirectory, FiniteSetTheorems, TLAPS

CopyN == [row : Row \cup {NoRow}, ver : Nat]
FormN == [area : Areas, store : Stores \cup {0}, active : BOOLEAN, ver : Nat,
          touched : SUBSET {"store", "active"}, rerendered : BOOLEAN]
LoadN == [areas : [Areas -> CopyN], stores : SUBSET Stores]
RequestN == [page : Pages, op : {"POST", "PUT", "DELETE"}, body : FormN, state : {"sent", "ok"}]

\* A copy of the row of a is one of its past, and is true while it is of the present.
CopyOK(c, a) == c \in CopyN /\ c.ver <= ver[a] /\ (c.ver = ver[a] => c.row = areas[a])

LoadOK(l) == l \in LoadN /\ l.stores \subseteq served /\ \A a \in Areas : CopyOK(l.areas[a], a)

\* What a request carries: no store but one that was offered, no version of the future.
BodyOK(b) == b \in FormN /\ b.store \in served \cup {0} /\ b.ver <= ver[b.area]

\* What the operator left alone agrees with a row that was not written since.
FormTrue(b) ==
    b.ver = ver[b.area] /\ ~b.rerendered /\ areas[b.area] # NoRow =>
        /\ "store" \notin b.touched /\ b.store # 0 => b.store = areas[b.area].store
        /\ "active" \notin b.touched => b.active = areas[b.area].active

RequestOK(r) ==
    /\ r \in RequestN
    /\ BodyOK(r.body)
    /\ r.op = "PUT" => FormTrue(r.body)
    /\ r.op = "POST" => r.body.store # 0
    /\ r.state = "ok" => r.body.ver < ver[r.body.area]

TableInv ==
    /\ areas \in [Areas -> Row \cup {NoRow}]
    /\ used \in SUBSET Areas
    /\ \A a \in Areas \ used : areas[a] = NoRow
    /\ ver \in [Areas -> Nat]
    /\ served \in SUBSET Stores /\ active \subseteq served
    /\ \A a \in Areas : areas[a] # NoRow => areas[a].store \in served

ShownInv ==
    /\ shown \in [Pages -> [Areas -> CopyN]]
    /\ \A p \in Pages, a \in Areas : CopyOK(shown[p][a], a)

OfferedInv ==
    /\ offered \in [Pages -> SUBSET Stores]
    /\ \A p \in Pages : offered[p] \subseteq served

FormInv ==
    /\ form \in [Pages -> FormN \cup {Closed}]
    /\ \A p \in Pages : form[p] # Closed => BodyOK(form[p]) /\ FormTrue(form[p])

LoadsInv ==
    /\ loads \in [Pages -> SUBSET LoadN]
    /\ \A p \in Pages : \A l \in loads[p] : LoadOK(l)

RequestsInv == \A r \in requests : RequestOK(r)

\* A POST that is under way is for an area of its own.
PostInv ==
    \A r \in requests : r.op = "POST" /\ r.state = "sent" =>
        /\ r.body.area \notin used
        /\ \A q \in requests :
              q.op = "POST" /\ q.state = "sent" /\ q.body.area = r.body.area => q = r

Pending(a) == {r \in requests : r.state = "sent" /\ r.body.area = a}

\* The writes of a row, those under way and those that may still be sent.
BudgetInv ==
    /\ budget \in [writes : 0 .. MaxWrites, edits : 0 .. MaxEdits,
                   loads : 0 .. MaxLoads, moves : 0 .. MaxMoves]
    /\ IsFiniteSet(requests)
    /\ \A a \in Areas : ver[a] + Cardinality(Pending(a)) + budget.writes <= MaxWrites

PagesInv == ShownInv /\ OfferedInv /\ FormInv /\ LoadsInv

\* The inductive invariant.
DirectoryInv == TableInv /\ PagesInv /\ RequestsInv /\ PostInv /\ BudgetInv

\* How the table may change: a row that changes gets a new version.
Grows ==
    /\ served \subseteq served'
    /\ ver' \in [Areas -> Nat]
    /\ \A a \in Areas : ver'[a] = ver[a] + 1 \/ (ver'[a] = ver[a] /\ areas'[a] = areas[a])

-----------------------------------------------------------------------------
(* The first of the options, and what a table that grows leaves as it is.  *)

\* Min is what it says, by the least-number principle.
LEMMA MinIsLeast ==
    ASSUME NEW S \in SUBSET Nat, S # {}
    PROVE  Min(S) \in S
<1> DEFINE Less == OpToRel(<, Nat)
<1>1. IsWellFoundedOn(Less, Nat)
  BY NatLessThanWellFounded
<1>2. \A x, y \in Nat : <<y, x>> \in Less <=> y < x
  BY DEF OpToRel
<1> HIDE DEF Less
<1>3. PICK x \in S : \A y \in S : ~(<<y, x>> \in Less)
  BY <1>1, WFMin
<1>4. ASSUME NEW y \in S PROVE x <= y
  <2>1. ~(<<y, x>> \in Less)
    BY <1>3, Zenon
  <2>2. x \in Nat /\ y \in Nat
    OBVIOUS
  <2>3. ~(y < x)
    BY <2>1, <2>2, <1>2, Zenon
  <2> QED
    BY <2>2, <2>3
<1> QED
  BY <1>4 DEF Min

LEMMA FirstOptionIn ==
    ASSUME NEW options \in SUBSET Stores
    PROVE  FirstOption(options) \in options \cup {0}
<1>1. options \in SUBSET Nat
  BY DirectoryAssumption
<1> QED
  BY <1>1, MinIsLeast DEF FirstOption

LEMMA CopyStays ==
    ASSUME TableInv, Grows, NEW a \in Areas, NEW c, CopyOK(c, a) PROVE CopyOK(c, a)'
<1>1. ver[a] \in Nat /\ ver'[a] \in Nat
  BY DEF TableInv, Grows
<1>2. c.ver \in Nat /\ c.ver <= ver[a] /\ c \in CopyN
  BY DEF CopyOK, CopyN
<1>3. CASE ver'[a] = ver[a] + 1
  BY <1>1, <1>2, <1>3 DEF CopyOK
<1>4. CASE ver'[a] = ver[a] /\ areas'[a] = areas[a]
  BY <1>4 DEF CopyOK
<1> QED
  BY <1>3, <1>4 DEF Grows

LEMMA LoadStays ==
    ASSUME TableInv, Grows, NEW l, LoadOK(l) PROVE LoadOK(l)'
<1>1. \A a \in Areas : CopyOK(l.areas[a], a)'
  BY CopyStays DEF LoadOK
<1> QED
  BY <1>1 DEF LoadOK, Grows

LEMMA BodyStays ==
    ASSUME TableInv, Grows, NEW b, BodyOK(b)
    PROVE  BodyOK(b)' /\ (FormTrue(b) => FormTrue(b)')
<1>1. b.area \in Areas /\ b.ver \in Nat /\ b \in FormN /\ b.store \in served \cup {0} /\ b.ver <= ver[b.area]
  BY DEF BodyOK, FormN
<1>2. ver[b.area] \in Nat /\ ver'[b.area] \in Nat
  BY <1>1 DEF TableInv, Grows
<1>3. b.store \in served' \cup {0}
  BY <1>1 DEF Grows
<1>4. CASE ver'[b.area] = ver[b.area] + 1
  BY <1>1, <1>2, <1>3, <1>4 DEF BodyOK, FormTrue
<1>5. CASE ver'[b.area] = ver[b.area] /\ areas'[b.area] = areas[b.area]
  BY <1>1, <1>3, <1>5 DEF BodyOK, FormTrue
<1> QED
  BY <1>1, <1>4, <1>5 DEF Grows

LEMMA RequestStays ==
    ASSUME TableInv, Grows, NEW r, RequestOK(r) PROVE RequestOK(r)'
<1>1. r \in RequestN /\ BodyOK(r.body) /\ (r.op = "POST" => r.body.store # 0)
  BY DEF RequestOK
<1>2. BodyOK(r.body)' /\ (r.op = "PUT" => FormTrue(r.body)')
  BY <1>1, BodyStays DEF RequestOK
<1>3. r.body.area \in Areas /\ r.body.ver \in Nat
  BY <1>1 DEF BodyOK, FormN
<1>4. ver[r.body.area] \in Nat /\ ver'[r.body.area] \in Nat /\ ver[r.body.area] <= ver'[r.body.area]
  BY <1>3 DEF TableInv, Grows
<1>5. r.state = "ok" => r.body.ver < ver'[r.body.area]
  BY <1>3, <1>4 DEF RequestOK
<1> QED
  BY <1>1, <1>2, <1>5 DEF RequestOK

-----------------------------------------------------------------------------
(* What steps leave alone.                                                 *)

LEMMA TableSame ==
    ASSUME TableInv, UNCHANGED <<table, stores>> PROVE TableInv' /\ Grows
<1>1. UNCHANGED <<areas, used, ver, active, served>>
  BY DEF table, stores
<1> QED
  BY <1>1 DEF TableInv, Grows

LEMMA ShownSame == ASSUME TableInv, Grows, ShownInv, UNCHANGED shown PROVE ShownInv'
BY CopyStays DEF ShownInv

LEMMA OfferedSame == ASSUME Grows, OfferedInv, UNCHANGED offered PROVE OfferedInv'
BY DEF OfferedInv, Grows

LEMMA FormSame == ASSUME TableInv, Grows, FormInv, UNCHANGED form PROVE FormInv'
BY BodyStays DEF FormInv

LEMMA LoadsSame == ASSUME TableInv, Grows, LoadsInv, UNCHANGED loads PROVE LoadsInv'
BY LoadStays DEF LoadsInv

LEMMA PagesSame ==
    ASSUME TableInv, Grows, PagesInv, UNCHANGED <<pageVars, loads>> PROVE PagesInv'
<1>1. UNCHANGED <<shown, offered, form, loads>>
  BY DEF pageVars
<1> QED
  BY <1>1, ShownSame, OfferedSame, FormSame, LoadsSame DEF PagesInv

LEMMA RequestsFewer ==
    ASSUME TableInv, Grows, RequestsInv, PostInv, requests' \subseteq requests, UNCHANGED used
    PROVE  RequestsInv' /\ PostInv'
<1>1. RequestsInv'
  BY RequestStays DEF RequestsInv
<1>2. PostInv'
  BY DEF PostInv
<1> QED
  BY <1>1, <1>2

\* Fewer requests and no more writes to send.
LEMMA BudgetFewer ==
    ASSUME TableInv, BudgetInv, requests' \subseteq requests, UNCHANGED ver,
           budget' \in [writes : 0 .. MaxWrites, edits : 0 .. MaxEdits,
                        loads : 0 .. MaxLoads, moves : 0 .. MaxMoves],
           budget'.writes <= budget.writes
    PROVE  BudgetInv'
<1>1. IsFiniteSet(requests')
  BY FS_Subset DEF BudgetInv
<1>2. ASSUME NEW a \in Areas
      PROVE ver'[a] + Cardinality(Pending(a)') + budget'.writes <= MaxWrites
  <2>1. Pending(a)' \in SUBSET Pending(a) /\ Pending(a) \in SUBSET requests
    BY DEF Pending
  <2>2. IsFiniteSet(Pending(a))
    BY <2>1, FS_Subset DEF BudgetInv
  <2>3. /\ Cardinality(Pending(a)') <= Cardinality(Pending(a)) /\ IsFiniteSet(Pending(a)')
    BY <2>1, <2>2, FS_Subset
  <2>4. Cardinality(Pending(a)') \in Nat /\ Cardinality(Pending(a)) \in Nat
    BY <2>2, <2>3, FS_CardinalityType
  <2>5. ver[a] \in Nat /\ budget.writes \in Nat /\ budget'.writes \in Nat /\ MaxWrites \in Nat
    BY DirectoryAssumption DEF TableInv, BudgetInv
  <2>6. ver[a] + Cardinality(Pending(a)) + budget.writes <= MaxWrites
    BY DEF BudgetInv
  <2> QED
    BY <2>3, <2>4, <2>5, <2>6
<1> QED
  BY <1>1, <1>2 DEF BudgetInv

LEMMA Spent ==
    ASSUME BudgetInv, NEW what \in {"writes", "edits", "loads", "moves"}, Spend(what)
    PROVE  /\ budget' \in [writes : 0 .. MaxWrites, edits : 0 .. MaxEdits,
                           loads : 0 .. MaxLoads, moves : 0 .. MaxMoves]
           /\ budget'.writes = IF what = "writes" THEN budget.writes - 1 ELSE budget.writes
           /\ budget.writes \in Nat
<1>1. CASE what = "writes"
  BY <1>1, DirectoryAssumption DEF Spend, BudgetInv
<1>2. CASE what = "edits"
  BY <1>2, DirectoryAssumption DEF Spend, BudgetInv
<1>3. CASE what = "loads"
  BY <1>3, DirectoryAssumption DEF Spend, BudgetInv
<1>4. CASE what = "moves"
  BY <1>4, DirectoryAssumption DEF Spend, BudgetInv
<1> QED
  BY <1>1, <1>2, <1>3, <1>4

\* A step of the page that sends no write.
LEMMA BudgetSame ==
    ASSUME TableInv, BudgetInv, UNCHANGED <<requests, ver>>,
           UNCHANGED budget \/ \E what \in {"edits", "loads", "moves"} : Spend(what)
    PROVE  BudgetInv'
<1>1. CASE UNCHANGED budget
  BY <1>1, DirectoryAssumption, BudgetFewer DEF BudgetInv
<1>2. ASSUME NEW what \in {"edits", "loads", "moves"}, Spend(what) PROVE BudgetInv'
  BY <1>2, Spent, BudgetFewer
<1> QED
  BY <1>1, <1>2

-----------------------------------------------------------------------------
(* The steps of a page.                                                    *)

LEMMA AreasDataOK == ASSUME TableInv PROVE LoadOK(AreasData)
<1>1. AreasData.stores = active /\ active \subseteq served /\ served \subseteq Stores
  BY DEF AreasData, TableInv
<1>2. \A a \in Areas : AreasData.areas[a] = [row |-> areas[a], ver |-> ver[a]]
  BY DEF AreasData
<1>3. \A a \in Areas : areas[a] \in Row \cup {NoRow} /\ ver[a] \in Nat
  BY DEF TableInv
<1>4. \A a \in Areas : CopyOK([row |-> areas[a], ver |-> ver[a]], a)
  BY <1>3 DEF CopyOK, CopyN
<1>5. AreasData \in LoadN
  BY <1>1, <1>3 DEF AreasData, LoadN, CopyN
<1> QED
  BY <1>1, <1>2, <1>4, <1>5 DEF LoadOK

\* The page asks for a load, or its load arrives.
LEMMA LoadsMore ==
    ASSUME TableInv, LoadsInv, Grows, NEW p \in Pages,
           loads' = [loads EXCEPT ![p] = @ \cup {AreasData}]
    PROVE  LoadsInv'
<1>1. LoadOK(AreasData) /\ AreasData \in LoadN
  BY AreasDataOK DEF LoadOK
<1>2. loads' \in [Pages -> SUBSET LoadN]
  BY <1>1 DEF LoadsInv
<1>3. ASSUME NEW q \in Pages, NEW l \in loads'[q] PROVE LoadOK(l)
  BY <1>1 DEF LoadsInv
<1>4. \A q \in Pages : \A l \in loads'[q] : LoadOK(l)'
  BY <1>3, LoadStays
<1> QED
  BY <1>2, <1>4 DEF LoadsInv

LEMMA LoadDataStep == ASSUME DirectoryInv, NEW p \in Pages, LoadData(p) PROVE DirectoryInv'
<1>1. /\ UNCHANGED <<table, stores, pageVars, requests>> /\ Spend("loads")
      /\ loads' = [loads EXCEPT ![p] = @ \cup {AreasData}]
  BY DEF LoadData
<1>2. TableInv' /\ Grows
  BY <1>1, TableSame DEF DirectoryInv
<1>3. UNCHANGED <<shown, offered, form, requests, ver, used>>
  BY <1>1 DEF pageVars, table
<1>4. PagesInv'
  BY <1>1, <1>2, <1>3, ShownSame, OfferedSame, FormSame, LoadsMore DEF PagesInv, DirectoryInv
<1>5. RequestsInv' /\ PostInv'
  BY <1>2, <1>3, RequestsFewer DEF DirectoryInv
<1>6. BudgetInv'
  BY <1>1, <1>3, BudgetSame DEF DirectoryInv
<1> QED
  BY <1>2, <1>4, <1>5, <1>6 DEF DirectoryInv

\* A page changes only its form.
LEMMA FormStep ==
    ASSUME DirectoryInv, UNCHANGED <<table, stores, shown, offered, loads, requests>>,
           UNCHANGED budget \/ Spend("edits"), FormInv'
    PROVE  DirectoryInv'
<1>1. UNCHANGED <<shown, offered, loads, requests, used, ver>>
  BY DEF table
<1>2. TableInv' /\ Grows
  BY TableSame DEF DirectoryInv
<1>3. PagesInv'
  BY <1>1, <1>2, ShownSame, OfferedSame, LoadsSame DEF PagesInv, DirectoryInv
<1>4. RequestsInv' /\ PostInv'
  BY <1>1, <1>2, RequestsFewer DEF DirectoryInv
<1>5. BudgetInv'
  BY <1>1, BudgetSame DEF DirectoryInv
<1> QED
  BY <1>2, <1>3, <1>4, <1>5 DEF DirectoryInv

\* One form is replaced by one that is in order.
LEMMA FormReplaced ==
    ASSUME TableInv, FormInv, Grows, NEW p \in Pages, NEW f \in FormN \cup {Closed},
           f # Closed => BodyOK(f) /\ FormTrue(f),
           form' = [form EXCEPT ![p] = f]
    PROVE  FormInv'
<1>1. form' \in [Pages -> FormN \cup {Closed}]
  BY DEF FormInv
<1>2. ASSUME NEW q \in Pages, form'[q] # Closed PROVE BodyOK(form'[q]) /\ FormTrue(form'[q])
  BY <1>2 DEF FormInv
<1>3. ASSUME NEW q \in Pages, form'[q] # Closed
      PROVE (BodyOK(form[q]) /\ FormTrue(form[q]))'
  <2>1. PICK g : g = form'[q]
    OBVIOUS
  <2>2. BodyOK(g) /\ FormTrue(g)
    BY <2>1, <1>2, <1>3
  <2>3. BodyOK(g)' /\ FormTrue(g)'
    BY <2>2, BodyStays
  <2> QED
    BY <2>1, <2>3 DEF BodyOK, FormTrue
<1> QED
  BY <1>1, <1>3 DEF FormInv

LEMMA CancelEditStep == ASSUME DirectoryInv, NEW p \in Pages, CancelEdit(p) PROVE DirectoryInv'
<1>1. /\ UNCHANGED <<table, stores, shown, offered, loads, requests, budget>>
      /\ form' = [form EXCEPT ![p] = Closed]
  BY DEF CancelEdit
<1>2. FormInv'
  BY <1>1, TableSame, FormReplaced DEF DirectoryInv, PagesInv
<1> QED
  BY <1>1, <1>2, FormStep

\* A form opens with what the page shows, which is true at the version it is of.
LEMMA OpenEditStep ==
    ASSUME DirectoryInv, NEW p \in Pages, NEW a \in Areas, OpenEdit(p, a) PROVE DirectoryInv'
<1> DEFINE copy == shown[p][a]
           row == copy.row
           store == IF row.store \in offered[p] THEN row.store ELSE 0
           f == [NewForm(a, store) EXCEPT !.active = row.active, !.ver = copy.ver]
<1>1. /\ UNCHANGED <<table, stores, shown, offered, loads, requests, budget>>
      /\ form' = [form EXCEPT ![p] = f] /\ row # NoRow
  BY DEF OpenEdit
<1>2. CopyOK(copy, a) /\ offered[p] \subseteq served /\ offered[p] \subseteq Stores
  BY DEF DirectoryInv, PagesInv, ShownInv, OfferedInv
<1>3. row \in Row /\ copy.ver \in Nat /\ copy.ver <= ver[a] /\ (copy.ver = ver[a] => row = areas[a])
  BY <1>1, <1>2 DEF CopyOK, CopyN
<1>4. row.active \in BOOLEAN
  BY <1>3 DEF Row
<1>5. store \in Stores \cup {0} /\ store \in served \cup {0} /\ (store # 0 => store = row.store)
  BY <1>2
<1> HIDE DEF store, row, copy
<1>6. /\ f \in FormN /\ f.area = a /\ f.store = store /\ f.active = row.active
      /\ f.ver = copy.ver /\ f.touched = {} /\ f.rerendered = FALSE
  BY <1>3, <1>4, <1>5 DEF NewForm, FormN
<1> HIDE DEF f
<1>7. BodyOK(f)
  BY <1>3, <1>5, <1>6 DEF BodyOK
<1>8. FormTrue(f)
  BY <1>3, <1>5, <1>6 DEF FormTrue
<1>9. FormInv'
  BY <1>1, <1>6, <1>7, <1>8, TableSame, FormReplaced DEF DirectoryInv, PagesInv
<1> QED
  BY <1>1, <1>9, FormStep

\* The operator sets a field, which counts as touched.
LEMMA EditStep ==
    ASSUME DirectoryInv, NEW p \in Pages,
           \/ \E b \in BOOLEAN : Edit(p, "active", b)
           \/ \E s \in Stores : Edit(p, "store", s)
    PROVE  DirectoryInv'
<1>1. form[p] # Closed => form[p] \in FormN /\ BodyOK(form[p]) /\ FormTrue(form[p])
  BY DEF DirectoryInv, PagesInv, FormInv
<1>2. ASSUME NEW f, f \in FormN, BodyOK(f), FormTrue(f), Spend("edits"),
             form' = [form EXCEPT ![p] = f],
             UNCHANGED <<table, stores, shown, offered, loads, requests>>
      PROVE DirectoryInv'
  <2>1. FormInv'
    BY <1>2, TableSame, FormReplaced DEF DirectoryInv, PagesInv
  <2> QED
    BY <1>2, <2>1, FormStep
<1>3. ASSUME NEW b \in BOOLEAN, Edit(p, "active", b) PROVE DirectoryInv'
  <2> DEFINE g == form[p]
             f == [g EXCEPT !["active"] = b, !.touched = @ \cup {"active"}]
  <2>1. /\ g \in FormN /\ BodyOK(g) /\ FormTrue(g) /\ form' = [form EXCEPT ![p] = f]
        /\ Spend("edits") /\ UNCHANGED <<table, stores, shown, offered, loads, requests>>
    <3>1. form' = [form EXCEPT ![p] = f]
      BY <1>3, Zenon DEF Edit
    <3>2. g # Closed /\ Spend("edits")
      BY <1>3, Zenon DEF Edit
    <3>3. UNCHANGED <<table, stores, shown, offered, loads, requests>>
      BY <1>3, Zenon DEF Edit
    <3> QED
      BY <3>1, <3>2, <3>3, <1>1
  <2> HIDE DEF g
  <2>2. /\ f \in FormN /\ f.area = g.area /\ f.store = g.store /\ f.ver = g.ver
        /\ f.rerendered = g.rerendered /\ f.touched = g.touched \cup {"active"}
    BY <2>1 DEF FormN
  <2> HIDE DEF f
  <2>3. BodyOK(f) /\ FormTrue(f)
    BY <2>1, <2>2 DEF BodyOK, FormTrue
  <2> QED
    BY <1>2, <2>1, <2>2, <2>3
<1>4. ASSUME NEW s \in Stores, Edit(p, "store", s) PROVE DirectoryInv'
  <2> DEFINE g == form[p]
             f == [g EXCEPT !["store"] = s, !.touched = @ \cup {"store"}]
  <2>1. /\ g \in FormN /\ BodyOK(g) /\ FormTrue(g) /\ form' = [form EXCEPT ![p] = f]
        /\ Spend("edits") /\ UNCHANGED <<table, stores, shown, offered, loads, requests>>
        /\ s \in offered[p]
    <3>1. form' = [form EXCEPT ![p] = f]
      BY <1>4, Zenon DEF Edit
    <3>2. g # Closed /\ Spend("edits") /\ s \in offered[p]
      BY <1>4, Zenon DEF Edit
    <3>3. UNCHANGED <<table, stores, shown, offered, loads, requests>>
      BY <1>4, Zenon DEF Edit
    <3> QED
      BY <3>1, <3>2, <3>3, <1>1
  <2>2. s \in served
    BY <2>1 DEF DirectoryInv, PagesInv, OfferedInv
  <2> HIDE DEF g
  <2>3. /\ f \in FormN /\ f.area = g.area /\ f.active = g.active /\ f.ver = g.ver /\ f.store = s
        /\ f.rerendered = g.rerendered /\ f.touched = g.touched \cup {"store"}
    BY <2>1 DEF FormN
  <2> HIDE DEF f
  <2>4. BodyOK(f) /\ FormTrue(f)
    BY <2>1, <2>2, <2>3 DEF BodyOK, FormTrue
  <2> QED
    BY <1>2, <2>1, <2>3, <2>4
<1> QED
  BY <1>3, <1>4

\* A load arrives: what was true when it was read is of an older version now, or true.
LEMMA LoadedStep ==
    ASSUME DirectoryInv, NEW p \in Pages, NEW l \in loads[p], Loaded(p, l) PROVE DirectoryInv'
<1> DEFINE g == form[p]
           f == IF g = Closed THEN Closed
                ELSE [g EXCEPT !.store = FirstOption(l.stores), !.rerendered = TRUE]
<1>1. /\ UNCHANGED <<table, stores, requests, budget>>
      /\ loads' = [loads EXCEPT ![p] = @ \ {l}]
      /\ shown' = [shown EXCEPT ![p] = l.areas]
      /\ offered' = [offered EXCEPT ![p] = l.stores]
      /\ form' = [form EXCEPT ![p] = f]
  BY DEF Loaded
<1>2. TableInv /\ TableInv' /\ Grows /\ UNCHANGED <<requests, used, ver>>
  BY <1>1, TableSame DEF DirectoryInv, table
<1>3. LoadOK(l) /\ l \in LoadN /\ l.areas \in [Areas -> CopyN] /\ l.stores \subseteq Stores
  BY DEF DirectoryInv, PagesInv, LoadsInv, LoadOK, LoadN
<1>4. ShownInv'
  <2>1. shown' \in [Pages -> [Areas -> CopyN]]
    BY <1>1, <1>3 DEF DirectoryInv, PagesInv, ShownInv
  <2>2. ASSUME NEW q \in Pages, NEW a \in Areas PROVE CopyOK(shown[q][a], a)'
    <3>1. PICK c : c = shown'[q][a]
      OBVIOUS
    <3>2. CopyOK(c, a)
      BY <3>1, <1>1, <1>3 DEF DirectoryInv, PagesInv, ShownInv, LoadOK
    <3>3. CopyOK(c, a)'
      BY <3>2, <1>2, CopyStays
    <3> QED
      BY <3>1, <3>3 DEF CopyOK
  <2> QED
    BY <2>1, <2>2 DEF ShownInv
<1>5. OfferedInv'
  BY <1>1, <1>2, <1>3 DEF DirectoryInv, PagesInv, OfferedInv, LoadOK, Grows
<1>6. LoadsInv'
  <2>1. /\ loads' \in [Pages -> SUBSET LoadN]
        /\ \A q \in Pages : \A k \in loads'[q] : LoadOK(k)
    BY <1>1 DEF DirectoryInv, PagesInv, LoadsInv
  <2>2. \A q \in Pages : \A k \in loads'[q] : LoadOK(k)'
    BY <2>1, <1>2, LoadStays
  <2> QED
    BY <2>1, <2>2 DEF LoadsInv
<1>7. f # Closed => f \in FormN /\ BodyOK(f) /\ FormTrue(f)
  <2> SUFFICES ASSUME g # Closed
               PROVE f \in FormN /\ BodyOK(f) /\ FormTrue(f)
    OBVIOUS
  <2>1. g \in FormN /\ BodyOK(g)
    BY DEF DirectoryInv, PagesInv, FormInv
  <2>2. FirstOption(l.stores) \in Stores \cup {0} /\ FirstOption(l.stores) \in served \cup {0}
    BY <1>3, FirstOptionIn DEF LoadOK
  <2> HIDE DEF g
  <2>3. /\ f \in FormN /\ f.area = g.area /\ f.ver = g.ver /\ f.rerendered = TRUE
        /\ f.store = FirstOption(l.stores)
    BY <2>1, <2>2 DEF FormN
  <2> HIDE DEF f
  <2> QED
    BY <2>1, <2>2, <2>3 DEF BodyOK, FormTrue
<1>8. FormInv'
  <2> HIDE DEF f
  <2>1. f \in FormN \cup {Closed}
    BY <1>7
  <2> QED
    BY <2>1, <1>1, <1>2, <1>7, FormReplaced DEF DirectoryInv, PagesInv
<1>9. RequestsInv' /\ PostInv'
  BY <1>2, RequestsFewer DEF DirectoryInv
<1>10. BudgetInv'
  BY <1>1, <1>2, BudgetSame DEF DirectoryInv
<1> QED
  BY <1>2, <1>4, <1>5, <1>6, <1>8, <1>9, <1>10 DEF DirectoryInv, PagesInv

\* A page sends a request that is in order.
LEMMA SendStep ==
    ASSUME DirectoryInv, NEW p, NEW op, NEW body, Send(p, op, body),
           RequestOK([page |-> p, op |-> op, body |-> body, state |-> "sent"]),
           op = "POST" => body.area \notin used /\ \A r \in requests : r.body.area # body.area
    PROVE  DirectoryInv'
<1> DEFINE new == [page |-> p, op |-> op, body |-> body, state |-> "sent"]
<1>1. /\ UNCHANGED <<table, stores, pageVars, loads>> /\ Spend("writes")
      /\ requests' = requests \cup {new}
  BY DEF Send
<1>2. TableInv /\ TableInv' /\ Grows /\ UNCHANGED <<used, ver>>
  BY <1>1, TableSame DEF DirectoryInv, table
<1>3. PagesInv'
  BY <1>1, <1>2, PagesSame DEF DirectoryInv
<1>4. RequestOK(new) /\ new.op = op /\ new.body = body /\ new.state = "sent"
  OBVIOUS
<1> HIDE DEF new
<1>5. RequestsInv'
  <2>1. \A r \in requests' : RequestOK(r)
    BY <1>1, <1>4 DEF DirectoryInv, RequestsInv
  <2> QED
    BY <2>1, <1>2, RequestStays DEF RequestsInv
<1>6. PostInv'
  BY <1>1, <1>2, <1>4 DEF DirectoryInv, PostInv
<1>7. BudgetInv'
  <2>1. IsFiniteSet(requests) /\ IsFiniteSet(requests')
    BY <1>1, FS_AddElement DEF DirectoryInv, BudgetInv
  <2>2. /\ budget' \in [writes : 0 .. MaxWrites, edits : 0 .. MaxEdits,
                        loads : 0 .. MaxLoads, moves : 0 .. MaxMoves]
        /\ budget'.writes = budget.writes - 1 /\ budget.writes \in Nat
    BY <1>1, Spent DEF DirectoryInv
  <2>3. ASSUME NEW a \in Areas
        PROVE ver'[a] + Cardinality(Pending(a)') + budget'.writes <= MaxWrites
    <3>1. Pending(a)' \subseteq Pending(a) \cup {new}
      BY <1>1 DEF Pending
    <3>2. IsFiniteSet(Pending(a))
      <4>1. Pending(a) \in SUBSET requests
        BY DEF Pending
      <4> QED
        BY <4>1, <2>1, FS_Subset
    <3>3. /\ IsFiniteSet(Pending(a) \cup {new}) /\ Cardinality(Pending(a)) \in Nat
          /\ Cardinality(Pending(a) \cup {new}) <= Cardinality(Pending(a)) + 1
      <4>1. Cardinality(Pending(a)) \in Nat
        BY <3>2, FS_CardinalityType
      <4>2. /\ IsFiniteSet(Pending(a) \cup {new})
            /\ \/ Cardinality(Pending(a) \cup {new}) = Cardinality(Pending(a))
               \/ Cardinality(Pending(a) \cup {new}) = Cardinality(Pending(a)) + 1
        BY <3>2, FS_AddElement
      <4> QED
        BY <4>1, <4>2
    <3>4. /\ Cardinality(Pending(a)') <= Cardinality(Pending(a) \cup {new})
          /\ IsFiniteSet(Pending(a)')
      BY <3>1, <3>3, FS_Subset
    <3>5. Cardinality(Pending(a)') \in Nat /\ Cardinality(Pending(a) \cup {new}) \in Nat
      BY <3>3, <3>4, FS_CardinalityType
    <3>6. ver[a] \in Nat /\ ver[a] + Cardinality(Pending(a)) + budget.writes <= MaxWrites
      BY DEF DirectoryInv, TableInv, BudgetInv
    <3> QED
      BY <3>3, <3>4, <3>5, <3>6, <2>2, <1>2, DirectoryAssumption
  <2> QED
    BY <2>1, <2>2, <2>3 DEF BudgetInv
<1> QED
  BY <1>2, <1>3, <1>5, <1>6, <1>7 DEF DirectoryInv

LEMMA AddAreaStep ==
    ASSUME DirectoryInv, NEW p \in Pages, NEW a \in Areas, NEW s \in Stores, AddArea(p, a, s)
    PROVE  DirectoryInv'
<1> DEFINE body == NewForm(a, s)
           new == [page |-> p, op |-> "POST", body |-> body, state |-> "sent"]
<1>1. /\ s \in offered[p] /\ Send(p, "POST", body)
      /\ a \notin used /\ \A r \in requests : r.body.area # a
  BY DEF AddArea
<1>2. s \in served /\ s # 0 /\ ver[a] \in Nat /\ areas[a] = NoRow
  BY <1>1, DirectoryAssumption DEF DirectoryInv, PagesInv, OfferedInv, TableInv
<1>3. body \in FormN /\ body.area = a /\ body.store = s /\ body.ver = 0
  BY DEF NewForm, FormN
<1> HIDE DEF body
<1>4. BodyOK(body)
  BY <1>2, <1>3 DEF BodyOK
<1>5. RequestOK(new)
  BY <1>2, <1>3, <1>4 DEF RequestOK, RequestN
<1> QED
  BY <1>1, <1>3, <1>5, SendStep

LEMMA SaveEditStep == ASSUME DirectoryInv, NEW p \in Pages, SaveEdit(p) PROVE DirectoryInv'
<1> DEFINE new == [page |-> p, op |-> "PUT", body |-> form[p], state |-> "sent"]
<1>1. /\ Send(p, "PUT", form[p]) /\ form[p] \in FormN /\ BodyOK(form[p]) /\ FormTrue(form[p])
  BY DEF SaveEdit, DirectoryInv, PagesInv, FormInv
<1>2. RequestOK(new)
  BY <1>1 DEF RequestOK, RequestN
<1> QED
  BY <1>1, <1>2, SendStep

LEMMA DeleteAreaClickStep ==
    ASSUME DirectoryInv, NEW p \in Pages, NEW a \in Areas, DeleteAreaClick(p, a)
    PROVE  DirectoryInv'
<1> DEFINE body == [NewForm(a, 0) EXCEPT !.ver = shown[p][a].ver]
           new == [page |-> p, op |-> "DELETE", body |-> body, state |-> "sent"]
<1>1. Send(p, "DELETE", body)
  BY DEF DeleteAreaClick
<1>2. shown[p][a].ver \in Nat /\ shown[p][a].ver <= ver[a]
  BY DEF DirectoryInv, PagesInv, ShownInv, CopyOK, CopyN
<1>3. body \in FormN /\ body.area = a /\ body.store = 0 /\ body.ver = shown[p][a].ver
  BY <1>2 DEF NewForm, FormN
<1> HIDE DEF body
<1>4. BodyOK(body)
  BY <1>2, <1>3 DEF BodyOK
<1>5. RequestOK(new)
  BY <1>3, <1>4 DEF RequestOK, RequestN
<1> QED
  BY <1>1, <1>5, SendStep

-----------------------------------------------------------------------------
(* The steps of the server.                                                *)

\* A request writes its row.
LEMMA WriteStep ==
    ASSUME DirectoryInv, NEW r \in requests, r.state = "sent",
           NEW row \in Row \cup {NoRow}, row # NoRow => row.store \in served, Write(r, row),
           \/ used' = used /\ (row # NoRow => r.body.area \in used)
           \/ used' = used \cup {r.body.area} /\ r.op = "POST"
    PROVE  DirectoryInv'
<1> DEFINE a == r.body.area
           done == [r EXCEPT !.state = "ok"]
<1>1. /\ areas' = [areas EXCEPT ![a] = row] /\ ver' = [ver EXCEPT ![a] = @ + 1]
      /\ requests' = (requests \ {r}) \cup {done}
      /\ UNCHANGED <<stores, pageVars, loads, budget>>
  BY DEF Write
<1>2. r \in RequestN /\ RequestOK(r) /\ BodyOK(r.body) /\ a \in Areas /\ r.body.ver \in Nat
  BY DEF DirectoryInv, RequestsInv, RequestOK, BodyOK, FormN
<1>3. /\ done \in RequestN /\ done.state = "ok" /\ done.body = r.body /\ done.op = r.op
  BY <1>2 DEF RequestN
<1> HIDE DEF done
<1> PICK x \in Areas : x = r.body.area
  BY <1>2
<1>4. /\ areas \in [Areas -> Row \cup {NoRow}] /\ ver \in [Areas -> Nat] /\ used \in SUBSET Areas
      /\ \A b \in Areas \ used : areas[b] = NoRow /\ served \in SUBSET Stores
      /\ active \subseteq served /\ \A b \in Areas : areas[b] # NoRow => areas[b].store \in served
  BY DEF DirectoryInv, TableInv
<1>5. /\ areas' \in [Areas -> Row \cup {NoRow}] /\ ver' \in [Areas -> Nat]
      /\ areas'[x] = row /\ ver'[x] = ver[x] + 1
      /\ \A b \in Areas : b # x => areas'[b] = areas[b] /\ ver'[b] = ver[b]
  BY <1>1, <1>4
<1>6. UNCHANGED <<active, served>>
  BY <1>1 DEF stores
<1>7. used' \in SUBSET Areas /\ used \subseteq used' /\ (row # NoRow => x \in used')
  BY <1>4
<1>8. TableInv
  BY DEF DirectoryInv
<1>9. Grows
  BY <1>5, <1>6 DEF Grows
<1>10. TableInv'
  <2>1. \A b \in Areas \ used' : areas'[b] = NoRow
    BY <1>4, <1>5, <1>7
  <2>2. \A b \in Areas : areas'[b] # NoRow => areas'[b].store \in served
    BY <1>4, <1>5
  <2>3. served \in SUBSET Stores /\ active \subseteq served
    BY DEF DirectoryInv, TableInv
  <2> QED
    BY <2>1, <2>2, <2>3, <1>5, <1>6, <1>7 DEF TableInv
<1>11. PagesInv'
  BY <1>1, <1>8, <1>9, PagesSame DEF DirectoryInv
<1>12. RequestsInv'
  <2>1. \A q \in requests : RequestOK(q)'
    BY <1>8, <1>9, RequestStays DEF DirectoryInv, RequestsInv
  <2>2. RequestOK(r)'
    BY <2>1
  <2>3. done.body.ver < ver'[done.body.area]
    <3>1. r.body.ver <= ver[x] /\ ver[x] \in Nat
      BY <1>2, <1>4 DEF BodyOK
    <3> QED
      BY <3>1, <1>2, <1>3, <1>5
  <2>4. RequestOK(done)'
    BY <2>2, <2>3, <1>3 DEF RequestOK
  <2> QED
    BY <2>1, <2>4, <1>1 DEF RequestsInv
<1>13. PostInv'
  <2>1. \A q \in requests' : q.state = "sent" => q \in requests /\ q # r
    BY <1>1, <1>3
  <2>2. ASSUME NEW q \in requests', q.op = "POST", q.state = "sent"
        PROVE q.body.area \notin used'
    <3>1. q \in requests /\ q # r
      BY <2>1, <2>2
    <3>2. q.body.area \notin used
      BY <3>1, <2>2 DEF DirectoryInv, PostInv
    <3>3. r.op = "POST" => q.body.area # r.body.area
      BY <3>1, <2>2 DEF DirectoryInv, PostInv
    <3> QED
      BY <3>2, <3>3
  <2>3. ASSUME NEW q \in requests', q.op = "POST", q.state = "sent",
               NEW s \in requests', s.op = "POST", s.state = "sent", s.body.area = q.body.area
        PROVE s = q
    BY <2>1, <2>3 DEF DirectoryInv, PostInv
  <2> QED
    BY <2>2, <2>3 DEF PostInv
<1>14. BudgetInv'
  <2>1. IsFiniteSet(requests) /\ IsFiniteSet(requests')
    BY <1>1, FS_AddElement, FS_RemoveElement DEF DirectoryInv, BudgetInv
  <2>2. ASSUME NEW b \in Areas
        PROVE ver'[b] + Cardinality(Pending(b)') + budget.writes <= MaxWrites
    <3>1. Pending(b)' = IF b = x THEN Pending(b) \ {r} ELSE Pending(b)
      BY <1>1, <1>3 DEF Pending
    <3>2. IsFiniteSet(Pending(b))
      <4>1. Pending(b) \in SUBSET requests
        BY DEF Pending
      <4> QED
        BY <4>1, <2>1, FS_Subset
    <3>3. /\ Cardinality(Pending(b)) \in Nat
          /\ r \in Pending(b) => Cardinality(Pending(b) \ {r}) = Cardinality(Pending(b)) - 1
      BY <3>2, FS_RemoveElement, FS_CardinalityType
    <3>4. b = x => r \in Pending(b)
      BY DEF Pending
    <3>5. /\ ver[b] \in Nat /\ budget.writes \in Nat
          /\ ver[b] + Cardinality(Pending(b)) + budget.writes <= MaxWrites
      BY DirectoryAssumption DEF DirectoryInv, TableInv, BudgetInv
    <3>6. CASE b = x
      BY <3>1, <3>3, <3>4, <3>5, <3>6, <1>5, DirectoryAssumption
    <3>7. CASE b # x
      BY <3>1, <3>5, <3>7, <1>5
    <3> QED
      BY <3>6, <3>7
  <2> QED
    BY <2>1, <2>2, <1>1 DEF DirectoryInv, BudgetInv
<1> QED
  BY <1>10, <1>11, <1>12, <1>13, <1>14 DEF DirectoryInv

LEMMA RequestWrites ==
    ASSUME DirectoryInv, NEW r \in requests, CreateArea(r) \/ UpdateArea(r) \/ DeleteArea(r)
    PROVE  DirectoryInv'
<1>1. /\ RequestOK(r) /\ r.body \in FormN /\ r.body.store \in served \cup {0}
      /\ r.body.area \in Areas /\ r.body.active \in BOOLEAN
  BY DEF DirectoryInv, RequestsInv, RequestOK, BodyOK, FormN
<1>2. /\ served \subseteq Stores
      /\ \A a \in Areas : areas[a] # NoRow => a \in used
  BY DEF DirectoryInv, TableInv
<1>3. r.body.store # 0 => BodyRow(r) \in Row /\ BodyRow(r).store \in served
  BY <1>1, <1>2 DEF BodyRow, Row
<1>4. CASE CreateArea(r)
  <2>1. r.body.store # 0
    BY <1>1, <1>4 DEF RequestOK, CreateArea
  <2> QED
    BY <2>1, <1>3, <1>4, WriteStep DEF CreateArea
<1>5. CASE UpdateArea(r)
  <2>1. CASE areas[r.body.area] = NoRow
    BY <2>1, <1>5, WriteStep DEF UpdateArea
  <2>2. CASE areas[r.body.area] # NoRow
    <3>1. r.state = "sent" /\ Write(r, BodyRow(r)) /\ used' = used /\ r.body.store # 0
      BY <2>2, <1>5 DEF UpdateArea
    <3> QED
      BY <3>1, <2>2, <1>1, <1>2, <1>3, WriteStep
  <2> QED
    BY <2>1, <2>2
<1>6. CASE DeleteArea(r)
  BY <1>6, WriteStep DEF DeleteArea
<1> QED
  BY <1>4, <1>5, <1>6

LEMMA RefuseUpdateStep == ASSUME DirectoryInv, NEW r \in requests, RefuseUpdate(r) PROVE DirectoryInv'
<1>1. /\ UNCHANGED <<table, stores, pageVars, loads, budget>> /\ requests' \subseteq requests
      /\ UNCHANGED <<ver, used>>
  BY DEF RefuseUpdate, table
<1>2. TableInv /\ TableInv' /\ Grows
  BY <1>1, TableSame DEF DirectoryInv
<1>3. PagesInv' /\ RequestsInv' /\ PostInv'
  BY <1>1, <1>2, PagesSame, RequestsFewer DEF DirectoryInv
<1>4. budget' = budget /\ budget.writes \in Nat
  BY <1>1, DirectoryAssumption DEF DirectoryInv, BudgetInv
<1>5. BudgetInv'
  BY <1>1, <1>2, <1>4, BudgetFewer DEF DirectoryInv, BudgetInv
<1> QED
  BY <1>2, <1>3, <1>5 DEF DirectoryInv

\* The page hears that its write is done, hides its form and loads again.
LEMMA AnsweredStep == ASSUME DirectoryInv, NEW r \in requests, Answered(r) PROVE DirectoryInv'
<1>1. /\ UNCHANGED <<table, stores, shown, offered, budget>> /\ requests' \subseteq requests
      /\ UNCHANGED <<ver, used>>
      /\ loads' = [loads EXCEPT ![r.page] = @ \cup {AreasData}]
  BY DEF Answered, table
<1>2. TableInv /\ TableInv' /\ Grows
  BY <1>1, TableSame DEF DirectoryInv
<1>3. r.page \in Pages
  BY DEF DirectoryInv, RequestsInv, RequestOK, RequestN
<1>4. FormInv'
  <2>1. CASE r.op = "PUT"
    <3>1. form' = [form EXCEPT ![r.page] = Closed]
      BY <2>1 DEF Answered
    <3> QED
      BY <3>1, <1>2, <1>3, FormReplaced DEF DirectoryInv, PagesInv
  <2>2. CASE r.op # "PUT"
    <3>1. UNCHANGED form
      BY <2>2, <1>3 DEF Answered, DirectoryInv, PagesInv, FormInv
    <3> QED
      BY <3>1, <1>2, FormSame DEF DirectoryInv, PagesInv
  <2> QED
    BY <2>1, <2>2
<1>5. PagesInv'
  BY <1>1, <1>2, <1>3, <1>4, ShownSame, OfferedSame, LoadsMore DEF DirectoryInv, PagesInv
<1>6. RequestsInv' /\ PostInv'
  BY <1>1, <1>2, RequestsFewer DEF DirectoryInv
<1>7. budget' = budget /\ budget.writes \in Nat
  BY <1>1, DirectoryAssumption DEF DirectoryInv, BudgetInv
<1>8. BudgetInv'
  BY <1>1, <1>2, <1>7, BudgetFewer DEF DirectoryInv, BudgetInv
<1> QED
  BY <1>2, <1>5, <1>6, <1>8 DEF DirectoryInv

LEMMA SetStoreActiveStep ==
    ASSUME DirectoryInv, NEW s \in Stores, SetStoreActive(s) PROVE DirectoryInv'
<1>1. /\ UNCHANGED <<table, pageVars, loads, requests>> /\ Spend("moves")
      /\ served' = served \cup active' /\ active' \subseteq active \cup {s}
      /\ UNCHANGED <<areas, ver, used, requests>>
  BY DEF SetStoreActive, table
<1>2. TableInv
  BY DEF DirectoryInv
<1>3. TableInv' /\ Grows
  BY <1>1, <1>2 DEF TableInv, Grows
<1>4. PagesInv' /\ RequestsInv' /\ PostInv'
  BY <1>1, <1>2, <1>3, PagesSame, RequestsFewer DEF DirectoryInv
<1>5. BudgetInv'
  BY <1>1, <1>2, BudgetSame DEF DirectoryInv
<1> QED
  BY <1>3, <1>4, <1>5 DEF DirectoryInv

LEMMA StutterStep == ASSUME DirectoryInv, UNCHANGED vars PROVE DirectoryInv'
<1>1. /\ UNCHANGED <<table, stores, shown, offered, loads, requests, budget>> /\ UNCHANGED form
  BY DEF vars, pageVars
<1>2. FormInv'
  BY <1>1, TableSame, FormSame DEF DirectoryInv, PagesInv
<1> QED
  BY <1>1, <1>2, FormStep

LEMMA InitDirectory == Init => DirectoryInv
<1> SUFFICES ASSUME Init PROVE DirectoryInv
  OBVIOUS
<1>1. /\ areas = [a \in Areas |-> IF a \in Seeded THEN [store |-> 1, active |-> TRUE] ELSE NoRow]
      /\ used = Seeded /\ ver = [a \in Areas |-> 0] /\ active = Opened /\ served = Opened
      /\ shown = [p \in Pages |-> [a \in Areas |-> [row |-> areas[a], ver |-> 0]]]
      /\ offered = [p \in Pages |-> Opened] /\ form = [p \in Pages |-> Closed]
      /\ loads = [p \in Pages |-> {}] /\ requests = {}
      /\ budget = [writes |-> MaxWrites, edits |-> MaxEdits, loads |-> MaxLoads, moves |-> MaxMoves]
  BY DEF Init
<1>2. TableInv
  <2>1. [store |-> 1, active |-> TRUE] \in Row
    BY DirectoryAssumption DEF Row
  <2> QED
    BY <1>1, <2>1, DirectoryAssumption DEF TableInv
<1>3. ShownInv
  <2>1. \A a \in Areas : areas[a] \in Row \cup {NoRow} /\ ver[a] = 0
    BY <1>1, <1>2 DEF TableInv
  <2>2. \A p \in Pages, a \in Areas : shown[p][a] = [row |-> areas[a], ver |-> 0]
    BY <1>1
  <2>3. \A a \in Areas : CopyOK([row |-> areas[a], ver |-> 0], a)
    BY <2>1 DEF CopyOK, CopyN
  <2>4. shown \in [Pages -> [Areas -> CopyN]]
    BY <1>1, <2>1 DEF CopyN
  <2> QED
    BY <2>2, <2>3, <2>4 DEF ShownInv
<1>4. OfferedInv /\ FormInv /\ LoadsInv
  BY <1>1, DirectoryAssumption DEF OfferedInv, FormInv, LoadsInv
<1>5. RequestsInv /\ PostInv
  BY <1>1 DEF RequestsInv, PostInv
<1>6. BudgetInv
  <2>1. \A a \in Areas : Pending(a) = {} /\ ver[a] = 0
    BY <1>1 DEF Pending
  <2> QED
    <3>1. IsFiniteSet(requests) /\ \A a \in Areas : Cardinality(Pending(a)) = 0
      BY <2>1, <1>1, FS_EmptySet
    <3>2. budget.writes = MaxWrites
      BY <1>1
    <3> QED
      BY <2>1, <3>1, <3>2, <1>1, DirectoryAssumption DEF BudgetInv
<1> QED
  BY <1>2, <1>3, <1>4, <1>5, <1>6 DEF DirectoryInv, PagesInv

\* The inductive invariant holds of every behaviour.
THEOREM DirectoryInvHolds == Spec => []DirectoryInv
<1>1. DirectoryInv /\ [Next]_vars => DirectoryInv'
  <2> SUFFICES ASSUME DirectoryInv, [Next]_vars PROVE DirectoryInv'
    OBVIOUS
  <2>1. ASSUME NEW p \in Pages, PageStep(p) PROVE DirectoryInv'
    BY <2>1, LoadDataStep, CancelEditStep, SaveEditStep, LoadedStep, OpenEditStep,
       DeleteAreaClickStep, EditStep, AddAreaStep DEF PageStep
  <2>2. ASSUME NEW r \in requests, RequestStep(r) PROVE DirectoryInv'
    BY <2>2, RequestWrites, RefuseUpdateStep, AnsweredStep DEF RequestStep
  <2> QED
    BY <2>1, <2>2, SetStoreActiveStep, StutterStep DEF Next
<1> QED
  BY <1>1, InitDirectory, PTL DEF Spec

-----------------------------------------------------------------------------
(* The theorems.                                                           *)

\* No row is written more often than writes were sent.
LEMMA VersionsBounded == ASSUME DirectoryInv PROVE ver \in [Areas -> 0 .. MaxWrites]
<1>1. ASSUME NEW a \in Areas PROVE ver[a] \in 0 .. MaxWrites
  <2>1. Pending(a) \in SUBSET requests
    BY DEF Pending
  <2>2. IsFiniteSet(Pending(a))
    BY <2>1, FS_Subset DEF DirectoryInv, BudgetInv
  <2>3. Cardinality(Pending(a)) \in Nat
    BY <2>2, FS_CardinalityType
  <2>4. /\ ver[a] \in Nat /\ budget.writes \in Nat
        /\ ver[a] + Cardinality(Pending(a)) + budget.writes <= MaxWrites
    BY DirectoryAssumption DEF DirectoryInv, TableInv, BudgetInv
  <2> QED
    BY <2>3, <2>4, DirectoryAssumption
<1> QED
  BY <1>1 DEF DirectoryInv, TableInv

\* The table, the pages and the requests keep their types; no version on a page or
\* in a request is beyond those the bound allows.
THEOREM DirectoryTypeCorrect == Spec => []TypeOK
<1>1. DirectoryInv => TypeOK
  <2> SUFFICES ASSUME DirectoryInv PROVE TypeOK
    OBVIOUS
  <2>1. ver \in [Areas -> 0 .. MaxWrites]
    BY VersionsBounded
  <2>2. ASSUME NEW a \in Areas, NEW c, CopyOK(c, a) PROVE c \in Copy
    <3>1. c \in CopyN /\ c.ver \in Nat /\ c.ver <= ver[a] /\ ver[a] \in 0 .. MaxWrites
      BY <2>1, <2>2 DEF CopyOK, CopyN
    <3>2. c.ver \in 0 .. MaxWrites
      BY <3>1, DirectoryAssumption
    <3> QED
      BY <3>1, <3>2 DEF CopyN, Copy
  <2>3. ASSUME NEW b, BodyOK(b) PROVE b \in Form
    <3>1. b \in FormN /\ b.ver \in Nat /\ b.ver <= ver[b.area] /\ b.area \in Areas
      BY <2>3 DEF BodyOK, FormN
    <3>2. b.ver \in 0 .. MaxWrites
      <4>1. ver[b.area] \in 0 .. MaxWrites
        BY <2>1, <3>1
      <4> QED
        BY <4>1, <3>1, DirectoryAssumption
    <3> QED
      BY <3>1, <3>2 DEF FormN, Form
  <2>4. shown \in [Pages -> [Areas -> Copy]]
    BY <2>2 DEF DirectoryInv, PagesInv, ShownInv
  <2>5. form \in [Pages -> Form \cup {Closed}]
    BY <2>3 DEF DirectoryInv, PagesInv, FormInv
  <2>6. ASSUME NEW p \in Pages, NEW l \in loads[p]
        PROVE l.areas \in [Areas -> Copy] /\ l.stores \in SUBSET Stores
    <3>1. LoadOK(l)
      BY DEF DirectoryInv, PagesInv, LoadsInv
    <3>2. l.areas \in [Areas -> CopyN] /\ l.stores \in SUBSET Stores
      BY <3>1 DEF LoadOK, LoadN
    <3> QED
      BY <3>1, <3>2, <2>2 DEF LoadOK
  <2>7. ASSUME NEW r \in requests
        PROVE /\ r.page \in Pages /\ r.op \in {"POST", "PUT", "DELETE"}
              /\ r.body \in Form /\ r.state \in {"sent", "ok"}
    <3>1. r \in RequestN /\ BodyOK(r.body)
      BY DEF DirectoryInv, RequestsInv, RequestOK
    <3> QED
      BY <3>1, <2>3 DEF RequestN
  <2> QED
    BY <2>1, <2>4, <2>5, <2>6, <2>7
       DEF TypeOK, DirectoryInv, TableInv, PagesInv, OfferedInv, BudgetInv
<1> QED
  BY <1>1, DirectoryInvHolds, PTL

\* No address is ever resolved to a store that has not been active yet, whatever the
\* pages' copies, forms and late requests carry.
THEOREM ResolvedStoresHaveServed == Spec => []ResolvedHasServed
<1>1. DirectoryInv => ResolvedHasServed
  <2> SUFFICES ASSUME DirectoryInv PROVE ResolvedHasServed
    OBVIOUS
  <2>1. ResolveTakeout \in served \cup {0}
    <3>1. active \in SUBSET Stores /\ active \subseteq served
      BY DEF DirectoryInv, TableInv
    <3> QED
      BY <3>1, FirstOptionIn DEF ResolveTakeout
  <2>2. ASSUME NEW address \in Addresses PROVE Resolve(address) \in served \cup {0}
    <3> DEFINE matched == {a \in Listed : address \in Covers[a]}
    <3>1. matched \in SUBSET Nat /\ matched \subseteq Listed
      BY DirectoryAssumption DEF Listed
    <3>2. CASE matched # {}
      <4> HIDE DEF matched
      <4>1. Min(matched) \in Listed
        BY <3>1, <3>2, MinIsLeast
      <4>2. areas[Min(matched)].store \in served
        BY <4>1 DEF Listed, DirectoryInv, TableInv
      <4> QED
        BY <4>2, <3>2 DEF Resolve, matched
    <3>3. CASE matched = {}
      BY <3>3 DEF Resolve
    <3> QED
      BY <3>2, <3>3
  <2> QED
    BY <2>1, <2>2 DEF ResolvedHasServed
<1> QED
  BY <1>1, DirectoryInvHolds, PTL

\* A deleted area stays deleted: ids are not given out twice, and an update of a row
\* that is gone does nothing.
THEOREM DeletedStays == Spec => DeletedForGood
<1>1. DirectoryInv /\ [Next]_vars => [\A a \in used : areas[a] = NoRow => areas'[a] = NoRow]_vars
  <2> SUFFICES ASSUME DirectoryInv, Next, NEW a \in used, areas[a] = NoRow
               PROVE areas'[a] = NoRow
    OBVIOUS
  <2>1. a \in Areas /\ areas \in [Areas -> Row \cup {NoRow}]
    BY DEF DirectoryInv, TableInv
  <2>2. CASE \E p \in Pages : PageStep(p)
    BY <2>2 DEF PageStep, LoadData, CancelEdit, SaveEdit, Loaded, OpenEdit, DeleteAreaClick,
                Edit, AddArea, Send, table
  <2>3. CASE \E s \in Stores : SetStoreActive(s)
    BY <2>3 DEF SetStoreActive, table
  <2>4. ASSUME NEW r \in requests, RequestStep(r) PROVE areas'[a] = NoRow
    <3>1. CASE CreateArea(r)
      <4>1. r.body.area # a
        BY <3>1 DEF CreateArea, DirectoryInv, PostInv
      <4> QED
        BY <4>1, <3>1, <2>1 DEF CreateArea, Write
    <3>2. CASE UpdateArea(r)
      BY <3>2, <2>1 DEF UpdateArea, Write
    <3>3. CASE DeleteArea(r)
      BY <3>3, <2>1 DEF DeleteArea, Write
    <3>4. CASE RefuseUpdate(r) \/ Answered(r)
      BY <3>4 DEF RefuseUpdate, Answered, table
    <3> QED
      BY <2>4, <3>1, <3>2, <3>3, <3>4 DEF RequestStep
  <2> QED
    BY <2>2, <2>3, <2>4 DEF Next
<1> QED
  BY <1>1, DirectoryInvHolds, PTL DEF Spec, DeletedForGood

\* A request that is done was the request it is the answer to.
LEMMA SameRequest ==
    ASSUME NEW q \in RequestN, NEW r \in RequestN, q.state = r.state,
           [q EXCEPT !.state = "ok"] = [r EXCEPT !.state = "ok"]
    PROVE  q = r
<1>1. q.page = r.page
  <2>1. [q EXCEPT !.state = "ok"].page = q.page /\ [r EXCEPT !.state = "ok"].page = r.page
    BY DEF RequestN
  <2> QED
    BY <2>1
<1>2. q.op = r.op
  <2>1. [q EXCEPT !.state = "ok"].op = q.op /\ [r EXCEPT !.state = "ok"].op = r.op
    BY DEF RequestN
  <2> QED
    BY <2>1
<1>3. q.body = r.body
  <2>1. [q EXCEPT !.state = "ok"].body = q.body /\ [r EXCEPT !.state = "ok"].body = r.body
    BY DEF RequestN
  <2> QED
    BY <2>1
<1> QED
  BY <1>1, <1>2, <1>3 DEF RequestN

\* An operator's save changes no field that was left alone, unless the row was written
\* after the page had read it or a late load refilled the open form.
THEOREM SavesKeepTheRest == Spec => UntouchedStays
<1> DEFINE Kept ==
      \A r \in requests :
          /\ r.op = "PUT" /\ r.state = "sent" /\ [r EXCEPT !.state = "ok"] \in requests'
          /\ r.body.ver = ver[r.body.area] /\ ~r.body.rerendered
          => \A field \in {"store", "active"} \ r.body.touched :
                areas'[r.body.area][field] = areas[r.body.area][field]
<1>1. DirectoryInv /\ [Next]_vars => [Kept]_vars
  <2> SUFFICES ASSUME DirectoryInv, Next, NEW r \in requests,
                      r.op = "PUT", r.state = "sent", [r EXCEPT !.state = "ok"] \in requests',
                      r.body.ver = ver[r.body.area], ~r.body.rerendered,
                      NEW field \in {"store", "active"} \ r.body.touched
               PROVE areas'[r.body.area][field] = areas[r.body.area][field]
    OBVIOUS
  <2> DEFINE done == [r EXCEPT !.state = "ok"]
  <2>1. \A q \in requests : q \in RequestN /\ RequestOK(q)
    BY DEF DirectoryInv, RequestsInv, RequestOK
  <2>2. done.state = "ok" /\ done.body = r.body
    BY <2>1 DEF RequestN
  <2>3. r.body.area \in Areas /\ ver[r.body.area] \in Nat /\ areas \in [Areas -> Row \cup {NoRow}]
    BY <2>1 DEF RequestOK, BodyOK, FormN, DirectoryInv, TableInv
  <2> HIDE DEF done
  <2>4. done \notin requests
    <3> SUFFICES ASSUME done \in requests PROVE FALSE
      OBVIOUS
    <3>1. done.body.ver < ver[done.body.area]
      BY <2>1, <2>2 DEF RequestOK
    <3> QED
      BY <3>1, <2>2, <2>3
  <2>5. done \in requests'
    BY DEF done
  <2>6. ~\E p \in Pages : PageStep(p)
    <3> SUFFICES ASSUME NEW p \in Pages, PageStep(p) PROVE FALSE
      OBVIOUS
    <3>1. ASSUME NEW op, NEW body, Send(p, op, body) PROVE FALSE
      <4>1. \A q \in requests' : q \in requests \/ q.state = "sent"
        BY <3>1 DEF Send
      <4> QED
        BY <4>1, <2>2, <2>4, <2>5
    <3>2. CASE UNCHANGED requests
      BY <3>2, <2>4, <2>5
    <3> QED
      BY <3>1, <3>2 DEF PageStep, LoadData, CancelEdit, SaveEdit, Loaded, OpenEdit,
                        DeleteAreaClick, Edit, AddArea
  <2>7. ~\E s \in Stores : SetStoreActive(s)
    BY <2>4, <2>5 DEF SetStoreActive
  <2>8. PICK q \in requests : RequestStep(q)
    BY <2>6, <2>7 DEF Next
  <2>9. ASSUME NEW row, Write(q, row), q.state = "sent" PROVE q = r
    <3>1. done \in (requests \ {q}) \cup {[q EXCEPT !.state = "ok"]}
      BY <2>5, <2>9 DEF Write
    <3>2. done = [q EXCEPT !.state = "ok"]
      BY <3>1, <2>4
    <3>3. [q EXCEPT !.state = "ok"] = [r EXCEPT !.state = "ok"]
      BY <3>2 DEF done
    <3>4. q \in RequestN /\ r \in RequestN /\ q.state = r.state
      BY <2>1, <2>9
    <3> QED
      BY <3>3, <3>4, SameRequest, Zenon
  <2>10. UpdateArea(r)
    BY <2>4, <2>5, <2>8, <2>9 DEF RequestStep, CreateArea, UpdateArea, DeleteArea,
                                  RefuseUpdate, Answered
  <2>11. CASE areas[r.body.area] = NoRow
    BY <2>3, <2>10, <2>11 DEF UpdateArea, Write
  <2>12. CASE areas[r.body.area] # NoRow
    <3>1. areas'[r.body.area] = BodyRow(r) /\ r.body.store # 0
      BY <2>3, <2>10, <2>12 DEF UpdateArea, Write
    <3>2. FormTrue(r.body)
      BY <2>1 DEF RequestOK
    <3>3. CASE field = "store"
      BY <3>1, <3>2, <3>3, <2>12 DEF FormTrue, BodyRow
    <3>4. CASE field = "active"
      BY <3>1, <3>2, <3>4, <2>12 DEF FormTrue, BodyRow
    <3> QED
      BY <3>3, <3>4
  <2> QED
    BY <2>11, <2>12
<1> QED
  BY <1>1, DirectoryInvHolds, PTL DEF Spec, UntouchedStays

=============================================================================
