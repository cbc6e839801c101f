-------------------------- MODULE StoreDirectory --------------------------
(***************************************************************************)
(* Which store serves which delivery area: the areas table, the operators' *)
(* pages that edit it (AdminController and the script it serves) and what  *)
(* customers are told.                                                     *)
(*                                                                         *)
(* A page works on the copy it loaded last.  Answers arrive in any order;  *)
(* one that is lost, which only makes the page show a message, stays on    *)
(* its way.  Areas and stores are numbered in the order of the queries.    *)
(* An area's name and sort_order are edited like is_active and are left    *)
(* out; so are passwords, which only decide who may do all this.           *)
(***************************************************************************)
EXTENDS Integers, FiniteSets, FiniteSetsExt

CONSTANTS
    Areas,       \* area ids, a set of numbers
    Seeded,      \* the areas there are at first, of store 1
    Stores,      \* store ids, a set of numbers from 1
    Opened,      \* stores that are active at first
    Addresses,   \* customers' addresses
    Covers,      \* Covers[a]: the addresses that contain the area's name
    Pages,       \* operators' browser pages
    NoRow,       \* no row in areas
    Closed,      \* an edit form that is hidden
    MaxWrites,   \* bound: writes the pages send
    MaxEdits,    \* bound: fields the operators set in their forms
    MaxLoads,    \* bound: loads an operator asks for
    MaxMoves     \* bound: stores opened or closed

ASSUME DirectoryAssumption ==
    /\ Areas \subseteq Nat
    /\ Seeded \subseteq Areas
    /\ Stores \subseteq Nat /\ 0 \notin Stores
    /\ Opened \subseteq Stores /\ 1 \in Opened
    /\ Covers \in [Areas -> SUBSET Addresses]
    /\ MaxWrites \in Nat /\ MaxEdits \in Nat /\ MaxLoads \in Nat /\ MaxMoves \in Nat

VARIABLES
    areas,     \* areas[a] : the row, or NoRow
    used,      \* area ids given out
    ver,       \* ver[a]   : how often the row was written (history)
    active,    \* stores with is_active
    served,    \* stores that were active at some time (history)
    shown,     \* shown[p] : gAreas, with the versions they were read at
    offered,   \* offered[p]: gStores
    form,      \* form[p]  : the edit form, or Closed
    loads,     \* loads[p] : answers to loads on their way to the page
    requests,  \* writes under way
    budget     \* writes, edits, loads and moves left

table == <<areas, used, ver>>
stores == <<active, served>>
pageVars == <<shown, offered, form>>
vars == <<table, stores, pageVars, loads, requests, budget>>

Row == [store : Stores, active : BOOLEAN]
Copy == [row : Row \cup {NoRow}, ver : 0 .. MaxWrites]
\* touched: the fields the operator set; rerendered: a load refilled the select (history).
Form == [area : Areas, store : Stores \cup {0}, active : BOOLEAN, ver : 0 .. MaxWrites,
         touched : SUBSET {"store", "active"}, rerendered : BOOLEAN]

NewForm(a, store) == [area |-> a, store |-> store, active |-> TRUE, ver |-> 0,
                      touched |-> {}, rerendered |-> FALSE]

TypeOK ==
    /\ areas \in [Areas -> Row \cup {NoRow}]
    /\ used \in SUBSET Areas
    /\ \A a \in Areas \ used : areas[a] = NoRow
    /\ ver \in [Areas -> 0 .. MaxWrites]
    /\ active \in SUBSET Stores
    /\ served \in SUBSET Stores /\ active \subseteq served
    /\ shown \in [Pages -> [Areas -> Copy]]
    /\ offered \in [Pages -> SUBSET Stores]
    /\ form \in [Pages -> Form \cup {Closed}]
    /\ \A p \in Pages : \A l \in loads[p] :
          l.areas \in [Areas -> Copy] /\ l.stores \in SUBSET Stores
    /\ \A r \in requests :
          /\ r.page \in Pages /\ r.op \in {"POST", "PUT", "DELETE"}
          /\ r.body \in Form /\ r.state \in {"sent", "ok"}
    /\ budget \in [writes : 0 .. MaxWrites, edits : 0 .. MaxEdits,
                  loads : 0 .. MaxLoads, moves : 0 .. MaxMoves]

\* The migrations ran and every page has been loaded.
Init ==
    /\ areas = [a \in Areas |-> IF a \in Seeded THEN [store |-> 1, active |-> TRUE] ELSE NoRow]
    /\ used = Seeded
    /\ ver = [a \in Areas |-> 0]
    /\ active = Opened
    /\ served = Opened
    /\ shown = [p \in Pages |-> [a \in Areas |-> [row |-> areas[a], ver |-> 0]]]
    /\ offered = [p \in Pages |-> Opened]
    /\ form = [p \in Pages |-> Closed]
    /\ loads = [p \in Pages |-> {}]
    /\ requests = {}
    /\ budget = [writes |-> MaxWrites, edits |-> MaxEdits,
                 loads |-> MaxLoads, moves |-> MaxMoves]

Spend(what) == budget[what] > 0 /\ budget' = [budget EXCEPT ![what] = @ - 1]

\* is_active of stores is set by hand, in the database.
SetStoreActive(s) ==
    /\ Spend("moves")
    /\ active' = IF s \in active THEN active \ {s} ELSE active \cup {s}
    /\ served' = served \cup active'
    /\ UNCHANGED <<table, pageVars, loads, requests>>

-----------------------------------------------------------------------------
(* The page reads.                                                         *)

\* Mutation of AreasData: every store is offered.
AreasDataAll ==
    [areas |-> [a \in Areas |-> [row |-> areas[a], ver |-> ver[a]]], stores |-> Stores]

\* getAreasData: its two queries are taken as one, for stores change by hand only.
AreasData ==
    [areas |-> [a \in Areas |-> [row |-> areas[a], ver |-> ver[a]]], stores |-> active]

LoadData(p) ==
    /\ Spend("loads")
    /\ loads' = [loads EXCEPT ![p] = @ \cup {AreasData}]
    /\ UNCHANGED <<table, stores, pageVars, requests>>

\* What a select holds after its options were put in: the first, if there is one.
FirstOption(options) == IF options = {} THEN 0 ELSE Min(options)

\* The answer arrives: both selects are filled again, that of an open form too.
Loaded(p, l) ==
    /\ loads' = [loads EXCEPT ![p] = @ \ {l}]
    /\ shown' = [shown EXCEPT ![p] = l.areas]
    /\ offered' = [offered EXCEPT ![p] = l.stores]
    /\ form' = [form EXCEPT ![p] =
          IF @ = Closed THEN Closed
          ELSE [@ EXCEPT !.store = FirstOption(l.stores), !.rerendered = TRUE]]
    /\ UNCHANGED <<table, stores, requests, budget>>

-----------------------------------------------------------------------------
(* The operator fills in a form and sends it.                              *)

\* Mutation of OpenEdit: the select stays at its first option.
OpenEditUnselected(p, a) ==
    /\ shown[p][a].row # NoRow
    /\ form' = [form EXCEPT ![p] =
          [NewForm(a, FirstOption(offered[p]))
              EXCEPT !.active = shown[p][a].row.active, !.ver = shown[p][a].ver]]
    /\ UNCHANGED <<table, stores, shown, offered, loads, requests, budget>>

\* A store that is not on offer leaves the select empty.
OpenEdit(p, a) ==
    /\ shown[p][a].row # NoRow
    /\ LET row == shown[p][a].row
           store == IF row.store \in offered[p] THEN row.store ELSE 0
       IN form' = [form EXCEPT ![p] =
             [NewForm(a, store) EXCEPT !.active = row.active, !.ver = shown[p][a].ver]]
    /\ UNCHANGED <<table, stores, shown, offered, loads, requests, budget>>

Edit(p, field, value) ==
    /\ form[p] # Closed
    /\ field = "store" => value \in offered[p]
    /\ Spend("edits")
    /\ form' = [form EXCEPT ![p][field] = value, ![p].touched = @ \cup {field}]
    /\ UNCHANGED <<table, stores, shown, offered, loads, requests>>

CancelEdit(p) ==
    /\ form' = [form EXCEPT ![p] = Closed]
    /\ UNCHANGED <<table, stores, shown, offered, loads, requests, budget>>

Send(p, op, body) ==
    /\ Spend("writes")
    /\ requests' = requests \cup {[page |-> p, op |-> op, body |-> body, state |-> "sent"]}
    /\ UNCHANGED <<table, stores, pageVars, loads>>

\* The add form's select holds one of the stores on offer (without any, the request
\* is refused); the row's id is a new one.
AddArea(p, a, s) ==
    /\ s \in offered[p]
    /\ a \notin used /\ \A r \in requests : r.body.area # a
    /\ Send(p, "POST", NewForm(a, s))

SaveEdit(p) == form[p] # Closed /\ Send(p, "PUT", form[p])

DeleteAreaClick(p, a) ==
    shown[p][a].row # NoRow /\ Send(p, "DELETE", [NewForm(a, 0) EXCEPT !.ver = shown[p][a].ver])

-----------------------------------------------------------------------------
(* The server writes and the page hears of it.                             *)

Write(r, row) ==
    /\ areas' = [areas EXCEPT ![r.body.area] = row]
    /\ ver' = [ver EXCEPT ![r.body.area] = @ + 1]
    /\ requests' = (requests \ {r}) \cup {[r EXCEPT !.state = "ok"]}
    /\ UNCHANGED <<stores, pageVars, loads, budget>>

BodyRow(r) == [store |-> r.body.store, active |-> r.body.active]

CreateArea(r) ==
    /\ r.state = "sent" /\ r.op = "POST"
    /\ used' = used \cup {r.body.area}
    /\ Write(r, BodyRow(r))

\* Mutation of UpdateArea: a row that is missing is put back.
UpdateAreaUpsert(r) ==
    /\ r.state = "sent" /\ r.op = "PUT" /\ r.body.store # 0
    /\ Write(r, BodyRow(r))
    /\ UNCHANGED used

\* Mutation of UpdateArea: the required storeId is not checked.
UpdateAreaUnchecked(r) ==
    /\ r.state = "sent" /\ r.op = "PUT"
    /\ Write(r, IF areas[r.body.area] = NoRow THEN NoRow ELSE BodyRow(r))
    /\ UNCHANGED used

\* The UPDATE overwrites the whole row; without a row it does nothing and is ok.
UpdateArea(r) ==
    /\ r.state = "sent" /\ r.op = "PUT" /\ r.body.store # 0
    /\ Write(r, IF areas[r.body.area] = NoRow THEN NoRow ELSE BodyRow(r))
    /\ UNCHANGED used

\* storeId is required; the page shows a message and stays as it is.
RefuseUpdate(r) ==
    /\ r.state = "sent" /\ r.op = "PUT" /\ r.body.store = 0
    /\ requests' = requests \ {r}
    /\ UNCHANGED <<table, stores, pageVars, loads, budget>>

DeleteArea(r) ==
    /\ r.state = "sent" /\ r.op = "DELETE"
    /\ Write(r, NoRow)
    /\ UNCHANGED used

\* d.ok: the page reloads, and a saved edit hides the form, whichever is open by now.
Answered(r) ==
    /\ r.state = "ok"
    /\ requests' = requests \ {r}
    /\ form' = [form EXCEPT ![r.page] = IF r.op = "PUT" THEN Closed ELSE @]
    /\ loads' = [loads EXCEPT ![r.page] = @ \cup {AreasData}]
    /\ UNCHANGED <<table, stores, shown, offered, budget>>

-----------------------------------------------------------------------------
(* What a customer is told.                                                *)

\* The areas GET /areas lists, and GET /areas/:id finds.
Listed == {a \in Areas : areas[a] # NoRow /\ areas[a].active}

\* resolveArea for a takeout: the first active store; 0 is a refusal.
ResolveTakeout == FirstOption(active)

\* resolveArea for a delivery: the first area whose name the address contains; 0 is a refusal.
Resolve(address) ==
    LET matched == {a \in Listed : address \in Covers[a]}
    IN IF matched = {} THEN 0 ELSE areas[Min(matched)].store

-----------------------------------------------------------------------------

PageStep(p) ==
    \/ LoadData(p) \/ CancelEdit(p) \/ SaveEdit(p)
    \/ \E l \in loads[p] : Loaded(p, l)
    \/ \E a \in Areas : OpenEdit(p, a) \/ DeleteAreaClick(p, a)
    \/ \E b \in BOOLEAN : Edit(p, "active", b)
    \/ \E s \in Stores : Edit(p, "store", s) \/ \E a \in Areas : AddArea(p, a, s)

RequestStep(r) ==
    CreateArea(r) \/ UpdateArea(r) \/ RefuseUpdate(r) \/ DeleteArea(r) \/ Answered(r)

Next ==
    \/ \E p \in Pages : PageStep(p)
    \/ \E r \in requests : RequestStep(r)
    \/ \E s \in Stores : SetStoreActive(s)

Spec == Init /\ [][Next]_vars

-----------------------------------------------------------------------------
(* Properties.                                                             *)

\* A save of an edit changes no field its operator left alone, unless the row was
\* written after the page had read it, or a load that arrived late refilled the
\* open form's select: updateArea overwrites the whole row from the form.
UntouchedStays ==
    [][\A r \in requests :
          /\ r.op = "PUT" /\ r.state = "sent" /\ [r EXCEPT !.state = "ok"] \in requests'
          /\ r.body.ver = ver[r.body.area] /\ ~r.body.rerendered
          => \A field \in {"store", "active"} \ r.body.touched :
                areas'[r.body.area][field] = areas[r.body.area][field]]_vars

\* An area that was deleted stays deleted, also when a page that still shows it
\* saves an edit of it.
DeletedForGood ==
    [][\A a \in used : areas[a] = NoRow => areas'[a] = NoRow]_vars

\* No address is ever resolved to a store that has not been active yet: the pages
\* assign areas to stores they were offered.  (A store that was closed afterwards
\* keeps its areas and is still resolved to.)
ResolvedHasServed ==
    {ResolveTakeout} \cup {Resolve(address) : address \in Addresses} \subseteq served \cup {0}

=============================================================================
