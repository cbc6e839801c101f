--------------------------- MODULE MCMenuCatalog ---------------------------
(* Instances of MenuCatalog for TLC: three menu ids and a few lists.      *)
EXTENDS MenuCatalog, TLC

CONSTANTS m1, m2, m3, o1, o2, v1, v2

Sold(p) == [price |-> p, available |-> TRUE]
SoldOut(p) == [price |-> p, available |-> FALSE]

TwoMenus == (m1 :> Sold(2)) @@ (m2 :> Sold(1))

\* Other prices with the same sum; one menu sold out; one gone, one at another price
\* and one with a fresh id.
SomeLists ==
    {(m1 :> Sold(1)) @@ (m2 :> Sold(2)),
     (m1 :> Sold(1)) @@ (m2 :> SoldOut(1)),
     (m2 :> Sold(2)) @@ (m3 :> Sold(1))}

=============================================================================
