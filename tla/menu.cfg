SPECIFICATION FairSpec
CONSTANTS
    Miss = Miss
    m1 = m1
    m2 = m2
    m3 = m3
    o1 = o1
    o2 = o2
    v1 = v1
    v2 = v2
    MenuIds = {m1, m2, m3}
    Lists <- SomeLists
    FirstList <- TwoMenus
    Orders = {o1, o2}
    Misfits = {o1}
    Saves = {v1, v2}
    MaxAttempts = 2

INVARIANT TypeOK
INVARIANT PricedFromOneList
PROPERTY OrderedRowsStay
PROPERTY CacheCatchesUp
PROPERTY AcceptedGetsStored
CHECK_DEADLOCK FALSE
