SPECIFICATION DeskSpec
CONSTANTS
    o1 = o1
    a1 = a1
    a2 = a2
    t1 = t1
    Idle = Idle
    Charged = {o1}
    Orders = {o1}
    KeyOf <- OwnKeys
    Terminals = {t1}
    Patches = {a1}
    JoinedRooms = {"store", "store:undefined"}
    DeskStatuses = {"CANCELLED"}
    MaxTime = 1
    MaxReports = 0
CHECK_DEADLOCK FALSE
PROPERTIES UpdateReachesStore
