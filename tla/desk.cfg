SPECIFICATION DeskSpec
CONSTANTS
    o1 = o1
    a1 = a1
    a2 = a2
    t1 = t1
    Idle = Idle
    Charged = {o1}
    Orders = {o1}
    KeyOf <- OwnKeys
    Terminals = {t1}
    Patches = {a1, a2}
    JoinedRooms = {"store"}
    DeskStatuses = {"CANCELLED", "SAVED"}
    MaxTime = 2
    MaxReports = 1
SYMMETRY Symmetry
CHECK_DEADLOCK FALSE
INVARIANTS TypeOK PollsMissOnlyOverlaps ReportKeepsSales
PROPERTIES CustomerNeverSetBack
