SPECIFICATION SystemSpec
CONSTANTS
    o1 = o1
    o2 = o2
    k1 = k1
    p1 = p1
    p2 = p2
    s1 = s1
    s2 = s2
    None = None
    Orders = {o1, o2}
    Keys = {k1}
    KeyOf <- OneKey
    Procs = {p1, p2}
    Slots = {s1, s2}
    ProcOf <- TwoProcesses
    MaxAttempts = 2
    MaxStalledCount = 1
    PatchStatuses = {}
    MaxFaults = 1
    MaxPatches = 0
    MaxApiFaults = 1
SYMMETRY Symmetry
CHECK_DEADLOCK FALSE
INVARIANTS PosOnce AckedIsStored AnsweredIdHasRow AcceptedIsKept
