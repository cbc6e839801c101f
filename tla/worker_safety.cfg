SPECIFICATION RedriveSpec
CONSTANTS
    o1 = o1
    k1 = k1
    p1 = p1
    p2 = p2
    s1 = s1
    s2 = s2
    None = None
    Orders = {o1}
    Keys = {k1}
    KeyOf <- OneKey
    Procs = {p1, p2}
    Slots = {s1, s2}
    ProcOf <- TwoProcesses
    MaxAttempts = 3
    MaxStalledCount = 1
    PatchStatuses <- SomeStatuses
    MaxFaults = 2
    MaxPatches = 1
SYMMETRY WorkerSymmetry
CHECK_DEADLOCK FALSE
INVARIANTS TypeOK LockExcludes LockKept FailedIsListed AuditTrail
PROPERTIES GivenUpForGood ImplementsLedger
