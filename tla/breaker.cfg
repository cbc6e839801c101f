SPECIFICATION FairSpec
CONSTANTS
    p1 = p1
    s1 = s1
    s2 = s2
    Procs = {p1}
    Slots = {s1, s2}
    ProcOf <- OneProcess
    Threshold = 3
    MaxRetries = 3
    MaxRuns = 2
    MaxRestarts = 1

INVARIANT TypeOK
INVARIANT TestsAlone
PROPERTY ExecutionsEnd
CHECK_DEADLOCK FALSE
