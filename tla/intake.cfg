SPECIFICATION FairSpec
CONSTANTS
    r1 = r1
    r2 = r2
    r3 = r3
    r4 = r4
    k1 = k1
    k2 = k2
    None = None
    Requests = {r1, r2, r3, r4}
    Keys = {k1, k2}
    KeyOf <- ThreeShareKey
    MaxFaults = 2
CHECK_DEADLOCK FALSE
INVARIANTS TypeOK OneJobPerKey HolderOwnsKey AnswerIsTrue
PROPERTIES KeyNotStuck
