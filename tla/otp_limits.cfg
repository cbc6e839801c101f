SPECIFICATION Spec
CONSTANTS
    Cooldown <- OneMinute
    Validity <- ThreeMinutes
    MaxTries = 5
    MaxTime = 8
    MaxCodes = 3

INVARIANT TypeOK
INVARIANT CodeIsLimited
INVARIANT SendsSpaced
CHECK_DEADLOCK FALSE
