SPECIFICATION Spec
CONSTANTS
    M32 = 4
    M64 = 3
    MaxEvents = 5
    MaxNow = 2
INVARIANTS
    CountsBalance
    MinAvgMax
    PlausibleTimes
CHECK_DEADLOCK FALSE
