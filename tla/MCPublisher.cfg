SPECIFICATION FairSpec
CONSTANTS
    M32 = 4
    M64 = 8
    Num = 5
    MaxHups = 3
INVARIANTS
    ReadyIsSafe
    OneBurstPerRequest
    RequestRemembered
    StopsPromptly
    BurstIsWhole
    LastEventCloses
PROPERTIES
    BusyTermStops
CHECK_DEADLOCK FALSE
