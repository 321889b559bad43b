SPECIFICATION FairSpec
CONSTANTS
    M32 = 8
    M64 = 2
    Cats = {c1}
    Subs = {s1}
    Num = 3
    HWM = 2
    MaxBursts = 2
    MaxRestarts = 0
INVARIANTS
    MissedIsACount
CHECK_DEADLOCK FALSE
