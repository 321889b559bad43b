SPECIFICATION FairSpec
CONSTANTS
    M32 = 8
    M64 = 2
    Cats = {c1}
    Subs = {s1}
    Num = 3
    HWM = 2
    MaxBursts = 3
    MaxRestarts = 1
INVARIANTS
    OneReportPerBurst
    ReportsAddUp
PROPERTIES
    KeepsPromise
    LastEventReported
CHECK_DEADLOCK FALSE
