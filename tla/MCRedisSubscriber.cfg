SPECIFICATION FairSpec
CONSTANTS
    Cats = {c1, c2}
    MaxEvents = 3
INVARIANTS
    CallbackFindsSubscription
    NoGapAfterRegistration
    StaleOnlyAtExit
PROPERTIES
    Served
    AsleepTermStops
CHECK_DEADLOCK FALSE
