SPECIFICATION FairSpec
CONSTANTS
    Types = {"zeromq", "nano"}
    Subscribed = {101, 102}
    Published = {101, 102, 103}
    NumUrls = 1
    MaxMsgs = 2
INVARIANTS
    OnlySubscribed
CHECK_DEADLOCK FALSE
