SPECIFICATION FairSpec
CONSTANTS
    Types = {"nano"}
    Subscribed = {101, 102}
    Published = {101, 102}
    NumUrls = 2
    MaxMsgs = 2
INVARIANTS
    RunsConnected
CHECK_DEADLOCK FALSE
