SPECIFICATION Spec
CONSTANTS
    Classes = {"alarm", "connection", "telemetry"}
    Capacities = {8, 12, 14}
    Base = 2
    MaxUnits = 2
INVARIANTS
    TypeOK
    ReadsBack
    SubscriberReads
    NoLeak
    EveryAttributeVisited
    EmbeddedStaysInside
PROPERTIES
    ReplaceNeverFails
