SPECIFICATION FairSpec
CONSTANTS
    M32 = 8
    M64 = 8
    Num = 5
    MaxHups = 2
PROPERTIES
    SigtermTerminates
CHECK_DEADLOCK FALSE
