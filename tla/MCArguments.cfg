SPECIFICATION Spec
CONSTANTS
    Lines <- MCLines
    MaxLines = 3
INVARIANTS
    TypeOK
    LastLineWins
    RunsAsChecked
    
    IgnoresTheUnused
CHECK_DEADLOCK FALSE
