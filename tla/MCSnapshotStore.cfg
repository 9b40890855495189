SPECIFICATION Spec
CONSTANTS
    NULL = NULL
    Retentions <- MCRetentions
    Shift = 2
    SaveTime = 1
    Limit = 2
    MaxTime = 6
    MaxSaves = 3
    MaxFaults = 1
    MaxChanges = 1
CHECK_DEADLOCK FALSE
INVARIANTS
    TypeOK
    KeepsLast
    StaleOnlyInRepeatedHour
    ReaderLosesOnlyExpired
PROPERTIES
    ImplementsLatestFile
