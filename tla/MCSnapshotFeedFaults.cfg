SPECIFICATION Spec
CONSTANTS
    NULL = NULL
    Macs = {m1}
    Ips = {}
    Attrs = {a1, a2}
    ArpStatuses <- MCFewArpStatuses
    IdleTimeout = 1
    MaxTime = 2
    MaxPolls = 3
    MaxFaults = 1
CHECK_DEADLOCK FALSE
SYMMETRY FieldValues
INVARIANTS
    IdleHasSession
PROPERTIES
    ImplementsHistory
    SessionEventsTrue
    SessionEventsComplete
