SPECIFICATION Spec
CONSTANTS
    NULL = NULL
    Macs = {m1}
    Ips = {}
    Attrs = {a1, a2}
    ArpStatuses <- MCArpStatuses
    IdleTimeout = 2
    MaxTime = 3
    MaxPolls = 4
    MaxFaults = 0
CHECK_DEADLOCK FALSE
SYMMETRY FieldValues
INVARIANTS
    OnlineIsServed
    IdleIsServed
