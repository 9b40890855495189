SPECIFICATION Spec
CONSTANTS
    NULL = NULL
    Macs = {m1}
    Ips = {ip1}
    Attrs = {a1}
    ArpStatuses <- MCUpOrDown
    IdleTimeout = 1
    MaxTime = 2
    MaxPolls = 3
    MaxFaults = 1
CHECK_DEADLOCK FALSE
INVARIANTS
    ReachableIsOnline
