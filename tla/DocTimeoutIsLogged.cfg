SPECIFICATION Spec
CONSTANTS
    NULL = NULL
    Macs = {m1}
    Ips = {ip1}
    Attrs = {a1}
    ArpStatuses <- MCFewArpStatuses
    IdleTimeout = 1
    MaxTime = 2
    MaxPolls = 2
    MaxFaults = 0
CHECK_DEADLOCK FALSE
PROPERTIES
    TimeoutIsLogged
