SPECIFICATION Spec
CONSTANTS
    NULL = NULL
    Macs = {m1}
    Ips = {ip1, ip2}
    Attrs = {a1, a2}
    ArpStatuses <- MCArpStatuses
    IdleTimeout = 2
    MaxTime = 5
INVARIANTS
    TypeOK
    SessionCoherence
    TimestampOrder
    IdleWithinTimeout
PROPERTIES
    IdentityKept
    ReconnectStartsSession
    ImplementsPresenceSession
