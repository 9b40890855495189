SPECIFICATION Spec
CONSTANTS
    NULL = NULL
    Ips = {ip1, ll1}
    LinkLocalIps = {ll1}
    Attrs = {a1}
    ArpStatuses <- MCArpStatuses
    IdleTimeout = 1
    MaxLeases = 2
    MaxRecords = 3
CHECK_DEADLOCK FALSE
INVARIANTS
    AddressIsFound
    EvidenceWins
    AddressMatchesStatus
    LinkLocalIsLast
PROPERTIES
    OrderMeansNothing
