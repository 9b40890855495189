SPECIFICATION Spec
CONSTANTS
    NULL = NULL
    Unheard = Unheard
    Macs = {m1}
    Ips = {ip1}
    Attrs <- MCAttrs
    ArpStatuses <- MCArpStatuses
    Interfaces = {"ether1", "ether2"}
    Topics <- MCTopics
    IdleTimeout = 2
    MaxFaults = 1
INVARIANTS
    LogHeals
PROPERTIES
    QuietKeepsAddress
