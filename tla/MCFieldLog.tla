------------------------------ MODULE MCFieldLog ------------------------------
EXTENDS FieldLog

MCArpStatuses == {"reachable", "failed"}

Record(lease, entry, interface) ==
    [lease |-> lease, entry |-> entry, interface |-> interface]

MCTopics ==
    {"presence", "ip_address", "dhcp_lease_type", "ASSIGNMENT", "entity_type",
     "interface"}

\* A lease that turns static, that is released, a device that is an interface
\* for a while, of one name or another.
MCAttrs ==
    {Record("dynamic", "dynamic", NULL), Record("static", "dynamic", NULL),
     Record("none", "dynamic", NULL), Record("none", "dynamic", "ether1"),
     Record("none", "dynamic", "ether2")}
=============================================================================
