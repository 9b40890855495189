---------------------------- MODULE DeviceBuilder ----------------------------
(***************************************************************************)
(* How the tables of the router become the device a poll reports           *)
(* (build_devices in app/device_builder.py), for the records of one MAC    *)
(* address: any number of DHCP leases and of ARP records in the order the  *)
(* router lists them, perhaps a bridge host, perhaps an interface of the   *)
(* router itself.  MAC addresses meet only in upper case and trimmed, so   *)
(* records of other addresses have no influence.                           *)
(***************************************************************************)
EXTENDS SessionMerge, Sequences

CONSTANTS
    LinkLocalIps,   \* the link-local ones among Ips
    MaxLeases,      \* bound on the number of leases
    MaxRecords      \* bound on the number of ARP records

ASSUME LinkLocalAssumption == LinkLocalIps \subseteq Ips
\* The status of a device no ARP record names.
ASSUME UnknownAssumption == "unknown" \in ArpStatuses
ASSUME BoundsAssumption == MaxLeases \in Nat /\ MaxRecords \in Nat

VARIABLES
    mac,            \* what the MAC is: "global", "random" or "interface"
    leases,         \* the addresses leased, NULL where empty
    arp,            \* the ARP records, in the order of the router
    bridgeHost,     \* the bridge host table has the MAC
    device          \* what build_devices made of them, NULL before

tables == <<mac, leases, arp, bridgeHost>>
vars   == <<tables, device>>

-----------------------------------------------------------------------------
(* Which ARP record is shown.                                              *)

Routable(ip) == ip # NULL /\ ip \notin LinkLocalIps

\* Mutant: stale comes before reachable.
StatusPriorityStale(status) ==
    CASE status \in {"reachable", "complete"} -> 1
      [] status = "stale"  -> 0
      [] status = "failed" -> 3
      [] OTHER -> 2

\* _ARP_STATUS_PRIORITY; a status it does not list has priority 2.
StatusPriority(status) ==
    CASE status \in {"reachable", "complete"} -> 0
      [] status = "stale"  -> 1
      [] status = "failed" -> 3
      [] OTHER -> 2

\* _arp_priority, whose second component decides between equal first ones.
ArpPriority(r) ==
    2 * StatusPriority(r.status) + IF r.ip \in LinkLocalIps THEN 1 ELSE 0

\* The first index of least priority: what the stable sorts of the code bring
\* to the front.
Front(priority) ==
    CHOOSE i \in DOMAIN priority : \A j \in DOMAIN priority :
        priority[i] < priority[j] \/ (priority[i] = priority[j] /\ i <= j)

\* Mutant: link-local records compete with the others.
PrimaryAnywhere(records) ==
    LET candidates == {i \in DOMAIN records : records[i].status # "failed"}
    IN  IF candidates = {} THEN 0
        ELSE Front([i \in candidates |-> StatusPriority(records[i].status)])

\* _select_primary_arp: the index of the record, 0 if all of them failed.
Primary(records) ==
    LET candidates == {i \in DOMAIN records : records[i].status # "failed"}
        routable   == {i \in candidates : records[i].ip \notin LinkLocalIps}
    IN  IF candidates = {} THEN 0
        ELSE Front([i \in (IF routable # {} THEN routable ELSE candidates) |->
                       StatusPriority(records[i].status)])

\* display_arp, for at least one record.
Displayed(records) ==
    LET p == Primary(records)
    IN  IF p # 0 THEN p
        ELSE Front([i \in DOMAIN records |-> ArpPriority(records[i])])

-----------------------------------------------------------------------------
(* The device.                                                             *)

\* Each lease replaces the device the one before it made; if there is one.
Lease == leases[Len(leases)]

ArpStatus == IF arp = <<>> THEN "unknown" ELSE arp[Displayed(arp)].status

\* Mutant: a link-local ARP record gives no address.
ArpIpRoutable ==
    LET p == Primary(arp)
    IN  IF p # 0 /\ Routable(arp[p].ip) THEN arp[p].ip ELSE NULL

\* Mutant: the first ARP record gives the address.
ArpIpOfFirst == IF Primary(arp) = 0 THEN NULL ELSE arp[1].ip

ArpIp == LET p == Primary(arp) IN IF p = 0 THEN NULL ELSE arp[p].ip

\* The lease gives the address unless it is link-local and ARP has another.
IpAddress ==
    LET ip == ArpIp
    IN  IF leases # <<>> /\ (Routable(Lease) \/ ip = NULL) THEN Lease ELSE ip

Source ==
    {s \in {"dhcp", "arp", "bridge_host"} :
        \/ s = "dhcp" /\ leases # <<>>
        \/ s = "arp" /\ arp # <<>>
        \/ s = "bridge_host" /\ bridgeHost}

Badges ==
    {b \in {"RANDOM", "STATIC", "LINK-LOCAL", "BRIDGE", "INTERFACE"} :
        \/ b = "RANDOM" /\ mac = "random"
        \/ b = "STATIC" /\ mac # "random" /\ ArpStatus = "permanent"
        \/ b = "LINK-LOCAL" /\ IpAddress \in LinkLocalIps
        \/ b = "BRIDGE" /\ arp = <<>> /\ leases = <<>> /\ bridgeHost
        \/ b = "INTERFACE" /\ mac = "interface"}

\* A MAC that is in no table is in no report.
Device ==
    IF Source = {} THEN NULL
    ELSE [arp    |-> ArpStatus,
          bridge |-> bridgeHost,
          ip     |-> IpAddress,
          state  |-> FusedDeviceState(ArpStatus, bridgeHost),
          source |-> Source,
          entityType |-> IF mac = "interface" THEN "interface" ELSE "client",
          badges |-> Badges]

-----------------------------------------------------------------------------
(* A poll reads tables; the next may find the records in another order.    *)

\* A record the router lists without an address has an empty one.
ArpRecords == [status : ArpStatuses, ip : Ips \cup {NULL}]

ArpTables == UNION {[1 .. n -> ArpRecords] : n \in 0 .. MaxRecords}

LeaseTables == UNION {[1 .. n -> Ips \cup {NULL}] : n \in 0 .. MaxLeases}

Init ==
    /\ mac \in {"global", "random", "interface"}
    /\ leases \in LeaseTables
    /\ arp \in ArpTables
    /\ bridgeHost \in BOOLEAN
    /\ device = NULL

BuildDevices ==
    /\ device = NULL
    /\ Source # {}
    /\ device' = Device
    /\ UNCHANGED tables

Swapped(table, i, j) == [table EXCEPT ![i] = table[j], ![j] = table[i]]

\* The next poll of the same tables; the router lists two of the leases or of
\* the ARP records the other way round.
Relist ==
    /\ device # NULL
    /\ \/ \E i, j \in DOMAIN leases :
              i < j /\ leases' = Swapped(leases, i, j) /\ UNCHANGED arp
       \/ \E i, j \in DOMAIN arp :
              i < j /\ arp' = Swapped(arp, i, j) /\ UNCHANGED leases
    /\ UNCHANGED <<mac, bridgeHost>>
    /\ device' = Device'

Next == BuildDevices \/ Relist

Spec == Init /\ [][Next]_vars

-----------------------------------------------------------------------------
(* Properties.                                                             *)

Built == device # NULL

\* A working record without an address, which is not link-local, comes before
\* record i: it has the better status, the earlier place or the better kind.
Hidden(i) ==
    \E j \in DOMAIN arp :
        /\ arp[j].status # "failed" /\ arp[j].ip = NULL
        /\ \/ arp[i].ip \in LinkLocalIps
           \/ StatusPriority(arp[j].status) < StatusPriority(arp[i].status)
           \/ StatusPriority(arp[j].status) = StatusPriority(arp[i].status) /\ j < i

\* A device is reported without an address only if none of its sources has
\* one to give: its lease has none, and every ARP record with an address has
\* failed, or a working record without an address hides it.
AddressIsFound ==
    Built /\ device.ip = NULL =>
        /\ leases # <<>> => Lease = NULL
        /\ \A i \in DOMAIN arp :
               arp[i].status # "failed" /\ arp[i].ip # NULL => Hidden(i)

\* Whatever else the ARP table says of a device, and in whatever order, a
\* record that is reachable or complete at a routable address makes it
\* online, and it is not shown as failed unless all its records are.
EvidenceWins ==
    Built =>
        /\ (\E i \in DOMAIN arp :
               arp[i].status \in {"reachable", "complete"} /\ Routable(arp[i].ip))
           => device.state = "online"
        /\ device.arp = "failed" => \A i \in DOMAIN arp : arp[i].status = "failed"

\* The address and the status of a device without a lease come from one and
\* the same ARP record, although they are selected apart.
AddressMatchesStatus ==
    Built /\ leases = <<>> /\ device.ip # NULL =>
        \E i \in DOMAIN arp : arp[i].ip = device.ip /\ arp[i].status = device.arp

\* A device is marked as link-local only when nothing better is known of it:
\* its lease is not routable, and neither is any ARP record that works, but
\* those which a record without an address hides.
LinkLocalIsLast ==
    Built /\ "LINK-LOCAL" \in device.badges =>
        /\ leases # <<>> => ~Routable(Lease)
        /\ \A i \in DOMAIN arp :
               arp[i].status # "failed" /\ Routable(arp[i].ip) => Hidden(i)

\* Two records compete for the front with nothing between them but order; of
\* several leases the last one always wins by nothing else.
Tied ==
    \/ \E i, j \in DOMAIN leases : leases[i] # leases[j]
    \/ \E i, j \in DOMAIN arp :
           /\ arp[i] # arp[j]
           /\ StatusPriority(arp[i].status) = StatusPriority(arp[j].status)
           /\ arp[i].ip \in LinkLocalIps <=> arp[j].ip \in LinkLocalIps

\* Unless two records are tied, the order of the tables means nothing: a
\* router that lists the same records otherwise does not change the device.
OrderMeansNothing == [][Built /\ ~Tied => device' = device]_vars

=============================================================================
