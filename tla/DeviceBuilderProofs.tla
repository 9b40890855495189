------------------------- MODULE DeviceBuilderProofs -------------------------
(***************************************************************************)
(* Proofs about DeviceBuilder, for any number of leases and ARP records at *)
(* any addresses.  Everything depends on what the two sorts of the code    *)
(* bring to the front, so what Front, Primary and Displayed select is      *)
(* shown first, of any nonempty table; the properties follow from that.    *)
(***************************************************************************)
EXTENDS DeviceBuilder, TLAPS, SequenceTheorems, WellFoundedInduction

\* Every nonempty set of natural numbers has a least element.
LEMMA LeastElement ==
    ASSUME NEW T, T \subseteq Nat, T # {}
    PROVE  \E x \in T : \A y \in T : x <= y
<1>1. \E x \in T : \A y \in T : <<y, x>> \notin OpToRel(<, Nat)
    BY NatLessThanWellFounded, WFMin
<1>2. \A x, y \in Nat : y < x => <<y, x>> \in OpToRel(<, Nat)
    BY Zenon DEF OpToRel
<1>3. \A x, y \in T : ~(y < x) => x <= y
    OBVIOUS
<1> QED
    BY <1>1, <1>2, <1>3

\* What comes first in a stable sort of a nonempty table is in it, no other
\* record has a lesser priority, and none of the same comes before it.
LEMMA FrontIsFirst ==
    ASSUME NEW S, S \subseteq Nat, S # {}, NEW priority \in [S -> Nat]
    PROVE  /\ Front(priority) \in S
           /\ \A j \in S : priority[Front(priority)] <= priority[j]
           /\ \A j \in S : priority[Front(priority)] = priority[j] =>
                                Front(priority) <= j
<1> DEFINE values == {priority[i] : i \in S}
<1>1. PICK v \in values : \A w \in values : v <= w
    <2>1. values \subseteq Nat /\ values # {}
        OBVIOUS
    <2> HIDE DEF values
    <2> QED
        BY <2>1, LeastElement
<1> DEFINE least == {i \in S : priority[i] = v}
<1>2. PICK i \in least : \A j \in least : i <= j
    <2>1. least \subseteq Nat /\ least # {}
        BY <1>1
    <2> HIDE DEF least
    <2> QED
        BY <2>1, LeastElement
<1>3. \A j \in S : priority[i] < priority[j] \/ (priority[i] = priority[j] /\ i <= j)
    <2> TAKE j \in S
    <2>1. priority[i] = v /\ v \in Nat /\ priority[j] \in Nat /\ v <= priority[j]
        BY <1>1
    <2>2. priority[j] = v => i <= j
        BY <1>2
    <2> QED
        BY <2>1, <2>2
<1>4. /\ Front(priority) \in S
      /\ \A j \in S : \/ priority[Front(priority)] < priority[j]
                      \/ /\ priority[Front(priority)] = priority[j]
                         /\ Front(priority) <= j
    <2>1. i \in S /\ DOMAIN priority = S
        OBVIOUS
    <2> QED
        BY <1>3, <2>1 DEF Front
<1>5. priority[Front(priority)] \in Nat /\ \A j \in S : priority[j] \in Nat
    BY <1>4
<1> QED
    BY <1>4, <1>5

\* The priorities of the code's table.
LEMMA Priorities ==
    \A s : /\ StatusPriority(s) \in 0 .. 3
           /\ StatusPriority(s) = 0 <=> s \in {"reachable", "complete"}
           /\ StatusPriority(s) = 3 <=> s = "failed"
BY DEF StatusPriority

\* The two kinds of tables, record by record.
LEMMA Tables ==
    /\ \A t \in ArpTables :
           /\ DOMAIN t \subseteq Nat
           /\ \A i \in DOMAIN t : t[i] \in ArpRecords
           /\ t # <<>> <=> DOMAIN t # {}
    /\ \A t \in LeaseTables : t # <<>> => t[Len(t)] \in Ips \cup {NULL}
<1>1. ASSUME NEW t \in ArpTables
      PROVE  /\ DOMAIN t \subseteq Nat
             /\ \A i \in DOMAIN t : t[i] \in ArpRecords
             /\ t # <<>> <=> DOMAIN t # {}
    <2>1. PICK n \in 0 .. MaxRecords : t \in [1 .. n -> ArpRecords]
        BY DEF ArpTables
    <2>2. n \in Nat /\ t \in Seq(ArpRecords)
        BY <2>1, SeqDef, BoundsAssumption
    <2>3. t # <<>> => 1 \in DOMAIN t
        BY <2>2, EmptySeq, LenProperties
    <2>4. DOMAIN <<>> = {}
        OBVIOUS
    <2> QED
        BY <2>1, <2>2, <2>3, <2>4
<1>2. ASSUME NEW t \in LeaseTables, t # <<>>
      PROVE  t[Len(t)] \in Ips \cup {NULL}
    <2>1. PICK n \in 0 .. MaxLeases : t \in [1 .. n -> Ips \cup {NULL}]
        BY DEF LeaseTables
    <2>2. n \in Nat /\ t \in Seq(Ips \cup {NULL})
        BY <2>1, SeqDef, BoundsAssumption
    <2>3. Len(t) \in 1 .. Len(t)
        BY <1>2, <2>2, EmptySeq
    <2> QED
        BY <2>2, <2>3, ElementOfSeq
<1> QED
    BY <1>1, <1>2

\* Of the records that have not failed the primary one is not link-local if any
\* is not, and among those like it none has a lesser priority, or the same and
\* an earlier place.
LEMMA PrimarySelects ==
    ASSUME NEW t \in ArpTables
    PROVE  LET p == Primary(t)
           IN  /\ p = 0 <=> \A i \in DOMAIN t : t[i].status = "failed"
               /\ p # 0 =>
                   /\ p \in DOMAIN t
                   /\ t[p].status # "failed"
                   /\ \A i \in DOMAIN t : t[i].status # "failed" =>
                         /\ t[i].ip \notin LinkLocalIps => t[p].ip \notin LinkLocalIps
                         /\ (t[p].ip \in LinkLocalIps <=> t[i].ip \in LinkLocalIps) =>
                                /\ StatusPriority(t[p].status)
                                      <= StatusPriority(t[i].status)
                                /\ StatusPriority(t[p].status)
                                      = StatusPriority(t[i].status) => p <= i
<1> DEFINE candidates == {i \in DOMAIN t : t[i].status # "failed"}
           routable   == {i \in candidates : t[i].ip \notin LinkLocalIps}
           S          == IF routable # {} THEN routable ELSE candidates
           priority   == [i \in S |-> StatusPriority(t[i].status)]
<1>1. DOMAIN t \subseteq Nat /\ 0 \notin DOMAIN t
    <2>1. PICK n \in 0 .. MaxRecords : t \in [1 .. n -> ArpRecords]
        BY DEF ArpTables
    <2>2. DOMAIN t = 1 .. n /\ n \in Nat
        BY <2>1, BoundsAssumption
    <2> QED
        BY <2>2
<1>2. CASE candidates = {}
    BY <1>2 DEF Primary
<1>3. CASE candidates # {}
    <2>1. Primary(t) = Front(priority)
        BY <1>3 DEF Primary
    <2>2. S \subseteq Nat /\ S # {} /\ S \subseteq candidates
        BY <1>1, <1>3
    <2>3. priority \in [S -> Nat]
        BY Priorities
    <2>4. \A i \in S : priority[i] = StatusPriority(t[i].status)
        OBVIOUS
    <2>5. /\ Front(priority) \in S
          /\ \A j \in S : priority[Front(priority)] <= priority[j]
          /\ \A j \in S : priority[Front(priority)] = priority[j] =>
                               Front(priority) <= j
        <3> HIDE DEF S, priority
        <3> QED
            BY <2>2, <2>3, FrontIsFirst
    <2> HIDE DEF priority
    <2>6. /\ Primary(t) \in S
          /\ \A j \in S : StatusPriority(t[Primary(t)].status)
                             <= StatusPriority(t[j].status)
          /\ \A j \in S : StatusPriority(t[Primary(t)].status)
                             = StatusPriority(t[j].status) => Primary(t) <= j
        BY <2>1, <2>4, <2>5
    <2>7. routable # {} => Primary(t) \in routable
        BY <2>6
    <2>8. \A i \in candidates :
              (t[Primary(t)].ip \in LinkLocalIps <=> t[i].ip \in LinkLocalIps) => i \in S
        BY <2>6
    <2> QED
        BY <1>1, <1>3, <2>2, <2>6, <2>7, <2>8
<1> QED
    BY <1>2, <1>3

\* The record a device shows is the primary one, or the first by priority if
\* all of them have failed.
LEMMA DisplayedSelects ==
    ASSUME NEW t \in ArpTables, t # <<>>
    PROVE  /\ Displayed(t) \in DOMAIN t
           /\ Primary(t) # 0 => Displayed(t) = Primary(t)
           /\ Primary(t) = 0 => \A i \in DOMAIN t :
                  ArpPriority(t[Displayed(t)]) <= ArpPriority(t[i])
<1> DEFINE priority == [i \in DOMAIN t |-> ArpPriority(t[i])]
<1>1. DOMAIN t \subseteq Nat /\ DOMAIN t # {}
    BY Tables
<1>2. \A i \in DOMAIN t : ArpPriority(t[i]) \in Nat
    BY Priorities DEF ArpPriority
<1>3. priority \in [DOMAIN t -> Nat]
    BY <1>2
<1>4. \A i \in DOMAIN t : priority[i] = ArpPriority(t[i])
    OBVIOUS
<1>5. CASE Primary(t) = 0
    <2>1. Displayed(t) = Front(priority)
        BY <1>5 DEF Displayed
    <2> HIDE DEF priority
    <2>2. /\ Front(priority) \in DOMAIN t
          /\ \A j \in DOMAIN t : priority[Front(priority)] <= priority[j]
        BY <1>1, <1>3, FrontIsFirst
    <2> QED
        BY <1>4, <1>5, <2>1, <2>2
<1>6. CASE Primary(t) # 0
    BY <1>6, PrimarySelects DEF Displayed
<1> QED
    BY <1>5, <1>6

-----------------------------------------------------------------------------
(* The invariant: a device is what the tables make of it.                  *)

DeviceInv ==
    /\ leases \in LeaseTables
    /\ arp \in ArpTables
    /\ bridgeHost \in BOOLEAN
    /\ device # NULL => device = Device /\ Source # {}

\* A table of which two records change places is a table of the same records.
LEMMA SwappedTable ==
    ASSUME NEW n \in Nat, NEW S, NEW t \in [1 .. n -> S],
           NEW i \in DOMAIN t, NEW j \in DOMAIN t
    PROVE  Swapped(t, i, j) \in [1 .. n -> S]
BY DEF Swapped

LEMMA SwappedRecords ==
    ASSUME NEW t, NEW i \in DOMAIN t, NEW j \in DOMAIN t
    PROVE  /\ \A k \in DOMAIN t : \E l \in DOMAIN t : Swapped(t, i, j)[k] = t[l]
           /\ \A l \in DOMAIN t : \E k \in DOMAIN t : Swapped(t, i, j)[k] = t[l]
<1> DEFINE u == Swapped(t, i, j)
<1>1. /\ u[i] = t[j] /\ u[j] = t[i]
      /\ \A k \in DOMAIN t \ {i, j} : u[k] = t[k]
    BY DEF Swapped
<1> HIDE DEF u
<1>2. ASSUME NEW k \in DOMAIN t
      PROVE  \E l \in DOMAIN t : u[k] = t[l]
    <2>1. CASE k = i
        BY <1>1, <2>1
    <2>2. CASE k = j
        BY <1>1, <2>2
    <2>3. CASE k \notin {i, j}
        BY <1>1, <2>3
    <2> QED
        BY <2>1, <2>2, <2>3
<1>3. ASSUME NEW l \in DOMAIN t
      PROVE  \E k \in DOMAIN t : u[k] = t[l]
    <2>1. CASE l = i
        BY <1>1, <2>1
    <2>2. CASE l = j
        BY <1>1, <2>2
    <2>3. CASE l \notin {i, j}
        BY <1>1, <2>3
    <2> QED
        BY <2>1, <2>2, <2>3
<1> QED
    BY <1>2, <1>3 DEF u

\* What Relist leaves of the tables.
LEMMA Relisted ==
    ASSUME DeviceInv, Relist
    PROVE  /\ leases' \in LeaseTables /\ arp' \in ArpTables
           /\ leases' = <<>> <=> leases = <<>>
           /\ arp' = <<>> <=> arp = <<>>
           /\ DOMAIN arp' = DOMAIN arp
           /\ \A k \in DOMAIN arp : \E l \in DOMAIN arp : arp'[k] = arp[l]
           /\ \A l \in DOMAIN arp : \E k \in DOMAIN arp : arp'[k] = arp[l]
           /\ leases' # leases =>
                 \E i, j \in DOMAIN leases : leases' = Swapped(leases, i, j)
<1>1. CASE \E i, j \in DOMAIN leases :
              i < j /\ leases' = Swapped(leases, i, j) /\ UNCHANGED arp
    <2>1. PICK i, j \in DOMAIN leases :
              leases' = Swapped(leases, i, j) /\ arp' = arp
        BY <1>1
    <2>2. PICK n \in 0 .. MaxLeases : leases \in [1 .. n -> Ips \cup {NULL}]
        BY DEF DeviceInv, LeaseTables
    <2>3. n \in Nat
        BY BoundsAssumption
    <2>4. leases' \in [1 .. n -> Ips \cup {NULL}]
        BY <2>1, <2>2, <2>3, SwappedTable
    <2>5. leases' \in LeaseTables
        BY <2>4 DEF LeaseTables
    <2>6. DOMAIN leases' = DOMAIN leases /\ DOMAIN leases # {} /\ DOMAIN <<>> = {}
        BY <2>1, <2>2, <2>4
    <2>7. leases # <<>> /\ leases' # <<>>
        BY <2>6
    <2> QED
        BY <2>1, <2>5, <2>7 DEF DeviceInv
<1>2. CASE \E i, j \in DOMAIN arp :
              i < j /\ arp' = Swapped(arp, i, j) /\ UNCHANGED leases
    <2>1. PICK i, j \in DOMAIN arp : arp' = Swapped(arp, i, j) /\ leases' = leases
        BY <1>2
    <2>2. PICK n \in 0 .. MaxRecords : arp \in [1 .. n -> ArpRecords]
        BY DEF DeviceInv, ArpTables
    <2>3. n \in Nat
        BY BoundsAssumption
    <2>4. arp' \in [1 .. n -> ArpRecords]
        BY <2>1, <2>2, <2>3, SwappedTable
    <2>5. /\ \A k \in DOMAIN arp : \E l \in DOMAIN arp : arp'[k] = arp[l]
          /\ \A l \in DOMAIN arp : \E k \in DOMAIN arp : arp'[k] = arp[l]
        <3>1. \A k \in DOMAIN arp : \E l \in DOMAIN arp : Swapped(arp, i, j)[k] = arp[l]
            BY SwappedRecords
        <3>2. \A l \in DOMAIN arp : \E k \in DOMAIN arp : Swapped(arp, i, j)[k] = arp[l]
            BY SwappedRecords
        <3> QED
            BY <2>1, <3>1, <3>2
    <2>6. DOMAIN arp' = DOMAIN arp /\ DOMAIN arp # {} /\ DOMAIN <<>> = {}
        <3>1. DOMAIN arp' = 1 .. n /\ DOMAIN arp = 1 .. n
            BY <2>2, <2>4
        <3> QED
            BY <2>1, <3>1
    <2>7. arp # <<>> /\ arp' # <<>>
        BY <2>6
    <2>8. arp' \in ArpTables
        BY <2>4 DEF ArpTables
    <2> QED
        BY <2>1, <2>5, <2>6, <2>7, <2>8 DEF DeviceInv
<1> QED
    BY <1>1, <1>2 DEF Relist

\* The same tables make the same device.
LEMMA SameTables ==
    ASSUME UNCHANGED tables
    PROVE  Device' = Device /\ Source' = Source
BY DEF tables, Device, Source, ArpStatus, IpAddress, ArpIp, Lease, Badges,
       Primary, Displayed

\* The device in hand is always the one of the tables in hand.
THEOREM Invariance == Spec => []DeviceInv
<1>1. Init => DeviceInv
    BY DEF Init, DeviceInv
<1>2. DeviceInv /\ [Next]_vars => DeviceInv'
    <2> SUFFICES ASSUME DeviceInv, [Next]_vars
                 PROVE  DeviceInv'
        OBVIOUS
    <2>1. CASE BuildDevices
        <3>1. /\ UNCHANGED <<mac, leases, arp, bridgeHost>>
              /\ Source # {} /\ device' = Device
            BY <2>1 DEF BuildDevices, tables
        <3>2. Device' = Device /\ Source' = Source
            BY <3>1, SameTables DEF tables
        <3> QED
            BY <3>1, <3>2 DEF DeviceInv
    <2>2. CASE Relist
        <3>1. bridgeHost' = bridgeHost /\ device # NULL /\ device' = Device'
            BY <2>2 DEF Relist
        <3>2. Source' = Source /\ Source # {}
            BY <2>2, <3>1, Relisted DEF DeviceInv, Source
        <3> QED
            BY <2>2, <3>1, <3>2, Relisted DEF DeviceInv
    <2>3. CASE UNCHANGED vars
        <3>1. UNCHANGED <<mac, leases, arp, bridgeHost, device>>
            BY <2>3 DEF vars, tables
        <3>2. Device' = Device /\ Source' = Source
            BY <3>1, SameTables DEF tables
        <3> QED
            BY <3>1, <3>2 DEF DeviceInv
    <2> QED
        BY <2>1, <2>2, <2>3 DEF Next
<1> QED
    BY <1>1, <1>2, PTL DEF Spec

-----------------------------------------------------------------------------
(* The properties.                                                         *)

\* The fields of the device in hand.
LEMMA Fields ==
    ASSUME DeviceInv, Built
    PROVE  /\ device.arp = ArpStatus
           /\ device.bridge = bridgeHost
           /\ device.ip = IpAddress
           /\ device.state = FusedDeviceState(ArpStatus, bridgeHost)
           /\ device.badges = Badges
BY DEF DeviceInv, Built, Device

\* What status and address an ARP table gives.
LEMMA FromArp ==
    ASSUME DeviceInv
    PROVE  /\ arp = <<>> => ArpStatus = "unknown" /\ ArpIp = NULL
           /\ arp # <<>> =>
                 /\ Displayed(arp) \in DOMAIN arp
                 /\ ArpStatus = arp[Displayed(arp)].status
                 /\ ArpStatus \in ArpStatuses
           /\ Primary(arp) # 0 =>
                 /\ arp # <<>> /\ Displayed(arp) = Primary(arp)
                 /\ Primary(arp) \in DOMAIN arp
                 /\ ArpIp = arp[Primary(arp)].ip /\ ArpIp \in Ips \cup {NULL}
           /\ Primary(arp) = 0 => ArpIp = NULL
<1>1. /\ arp \in ArpTables
      /\ \A i \in DOMAIN arp : arp[i] \in ArpRecords
      /\ arp # <<>> <=> DOMAIN arp # {}
    BY Tables DEF DeviceInv
<1>2. Primary(arp) # 0 => Primary(arp) \in DOMAIN arp
    BY <1>1, PrimarySelects
<1>3. arp # <<>> => Displayed(arp) \in DOMAIN arp
    BY <1>1, DisplayedSelects
<1>4. Primary(arp) # 0 => Displayed(arp) = Primary(arp)
    BY <1>1, <1>2, DisplayedSelects
<1>5. arp = <<>> => Primary(arp) = 0
    BY <1>1, <1>2
<1> QED
    BY <1>1, <1>2, <1>3, <1>4, <1>5, IpsAssumption DEF ArpStatus, ArpIp, ArpRecords

\* No link-local address is NULL.
LEMMA AddressKinds == NULL \notin LinkLocalIps
BY IpsAssumption, LinkLocalAssumption

\* Where the primary record has no address, every working record with one is
\* hidden by it.
LEMMA PrimaryHides ==
    ASSUME DeviceInv, Primary(arp) # 0, arp[Primary(arp)].ip = NULL,
           NEW i \in DOMAIN arp, arp[i].status # "failed", arp[i].ip # NULL
    PROVE  Hidden(i)
<1> DEFINE p == Primary(arp)
<1>1. p \in DOMAIN arp /\ arp[p].status # "failed" /\ p # i
    BY PrimarySelects DEF DeviceInv
<1>2. p \in Nat /\ i \in Nat
    BY <1>1, Tables DEF DeviceInv
<1>3. CASE arp[i].ip \in LinkLocalIps
    BY <1>1, <1>3 DEF Hidden
<1>4. CASE arp[i].ip \notin LinkLocalIps
    <2>1. arp[p].ip \notin LinkLocalIps
        BY AddressKinds
    <2>2. /\ StatusPriority(arp[p].status) <= StatusPriority(arp[i].status)
          /\ StatusPriority(arp[p].status) = StatusPriority(arp[i].status) => p <= i
        BY <1>4, <2>1, PrimarySelects DEF DeviceInv
    <2>3. StatusPriority(arp[p].status) \in 0 .. 3 /\ StatusPriority(arp[i].status) \in 0 .. 3
        BY Priorities
    <2>4. \/ StatusPriority(arp[p].status) < StatusPriority(arp[i].status)
          \/ StatusPriority(arp[p].status) = StatusPriority(arp[i].status) /\ p < i
        <3> HIDE DEF p
        <3> QED
            BY <1>1, <1>2, <2>2, <2>3
    <2> QED
        BY <1>1, <2>4 DEF Hidden
<1> QED
    BY <1>3, <1>4

\* build_devices finds an address if lease or ARP table has one that is not
\* hidden by a working record without.
THEOREM AddressFound == Spec => []AddressIsFound
<1>1. DeviceInv => AddressIsFound
    <2> SUFFICES ASSUME DeviceInv, Built, device.ip = NULL
                 PROVE  /\ leases # <<>> => Lease = NULL
                        /\ \A i \in DOMAIN arp :
                               arp[i].status # "failed" /\ arp[i].ip # NULL => Hidden(i)
        BY DEF AddressIsFound
    <2>1. ArpIp = NULL /\ (leases # <<>> => Lease = NULL)
        BY Fields DEF IpAddress, Routable
    <2>2. CASE Primary(arp) = 0
        BY <2>1, <2>2, PrimarySelects DEF DeviceInv
    <2>3. CASE Primary(arp) # 0
        <3>1. arp[Primary(arp)].ip = NULL
            BY <2>1, <2>3, FromArp
        <3> QED
            BY <2>1, <2>3, <3>1, PrimaryHides
    <2> QED
        BY <2>2, <2>3
<1> QED
    BY <1>1, Invariance, PTL

\* Evidence of presence is never hidden by another record.
THEOREM Evidence == Spec => []EvidenceWins
<1>1. DeviceInv => EvidenceWins
    <2> SUFFICES ASSUME DeviceInv, Built
                 PROVE  EvidenceWins
        BY DEF EvidenceWins
    <2>1. ASSUME NEW i \in DOMAIN arp,
                 arp[i].status \in {"reachable", "complete"}, Routable(arp[i].ip)
          PROVE  device.state = "online"
        <3> DEFINE p == Primary(arp)
        <3>1. p # 0
            BY <2>1, PrimarySelects DEF DeviceInv
        <3>2. StatusPriority(arp[p].status) <= StatusPriority(arp[i].status)
            BY <2>1, <3>1, PrimarySelects DEF DeviceInv, Routable
        <3>3. StatusPriority(arp[p].status) = 0
            BY <2>1, <3>2, Priorities
        <3>4. ArpStatus \in {"reachable", "complete"}
            BY <3>1, <3>3, Priorities, FromArp
        <3> QED
            BY <3>4, Fields DEF FusedDeviceState, OnlineArp
    <2>2. ASSUME device.arp = "failed"
          PROVE  \A i \in DOMAIN arp : arp[i].status = "failed"
        <3>1. Primary(arp) # 0 => ArpStatus # "failed"
            BY PrimarySelects, FromArp DEF DeviceInv
        <3> QED
            BY <2>2, <3>1, PrimarySelects, Fields DEF DeviceInv
    <2> QED
        BY <2>1, <2>2 DEF EvidenceWins
<1> QED
    BY <1>1, Invariance, PTL

\* Address and status are of one record.
THEOREM OneRecord == Spec => []AddressMatchesStatus
<1>1. DeviceInv => AddressMatchesStatus
    <2> SUFFICES ASSUME DeviceInv, Built, leases = <<>>, device.ip # NULL
                 PROVE  \E i \in DOMAIN arp :
                            arp[i].ip = device.ip /\ arp[i].status = device.arp
        BY DEF AddressMatchesStatus
    <2>1. Primary(arp) # 0
        BY Fields, FromArp DEF IpAddress
    <2> QED
        BY <2>1, Fields, FromArp DEF IpAddress
<1> QED
    BY <1>1, Invariance, PTL

\* A link-local address is shown for want of a better one only, or because a
\* record without an address hides that.
THEOREM LinkLocal == Spec => []LinkLocalIsLast
<1>1. DeviceInv => LinkLocalIsLast
    <2> SUFFICES ASSUME DeviceInv, Built, "LINK-LOCAL" \in device.badges
                 PROVE  /\ leases # <<>> => ~Routable(Lease)
                        /\ \A i \in DOMAIN arp :
                               arp[i].status # "failed" /\ Routable(arp[i].ip) => Hidden(i)
        BY DEF LinkLocalIsLast
    <2>1. IpAddress \in LinkLocalIps
        BY Fields DEF Badges
    <2>2. leases # <<>> => ~Routable(Lease)
        BY <2>1 DEF IpAddress, Routable
    <2>3. ASSUME NEW i \in DOMAIN arp, arp[i].status # "failed", Routable(arp[i].ip)
          PROVE  Hidden(i)
        <3>1. Primary(arp) # 0 /\ arp[Primary(arp)].ip \notin LinkLocalIps
            BY <2>3, PrimarySelects DEF DeviceInv, Routable
        <3>2. ArpIp = arp[Primary(arp)].ip
            BY <3>1, FromArp
        <3>3. ArpIp = NULL
            BY <2>1, <2>2, <3>1, <3>2 DEF IpAddress
        <3> QED
            BY <2>3, <3>1, <3>2, <3>3, PrimaryHides DEF Routable
    <2> QED
        BY <2>2, <2>3
<1> QED
    BY <1>1, Invariance, PTL
-----------------------------------------------------------------------------
(* The order of the tables.                                                *)

\* No two different records of the table are equal in what the sorts look at.
NoTie(t) ==
    \A i, j \in DOMAIN t :
        /\ StatusPriority(t[i].status) = StatusPriority(t[j].status)
        /\ t[i].ip \in LinkLocalIps <=> t[j].ip \in LinkLocalIps
        => t[i] = t[j]

\* Two tables of the same records, without ties, have the same primary record
\* and show the same one.
LEMMA SameRecord ==
    ASSUME NEW t \in ArpTables, NEW u \in ArpTables, NoTie(t),
           \A k \in DOMAIN u : \E l \in DOMAIN t : u[k] = t[l],
           \A l \in DOMAIN t : \E k \in DOMAIN u : u[k] = t[l]
    PROVE  /\ Primary(t) = 0 <=> Primary(u) = 0
           /\ Primary(t) # 0 => u[Primary(u)] = t[Primary(t)]
           /\ t # <<>> /\ u # <<>> => u[Displayed(u)] = t[Displayed(t)]
<1> DEFINE p == Primary(t)
           q == Primary(u)
<1>1. p = 0 <=> q = 0
    BY PrimarySelects
<1>2. ASSUME p # 0
      PROVE  u[q] = t[p]
    <2>1. p \in DOMAIN t /\ q \in DOMAIN u
        BY <1>1, <1>2, PrimarySelects
    <2>2. t[p].status # "failed" /\ u[q].status # "failed"
        BY <1>1, <1>2, PrimarySelects
    <2>3. PICK k \in DOMAIN t : u[q] = t[k]
        BY <2>1
    <2>4. PICK l \in DOMAIN u : u[l] = t[p]
        BY <2>1
    <2>5. /\ t[k].ip \notin LinkLocalIps => t[p].ip \notin LinkLocalIps
          /\ (t[p].ip \in LinkLocalIps <=> t[k].ip \in LinkLocalIps) =>
                 StatusPriority(t[p].status) <= StatusPriority(t[k].status)
        BY <1>2, <2>2, <2>3, PrimarySelects
    <2>6. /\ u[l].ip \notin LinkLocalIps => u[q].ip \notin LinkLocalIps
          /\ (u[q].ip \in LinkLocalIps <=> u[l].ip \in LinkLocalIps) =>
                 StatusPriority(u[q].status) <= StatusPriority(u[l].status)
        BY <1>1, <1>2, <2>2, <2>4, PrimarySelects
    <2>7. t[p].ip \in LinkLocalIps <=> t[k].ip \in LinkLocalIps
        BY <2>3, <2>4, <2>5, <2>6
    <2>8. /\ StatusPriority(t[p].status) <= StatusPriority(t[k].status)
          /\ StatusPriority(t[k].status) <= StatusPriority(t[p].status)
        BY <2>3, <2>4, <2>5, <2>6, <2>7
    <2>9. StatusPriority(t[p].status) = StatusPriority(t[k].status)
        BY <2>8, Priorities
    <2> QED
        BY <2>1, <2>3, <2>7, <2>9 DEF NoTie
<1>3. ASSUME t # <<>>, u # <<>>, p = 0
      PROVE  u[Displayed(u)] = t[Displayed(t)]
    <2> DEFINE d == Displayed(t)
               e == Displayed(u)
    <2>1. d \in DOMAIN t /\ e \in DOMAIN u
        BY <1>3, DisplayedSelects
    <2>2. PICK k \in DOMAIN t : u[e] = t[k]
        BY <2>1
    <2>3. PICK l \in DOMAIN u : u[l] = t[d]
        BY <2>1
    <2>4. t[d].status = "failed" /\ t[k].status = "failed"
        BY <1>3, <2>1, PrimarySelects
    <2>5. /\ ArpPriority(t[d]) <= ArpPriority(t[k])
          /\ ArpPriority(t[k]) <= ArpPriority(t[d])
        BY <1>1, <1>3, <2>2, <2>3, DisplayedSelects
    <2>6. t[d].ip \in LinkLocalIps <=> t[k].ip \in LinkLocalIps
        BY <2>4, <2>5, Priorities DEF ArpPriority
    <2> QED
        BY <2>1, <2>2, <2>4, <2>6 DEF NoTie
<1>4. ASSUME t # <<>>, u # <<>>, p # 0
      PROVE  u[Displayed(u)] = t[Displayed(t)]
    BY <1>1, <1>2, <1>4, DisplayedSelects
<1> QED
    BY <1>1, <1>2, <1>3, <1>4

\* Unless records are tied the order of the tables means nothing.
THEOREM Order == Spec => OrderMeansNothing
<1>1. DeviceInv /\ [Next]_vars => [Built /\ ~Tied => device' = device]_vars
    <2> SUFFICES ASSUME DeviceInv, Relist, ~Tied
                 PROVE  device' = device
        BY DEF Next, BuildDevices, Built
    <2>1. mac' = mac /\ bridgeHost' = bridgeHost /\ device = Device /\ device' = Device'
        BY DEF Relist, DeviceInv
    <2>2. ASSUME leases' = leases, arp' = arp
          PROVE  device' = device
        BY <2>1, <2>2, SameTables DEF tables
    <2>3. ASSUME NEW i \in DOMAIN leases, NEW j \in DOMAIN leases,
                 leases' = Swapped(leases, i, j), arp' = arp
          PROVE  device' = device
        <3>1. leases[i] = leases[j]
            BY DEF Tied
        <3>2. PICK n \in 0 .. MaxLeases : leases \in [1 .. n -> Ips \cup {NULL}]
            BY DEF DeviceInv, LeaseTables
        <3>3. leases' = leases
            BY <2>3, <3>1, <3>2 DEF Swapped
        <3> QED
            BY <2>2, <2>3, <3>3
    <2>4. ASSUME leases' = leases, arp' # <<>>, arp # <<>>
          PROVE  device' = device
        <3>1. NoTie(arp)
            BY DEF Tied, NoTie
        <3>2. /\ arp' \in ArpTables /\ arp \in ArpTables
              /\ \A k \in DOMAIN arp' : \E l \in DOMAIN arp : arp'[k] = arp[l]
              /\ \A l \in DOMAIN arp : \E k \in DOMAIN arp' : arp'[k] = arp[l]
            BY Relisted DEF DeviceInv
        <3>3. /\ Primary(arp) = 0 <=> Primary(arp') = 0
              /\ Primary(arp) # 0 => arp'[Primary(arp')] = arp[Primary(arp)]
              /\ arp'[Displayed(arp')] = arp[Displayed(arp)]
            BY <2>4, <3>1, <3>2, SameRecord
        <3>4. ArpStatus' = ArpStatus /\ ArpIp' = ArpIp
            BY <2>4, <3>3 DEF ArpStatus, ArpIp
        <3>5. IpAddress' = IpAddress /\ Source' = Source
            BY <2>1, <2>4, <3>4 DEF IpAddress, Lease, Source
        <3>6. Badges' = Badges
            BY <2>1, <2>4, <3>4, <3>5 DEF Badges
        <3> QED
            BY <2>1, <3>4, <3>5, <3>6 DEF Device
    <2> QED
        BY <2>2, <2>3, <2>4, Relisted DEF Relist
<1> QED
    BY <1>1, Invariance, PTL DEF Spec, OrderMeansNothing

=============================================================================
