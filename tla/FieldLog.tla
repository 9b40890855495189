------------------------------- MODULE FieldLog -------------------------------
(***************************************************************************)
(* What events.jsonl says of a device besides its state.  A poll compares  *)
(* every device, merged with the latest snapshot, with the one in that     *)
(* snapshot (_generate_diff_events and _extended_field_changes in          *)
(* app/persistence.py), appends an event for every difference it finds and *)
(* then writes the snapshot the next poll compares with.  Each of the two  *)
(* writes can fail without the other, and a reader of the log, who hears   *)
(* of changes only, is left with what was said last.                       *)
(*                                                                         *)
(* A topic is something an event gives the value of.  One value may have   *)
(* two topics, as the code logs it twice, by FIELD_CHANGE and by an event  *)
(* of its own.  Comments, names and the other flags of an entry are        *)
(* compared and logged as the address is.  SnapshotFeed has the states.    *)
(***************************************************************************)
EXTENDS SessionMerge, Functions

CONSTANTS
    Macs,           \* the devices
    Interfaces,     \* names of interfaces of the router
    Topics,         \* what the log is followed for
    Unheard,        \* in place of a value nobody gave
    MaxFaults       \* bound on the polls that do not write all they should

\* What is known of a device besides its presence and its address: the kind of
\* its DHCP lease and of its ARP entry, and whose interface it is.
AttrRecords ==
    [lease : {"none", "dynamic", "static"}, entry : {"none", "dynamic", "static"},
     interface : Interfaces \cup {NULL}]

ASSUME AttrsAssumption == Attrs \subseteq AttrRecords
ASSUME FaultsAssumption == NULL \notin Interfaces /\ MaxFaults \in Nat
ASSUME UnheardAssumption == Unheard # NULL

VARIABLES
    snapshot,       \* the latest snapshot: a device or NULL for each MAC
    file,           \* it is "missing", "readable" or "torn"
    told,           \* history: what the log said last, per MAC and topic
    doubt,          \* history: the topics of a MAC a fault left in doubt
    faults          \* the number of faults so far

vars == <<snapshot, file, told, doubt, faults>>

-----------------------------------------------------------------------------
(* The devices.                                                            *)

\* source, as build_devices lists it
Source(d) ==
    {s \in {"dhcp", "arp", "bridge_host"} :
        \/ s = "dhcp" /\ d.attrs.lease # "none"
        \/ s = "arp" /\ d.attrs.entry # "none"
        \/ s = "bridge_host" /\ d.bridge}

\* Only what a table of the router names is reported, only an ARP entry has a
\* status, and without a lease an address is that of an ARP entry that works.
Reports ==
    {o \in Observations :
        /\ Source(o) # {}
        /\ o.attrs.entry = "none" => o.arp = "unknown"
        /\ \/ o.ip = NULL
           \/ o.attrs.lease # "none"
           \/ o.attrs.entry # "none" /\ o.arp # "failed"}

\* Mutant: the report is stored as it is.
StoredAsReported(prev, obs) ==
    [arp |-> obs.arp, bridge |-> obs.bridge, attrs |-> obs.attrs, ip |-> obs.ip,
     last_known_ip |-> obs.ip]

\* The part of the merge the fields depend on.
Stored(prev, obs) ==
    LET id == IF prev = NULL
              THEN [ip |-> obs.ip, last_known_ip |-> obs.ip, ip_is_stale |-> FALSE]
              ELSE Identity(prev, obs)
    IN  [arp |-> obs.arp, bridge |-> obs.bridge, attrs |-> obs.attrs, ip |-> id.ip,
         last_known_ip |-> id.last_known_ip]

-----------------------------------------------------------------------------
(* The events.                                                             *)

\* dhcp_flags without "dynamic" says of no lease what it says of a static one.
Assignment(d) == IF d.attrs.lease = "dynamic" THEN "dynamic" ELSE "static"

EntityType(d) == IF d.attrs.interface = NULL THEN "client" ELSE "interface"

\* FIELD_CHANGE, of _extended_field_changes: dhcp_flags change with the type
\* of the lease, arp_flags with the entry.
FieldTopics ==
    {"ip_address", "dhcp_lease_type", "dhcp_presence", "arp_flags", "source"}

\* IP_CHANGED, DHCP_ADDED and DHCP_REMOVED, DHCP_DYNAMIC_CHANGED with
\* DEVICE_IP_ASSIGNMENT_CHANGED, ARP_ADDED and ARP_REMOVED,
\* ARP_DYNAMIC_CHANGED, arp_status_changed, evidence_changed, SOURCE_CHANGED
\* and entity_type_detected.
NamedTopics ==
    {"IP", "DHCP", "ASSIGNMENT", "ARP", "ARP_DYNAMIC", "arp_status", "evidence",
     "SOURCE", "entity_type"}

\* With NEW_DEVICE and DEVICE_REMOVED, and interface_detected.
AllTopics == FieldTopics \cup NamedTopics \cup {"presence", "interface"}

\* One topic has no influence on another, but presence on them all.
ASSUME TopicsAssumption == Topics \subseteq AllTopics /\ "presence" \in Topics

\* Texts have no blanks around them, as the router gives them: FIELD_CHANGE
\* strips them before it compares, IP_CHANGED and SOURCE_CHANGED do not.
Value(d, topic) ==
    CASE topic = "presence" -> d # NULL
      [] topic \in {"ip_address", "IP"} -> d.ip
      [] topic = "dhcp_lease_type" -> d.attrs.lease
      [] topic \in {"dhcp_presence", "DHCP"} -> "dhcp" \in Source(d)
      [] topic = "ASSIGNMENT" -> Assignment(d)
      [] topic = "arp_flags" -> d.attrs.entry
      [] topic = "ARP" -> "arp" \in Source(d)
      [] topic = "ARP_DYNAMIC" -> d.attrs.entry = "dynamic"
      [] topic = "arp_status" -> d.arp
      [] topic = "evidence" -> <<d.arp, d.bridge>>
      [] topic \in {"source", "SOURCE"} -> Source(d)
      [] topic = "entity_type" -> EntityType(d)
      [] topic = "interface" -> d.attrs.interface

\* Mutant: the name is logged only when the device becomes an interface.
InterfaceChangedOnce(prev, cur) ==
    EntityType(cur) = "interface" /\ EntityType(prev) # "interface"

InterfaceChanged(prev, cur) ==
    EntityType(cur) = "interface" /\ prev.attrs.interface # cur.attrs.interface

\* Mutant: dhcp_lease_type is compared as DHCP_DYNAMIC_CHANGED compares it.
ChangedTopicsByFlag(prev, cur) ==
    {t \in FieldTopics \cup NamedTopics :
        IF t = "dhcp_lease_type" THEN Assignment(prev) # Assignment(cur)
        ELSE Value(prev, t) # Value(cur, t)}

ChangedTopics(prev, cur) ==
    {t \in FieldTopics \cup NamedTopics : Value(prev, t) # Value(cur, t)}

\* The topics of the events of one device.
DiffTopics(prev, cur) ==
    Topics \cap
    IF prev = NULL /\ cur = NULL THEN {}
    ELSE IF cur = NULL THEN {"presence"}
    ELSE IF prev = NULL
    THEN {"presence", "entity_type"} \cup
         (IF EntityType(cur) = "interface" THEN {"interface"} ELSE {})
    ELSE ChangedTopics(prev, cur) \cup
         (IF InterfaceChanged(prev, cur) THEN {"interface"} ELSE {})

-----------------------------------------------------------------------------
(* A poll.                                                                 *)

NoDevices == [m \in Macs |-> NULL]

Silence == [t \in Topics |-> Unheard]

Init ==
    /\ snapshot = NoDevices
    /\ file = "missing"
    /\ told = [m \in Macs |-> Silence]
    /\ doubt = [m \in Macs |-> {}]
    /\ faults = 0

Current(report) ==
    [m \in Macs |-> IF report[m] = NULL THEN NULL ELSE Stored(snapshot[m], report[m])]

\* process_snapshot_diff: nothing is compared with a file that is not there,
\* and the diff gives up on one it cannot read.
Logged(report) ==
    [m \in Macs |-> IF file # "readable" THEN {}
                    ELSE DiffTopics(snapshot[m], Current(report)[m])]

\* What a reader makes of the events about topics of one device: when it
\* appears or disappears, what was said before is void.
Heard(before, cur, topics) ==
    [t \in Topics |->
        IF t \in topics THEN Value(cur, t)
        ELSE IF "presence" \in topics THEN Unheard ELSE before[t]]

\* The events about topics[m] are in the log.
Tell(report, topics) ==
    told' = [m \in Macs |-> Heard(told[m], Current(report)[m], topics[m])]

\* The topics still in doubt when events cleared some up and raised others.
Doubts(m, cleared, raised) ==
    IF "presence" \in raised THEN Topics
    ELSE (IF "presence" \in cleared THEN {} ELSE doubt[m] \ cleared) \cup raised

Fault == faults < MaxFaults /\ faults' = faults + 1

\* save_snapshot without a fault.
Poll(report) ==
    /\ Tell(report, Logged(report))
    /\ doubt' = [m \in Macs |-> Doubts(m, Logged(report)[m], {})]
    /\ snapshot' = Current(report)
    /\ file' = "readable"
    /\ UNCHANGED faults

\* Some of the events are not appended, of one device or of all, and nobody
\* hears of it: _append_events and process_snapshot_diff swallow the error.
\* The snapshot is written.
AppendFails(report) ==
    /\ Fault
    /\ \E lost \in [Macs -> SUBSET (UNION Range(Logged(report)))] :
           LET kept == [m \in Macs |-> Logged(report)[m] \ lost[m]]
           IN  /\ \A m \in Macs : lost[m] \subseteq Logged(report)[m]
               /\ Tell(report, kept)
               /\ doubt' = [m \in Macs |-> Doubts(m, kept[m], lost[m])]
    /\ snapshot' = Current(report)
    /\ file' = "readable"

\* The events are appended, but no snapshot is begun: the differences will be
\* found again, unless they are gone by then.
SaveFails(report) ==
    /\ Fault
    /\ Tell(report, Logged(report))
    /\ doubt' = [m \in Macs |-> Doubts(m, {}, Logged(report)[m])]
    /\ UNCHANGED <<snapshot, file>>

\* The events are appended, and the snapshot is begun and not finished.
SaveTears(report) ==
    /\ Fault
    /\ Tell(report, Logged(report))
    /\ doubt' = [m \in Macs |-> Topics]
    /\ snapshot' = NoDevices
    /\ file' = "torn"

Next ==
    \E report \in [Macs -> Reports \cup {NULL}] :
        Poll(report) \/ AppendFails(report) \/ SaveFails(report) \/ SaveTears(report)

Spec == Init /\ [][Next]_vars

-----------------------------------------------------------------------------
(* Properties.                                                             *)

Snapshots ==
    {d \in [arp : ArpStatuses, bridge : BOOLEAN, attrs : Attrs,
            ip : Ips \cup {NULL}, last_known_ip : Ips \cup {NULL}] : Source(d) # {}}

Values ==
    [t \in Topics |-> IF t = "presence" THEN BOOLEAN
                      ELSE {Value(d, t) : d \in Snapshots}]

TypeOK ==
    /\ snapshot \in [Macs -> Snapshots \cup {NULL}]
    /\ file \in {"missing", "readable", "torn"}
    /\ file # "readable" => snapshot = NoDevices
    /\ \A m \in Macs, t \in Topics :
           told[m][t] \in {Unheard} \cup Values[t]
    /\ doubt \in [Macs -> SUBSET Topics]
    /\ faults \in 0 .. MaxFaults

\* The value the log should have given of a topic: that of an interface's name
\* counts only for interfaces, and a device that is absent has no values.
Sought(m, t) ==
    \/ t = "presence"
    \/ /\ snapshot[m] # NULL
       /\ t = "interface" => EntityType(snapshot[m]) = "interface"

\* Whoever follows the log knows the latest snapshot: what was said last of a
\* topic is its value there, by both events that give it.  A fault leaves
\* only the topics in doubt that it touched, and none of them for longer than
\* until the next change of it is logged or the device comes or goes.
LogHeals ==
    file = "readable" =>
        \A m \in Macs : \A t \in Topics \ doubt[m] :
            Sought(m, t) => told[m][t] \in {Unheard, Value(snapshot[m], t)}

\* A device that goes quiet keeps its address in the log: the diff sees the
\* address the merge restored, so that no event says of an offline device that
\* its address is gone.
QuietKeepsAddress ==
    [][\A m \in Macs :
          /\ faults' = faults
          /\ snapshot'[m] # NULL
          /\ FusedDeviceState(snapshot'[m].arp, snapshot'[m].bridge) = "offline"
          /\ told'[m]["ip_address"] = NULL
          => told[m]["ip_address"] = NULL]_vars
=============================================================================
