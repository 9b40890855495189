---------------------------- MODULE FieldLogProofs ----------------------------
(***************************************************************************)
(* That whoever follows events.jsonl knows the latest snapshot but for what*)
(* a fault put in doubt, for all devices, all topics and any number of     *)
(* faults.                                                                 *)
(***************************************************************************)
EXTENDS FieldLog, TLAPS

\* Values in an order the log can be followed in: LogHeals for one device d of
\* the snapshot, of which the log said said and dubious is in doubt.
Follows(d, said, dubious) ==
    \A t \in Topics \ dubious :
        (\/ t = "presence"
         \/ d # NULL /\ (t = "interface" => EntityType(d) = "interface"))
        => said[t] \in {Unheard, Value(d, t)}

\* Doubts, for one device.
DoubtsOf(dubious, cleared, raised) ==
    IF "presence" \in raised THEN Topics
    ELSE (IF "presence" \in cleared THEN {} ELSE dubious \ cleared) \cup raised

LEMMA TopicKinds ==
    \A t \in Topics : \/ t \in FieldTopics \cup NamedTopics
                      \/ t = "presence"
                      \/ t = "interface"
  BY TopicsAssumption DEF AllTopics

LEMMA PresenceIsNoField ==
    /\ "presence" \notin FieldTopics \cup NamedTopics
    /\ "interface" \notin FieldTopics \cup NamedTopics
    /\ "presence" # "interface"
  BY DEF FieldTopics, NamedTopics

LEMMA ValuePresence == \A d : Value(d, "presence") = (d # NULL)
  BY DEF Value

\* A topic of a device that stays is logged unless its value is the same.
LEMMA UnloggedIsSame ==
    ASSUME NEW prev, NEW cur, prev # NULL, cur # NULL,
           NEW t \in Topics \ DiffTopics(prev, cur), t # "presence",
           t = "interface" => EntityType(cur) = "interface"
    PROVE  /\ Value(prev, t) = Value(cur, t)
           /\ t = "interface" => EntityType(prev) = "interface"
<1>1. CASE t \in FieldTopics \cup NamedTopics
  BY <1>1, PresenceIsNoField DEF DiffTopics, ChangedTopics
<1>2. CASE t = "interface"
  <2>1. ~InterfaceChanged(prev, cur)
    BY <1>2 DEF DiffTopics
  <2>2. prev.attrs.interface = cur.attrs.interface
    BY <1>2, <2>1 DEF InterfaceChanged
  <2>3. EntityType(prev) = EntityType(cur)
    BY <2>2 DEF EntityType
  <2>4. \A d : Value(d, "interface") = d.attrs.interface
    BY DEF Value, FieldTopics, NamedTopics
  <2>. QED  BY <1>2, <2>2, <2>3, <2>4
<1>. QED  BY <1>1, <1>2, TopicKinds

\* Events that tell of all differences but those raised to doubts keep a reader
\* up to date with one device.
LEMMA HeardFollows ==
    ASSUME NEW prev, NEW cur, NEW said, NEW dubious, NEW kept, NEW lost,
           Follows(prev, said, dubious),
           kept \cup lost = DiffTopics(prev, cur)
    PROVE  Follows(cur, Heard(said, cur, kept), DoubtsOf(dubious, kept, lost))
<1>. DEFINE heard == Heard(said, cur, kept)
            doubts == DoubtsOf(dubious, kept, lost)
<1>. SUFFICES ASSUME NEW t \in Topics \ doubts,
                     \/ t = "presence"
                     \/ cur # NULL /\ (t = "interface" => EntityType(cur) = "interface")
              PROVE  heard[t] \in {Unheard, Value(cur, t)}
  BY DEF Follows
<1>1. "presence" \notin lost /\ t \notin lost
  BY DEF DoubtsOf
<1>2. CASE t \in kept
  BY <1>2 DEF Heard
<1>3. CASE t \notin kept /\ "presence" \in kept
  BY <1>3 DEF Heard
<1>4. CASE t \notin kept /\ "presence" \notin kept
  <2>1. heard[t] = said[t] /\ t \notin dubious
    BY <1>4, <1>1 DEF Heard, DoubtsOf
  <2>2. "presence" \notin DiffTopics(prev, cur) /\ t \notin DiffTopics(prev, cur)
    BY <1>1, <1>4
  <2>3. prev = NULL <=> cur = NULL
    BY <2>2, TopicsAssumption DEF DiffTopics
  <2>4. CASE t = "presence"
    BY <2>1, <2>3, <2>4, ValuePresence DEF Follows
  <2>5. CASE t # "presence"
    BY <2>1, <2>2, <2>3, <2>5, UnloggedIsSame DEF Follows
  <2>. QED  BY <2>4, <2>5
<1>. QED  BY <1>2, <1>3, <1>4

-----------------------------------------------------------------------------
\* What must be known of the time when there is no readable snapshot: before
\* the first one nothing was heard, after a torn one everything is in doubt.
IInv ==
    /\ file \in {"missing", "readable", "torn"}
    /\ file = "missing" => \A m \in Macs : told[m] = Silence
    /\ file = "torn" => \A m \in Macs : doubt[m] = Topics
    /\ file = "readable" => \A m \in Macs : Follows(snapshot[m], told[m], doubt[m])

LEMMA IInvIsLogHeals == IInv => LogHeals
  BY DEF IInv, LogHeals, Follows, Sought

\* Whatever is merged and logged of a device, a reader follows.
LEMMA WriteFollows ==
    ASSUME IInv, NEW report, NEW m \in Macs, NEW lost,
           lost \subseteq Logged(report)[m]
    PROVE  LET kept == Logged(report)[m] \ lost
           IN  Follows(Current(report)[m], Heard(told[m], Current(report)[m], kept),
                       Doubts(m, kept, lost))
<1>. DEFINE kept == Logged(report)[m] \ lost
            cur == Current(report)[m]
<1>0. Doubts(m, kept, lost) = DoubtsOf(doubt[m], kept, lost)
  BY DEF Doubts, DoubtsOf
<1>1. CASE file = "readable"
  <2>1. Logged(report)[m] = DiffTopics(snapshot[m], cur)
    BY <1>1 DEF Logged
  <2>2. kept \cup lost = DiffTopics(snapshot[m], cur)
    BY <2>1
  <2>3. Follows(snapshot[m], told[m], doubt[m])
    BY <1>1 DEF IInv
  <2>. QED  BY <1>0, <2>2, <2>3, HeardFollows
<1>2. CASE file # "readable"
  <2>1. lost = {} /\ kept = {}
    BY <1>2 DEF Logged
  <2>2. Doubts(m, kept, lost) = doubt[m]
    BY <2>1 DEF Doubts
  <2>3. \A t \in Topics : Heard(told[m], cur, kept)[t] = told[m][t]
    BY <2>1 DEF Heard
  <2>4. CASE file = "missing"
    BY <2>2, <2>3, <2>4 DEF IInv, Silence, Follows
  <2>5. CASE file = "torn"
    BY <2>2, <2>5 DEF IInv, Follows
  <2>. QED  BY <1>2, <2>4, <2>5 DEF IInv
<1>. QED  BY <1>1, <1>2

LEMMA StepIInv == ASSUME IInv, [Next]_vars PROVE IInv'
<1>1. CASE UNCHANGED vars
  BY <1>1 DEF vars, IInv, Follows
<1>2. ASSUME NEW report \in [Macs -> Reports \cup {NULL}], Poll(report)
      PROVE  IInv'
  <2>1. ASSUME NEW m \in Macs PROVE Follows(snapshot'[m], told'[m], doubt'[m])
    <3>1. Logged(report)[m] \ {} = Logged(report)[m]
      OBVIOUS
    <3>2. /\ snapshot'[m] = Current(report)[m]
          /\ told'[m] = Heard(told[m], Current(report)[m], Logged(report)[m])
          /\ doubt'[m] = Doubts(m, Logged(report)[m], {})
      BY <1>2 DEF Poll, Tell
    <3>. QED  BY <3>1, <3>2, WriteFollows
  <2>. QED  BY <1>2, <2>1 DEF Poll, IInv
<1>3. ASSUME NEW report \in [Macs -> Reports \cup {NULL}], AppendFails(report)
      PROVE  IInv'
  <2>1. PICK lost \in [Macs -> SUBSET (UNION Range(Logged(report)))] :
            LET kept == [m \in Macs |-> Logged(report)[m] \ lost[m]]
            IN  /\ \A m \in Macs : lost[m] \subseteq Logged(report)[m]
                /\ Tell(report, kept)
                /\ doubt' = [m \in Macs |-> Doubts(m, kept[m], lost[m])]
    BY <1>3 DEF AppendFails
  <2>2. ASSUME NEW m \in Macs PROVE Follows(snapshot'[m], told'[m], doubt'[m])
    <3>. DEFINE keptHere == Logged(report)[m] \ lost[m]
    <3>1. lost[m] \subseteq Logged(report)[m]
      BY <2>1
    <3>2. /\ told'[m] = Heard(told[m], Current(report)[m], keptHere)
          /\ doubt'[m] = Doubts(m, keptHere, lost[m])
      BY <2>1 DEF Tell
    <3>3. snapshot'[m] = Current(report)[m]
      BY <1>3 DEF AppendFails
    <3>. QED  BY <3>1, <3>2, <3>3, WriteFollows
  <2>. QED  BY <1>3, <2>2 DEF AppendFails, IInv
<1>4. ASSUME NEW report \in [Macs -> Reports \cup {NULL}], SaveFails(report)
      PROVE  IInv'
  <2>1. ASSUME NEW m \in Macs
        PROVE  /\ told'[m] = Heard(told[m], Current(report)[m], Logged(report)[m])
               /\ doubt'[m] = Doubts(m, {}, Logged(report)[m])
               /\ snapshot'[m] = snapshot[m]
    BY <1>4 DEF SaveFails, Tell
  <2>2. file' = file
    BY <1>4 DEF SaveFails
  <2>3. CASE file = "readable"
    <3>1. ASSUME NEW m \in Macs PROVE Follows(snapshot'[m], told'[m], doubt'[m])
      <4>1. Follows(snapshot[m], told[m], doubt[m])
        BY <2>3 DEF IInv
      <4>2. CASE "presence" \in Logged(report)[m]
        BY <2>1, <4>2 DEF Doubts, Follows
      <4>3. CASE "presence" \notin Logged(report)[m]
        <5>1. doubt'[m] = doubt[m] \cup Logged(report)[m]
          BY <2>1, <4>3 DEF Doubts
        <5>2. \A t \in Topics \ Logged(report)[m] : told'[m][t] = told[m][t]
          BY <2>1, <4>3 DEF Heard
        <5>. QED  BY <2>1, <4>1, <5>1, <5>2 DEF Follows
      <4>. QED  BY <4>2, <4>3
    <3>. QED  BY <2>2, <2>3, <3>1 DEF IInv
  <2>4. CASE file # "readable"
    <3>1. \A m \in Macs : Logged(report)[m] = {}
      BY <2>4 DEF Logged
    <3>2. \A m \in Macs : doubt'[m] = doubt[m]
      BY <2>1, <3>1 DEF Doubts
    <3>3. \A m \in Macs : told'[m] = [t \in Topics |-> told[m][t]]
      BY <2>1, <3>1 DEF Heard
    <3>4. file = "missing" => \A m \in Macs : told'[m] = Silence
      BY <3>3 DEF IInv, Silence
    <3>. QED  BY <2>2, <2>4, <3>2, <3>4 DEF IInv
  <2>. QED  BY <2>3, <2>4
<1>5. ASSUME NEW report \in [Macs -> Reports \cup {NULL}], SaveTears(report)
      PROVE  IInv'
  BY <1>5 DEF SaveTears, IInv
<1>. QED  BY <1>1, <1>2, <1>3, <1>4, <1>5 DEF Next

\* Whatever polls fail to append, to write or to finish writing, what the log
\* said last of a topic that no fault touched is its value in the latest
\* snapshot: the chain of events from _generate_diff_events has no gap.
THEOREM LogIsFollowed == Spec => []LogHeals
<1>1. Init => IInv
  BY DEF Init, IInv
<1>2. IInv /\ [Next]_vars => IInv'
  BY StepIInv
<1>3. IInv => LogHeals
  BY IInvIsLogHeals
<1>. QED  BY <1>1, <1>2, <1>3, PTL DEF Spec

-----------------------------------------------------------------------------
\* A report without an address from a device that is offline leaves the
\* address as it was: Identity restores any that was known.
LEMMA OfflineKeepsIp ==
    ASSUME NEW prev, prev # NULL, NEW obs,
           FusedDeviceState(obs.arp, obs.bridge) = "offline",
           Stored(prev, obs).ip = NULL
    PROVE  prev.ip = NULL
  BY IpsAssumption DEF Stored, Identity, LastKnownIp

\* An event about the address says that it is gone only of a device that was
\* not reported offline, if the address is followed at all: the diff compares
\* with what the merge restored.
THEOREM QuietIsKept == "ip_address" \in Topics => (Spec => QuietKeepsAddress)
<1>. SUFFICES ASSUME "ip_address" \in Topics
              PROVE  Spec => QuietKeepsAddress
  OBVIOUS
<1>1. ASSUME faults \in Nat, [Next]_vars, NEW m \in Macs, faults' = faults,
             snapshot'[m] # NULL,
             FusedDeviceState(snapshot'[m].arp, snapshot'[m].bridge) = "offline",
             told'[m]["ip_address"] = NULL
      PROVE  told[m]["ip_address"] = NULL
  <2>1. CASE UNCHANGED vars
    BY <1>1, <2>1 DEF vars
  <2>2. CASE \E report \in [Macs -> Reports \cup {NULL}] : Poll(report)
    <3>1. PICK report \in [Macs -> Reports \cup {NULL}] : Poll(report)
      BY <2>2
    <3>. DEFINE prev == snapshot[m]
                cur == Current(report)[m]
                logged == Logged(report)[m]
    <3>2. snapshot'[m] = cur /\ told'[m] = Heard(told[m], cur, logged)
      BY <3>1 DEF Poll, Tell
    <3>3. cur = Stored(prev, report[m])
      BY <1>1, <3>2 DEF Current
    <3>4. CASE "ip_address" \in logged
      <4>1. cur.ip = NULL
        BY <1>1, <3>2, <3>4 DEF Heard, Value
      <4>2. /\ cur.arp = report[m].arp /\ cur.bridge = report[m].bridge
        BY <3>3 DEF Stored
      <4>3. prev # NULL /\ Value(prev, "ip_address") # Value(cur, "ip_address")
        BY <1>1, <3>2, <3>4 DEF Logged, DiffTopics, ChangedTopics
      <4>4. prev.ip = NULL
        BY <1>1, <3>2, <3>3, <4>1, <4>2, <4>3, OfflineKeepsIp
      <4>. QED  BY <4>1, <4>3, <4>4 DEF Value
    <3>5. CASE "ip_address" \notin logged
      BY <1>1, <3>2, <3>5, UnheardAssumption DEF Heard
    <3>. QED  BY <3>4, <3>5
  <2>3. ~\E report \in [Macs -> Reports \cup {NULL}] :
             AppendFails(report) \/ SaveFails(report) \/ SaveTears(report)
    BY <1>1 DEF AppendFails, SaveFails, SaveTears, Fault
  <2>. QED  BY <1>1, <2>1, <2>2, <2>3 DEF Next
<1>2. faults \in Nat /\ [Next]_vars =>
          [\A m \in Macs :
              /\ faults' = faults
              /\ snapshot'[m] # NULL
              /\ FusedDeviceState(snapshot'[m].arp, snapshot'[m].bridge) = "offline"
              /\ told'[m]["ip_address"] = NULL
              => told[m]["ip_address"] = NULL]_vars
  BY <1>1
<1>3. Init => faults \in Nat
  BY DEF Init
<1>4. faults \in Nat /\ [Next]_vars => (faults \in Nat)'
  BY DEF Next, Poll, AppendFails, SaveFails, SaveTears, Fault, vars
<1>. QED  BY <1>2, <1>3, <1>4, PTL DEF Spec, QuietKeepsAddress
=============================================================================
