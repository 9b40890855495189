------------------------- MODULE SessionHistoryProofs -------------------------
(***************************************************************************)
(* The invariants of SessionHistory hold for every set of devices, every   *)
(* timeout and every clock bound.                                          *)
(*                                                                         *)
(* The merge of one device is a function of that device alone, so the work *)
(* is in lemmas about FirstSeen and Merged; the invariant of the whole     *)
(* snapshot follows device by device.                                      *)
(***************************************************************************)
EXTENDS SessionHistory, TLAPS

USE IdleTimeoutAssumption, NullAssumption, ArpStatusesAssumption,
    IpsAssumption, MaxTimeAssumption

StampTypes == [state_changed_at : Timestamps, online_since : Timestamps,
               idle_since : Timestamps, offline_since : Timestamps]

\* The states the merge computes are presence states.
LEMMA MergeStateType ==
    ASSUME NEW prev \in Devices, NEW obs \in Observations, NEW t \in Nat
    PROVE  /\ FusedDeviceState(obs.arp, obs.bridge) \in States
           /\ ResolvePreviousEffectiveState(prev, t) \in States
           /\ MergeState(prev, obs, t) \in States
           /\ MergedFusedState(prev, obs, t) \in States
           /\ TransitionPreviousState(prev, obs, t) \in States
<1>1. prev.fused \in States /\ prev.bridge \in BOOLEAN
  BY DEF Devices
<1>2. FusedDeviceState(obs.arp, obs.bridge) \in States
  BY DEF FusedDeviceState, States
<1>3. DeriveDeviceState(prev) \in States
  BY <1>1 DEF DeriveDeviceState, States
<1>4. ResolvePreviousEffectiveState(prev, t) \in States
  BY <1>3 DEF ResolvePreviousEffectiveState, States
<1>5. RecalculateStateOnBridgeHostLoss(obs.arp) \in States
  BY DEF RecalculateStateOnBridgeHostLoss, States
<1>6. MergeState(prev, obs, t) \in States
  BY <1>2, <1>4, <1>5 DEF MergeState, States
<1>7. MergedFusedState(prev, obs, t) \in States
  BY <1>6 DEF MergedFusedState, States
<1>8. TransitionPreviousState(prev, obs, t) \in States
  BY <1>3, <1>4 DEF TransitionPreviousState
<1> QED
  BY <1>2, <1>4, <1>6, <1>7, <1>8

\* A report of unknown state carries no presence evidence, so the stored
\* state is always the merged one.
LEMMA MergedFusedStateIsMergeState ==
    ASSUME NEW prev \in Devices, NEW obs \in Observations, NEW t \in Nat
    PROVE  MergedFusedState(prev, obs, t) = MergeState(prev, obs, t)
BY DEF MergedFusedState, UnknownWithEvidence, FusedDeviceState,
       HasPresenceEvidence, OnlineArp

\* What the rules guarantee about the pair of states a transition is
\* counted between, for a coherent previous device.
LEMMA TransitionFacts ==
    ASSUME NEW prev \in Devices, Coherent(prev),
           NEW obs \in Observations, NEW t \in Nat,
           NEW from, from = TransitionPreviousState(prev, obs, t),
           NEW to, to = MergeState(prev, obs, t)
    PROVE  /\ from # "offline" => prev.offline_since = NULL /\ prev.fused = from
           /\ from = "offline" => to # "idle"
           /\ from = "offline" /\ to = "offline" => prev.offline_since # NULL
           /\ obs.bridge => to = "online"
           /\ to = "idle" => prev.fused # "idle" \/ ~IdleTimeoutExceeded(prev, t)
<1> QED
  BY DEF TransitionPreviousState, MergeState, ResolvePreviousEffectiveState,
         DeriveDeviceState, IdleTimeoutForcesOffline, Coherent, FusedDeviceState,
         RecalculateStateOnBridgeHostLoss, UnknownWithEvidence,
         HasPresenceEvidence, OnlineArp, Up, Devices, Observations

\* The invariant of one device of a snapshot taken at time t.
DeviceInv(d, t) ==
    /\ d \in Devices
    /\ Coherent(d)
    /\ Ordered(d, t)
    /\ d.fused = "idle" => t - d.idle_since < IdleTimeout

\* The identity fields of a merged device have their types.
LEMMA IdentityType ==
    ASSUME NEW prev \in Devices, NEW obs \in Observations
    PROVE  Identity(prev, obs) \in
               [ip : Ips \cup {NULL}, last_known_ip : Ips \cup {NULL},
                ip_is_stale : BOOLEAN]
BY DEF Identity, LastKnownIp, Devices, Observations

\* What the timestamps of a device of state "state" at time t must satisfy;
\* DeviceInv without the fields that are not timestamps.
StampInv(s, state, t) ==
    /\ s \in StampTypes
    /\ state \in Up => s.online_since # NULL /\ s.offline_since = NULL
    /\ state = "idle" <=> s.idle_since # NULL
    /\ state = "offline" => s.offline_since # NULL
    /\ Ordered(s, t)
    /\ state = "idle" => t - s.idle_since < IdleTimeout

\* Assembling a device out of good parts gives a good device.
LEMMA AssembleInv ==
    ASSUME NEW obs \in Observations, NEW state \in States, NEW t \in Nat,
           NEW id \in [ip : Ips \cup {NULL}, last_known_ip : Ips \cup {NULL},
                       ip_is_stale : BOOLEAN],
           NEW s, StampInv(s, state, t),
           obs.bridge => state = "online"
    PROVE  DeviceInv(Assemble(obs, state, id, s), t)
BY DEF Assemble, DeviceInv, Devices, Coherent, Ordered, NotAfter, StampInv, StampTypes,
       Observations

\* The timestamps of a device the previous snapshot does not hold.
LEMMA FirstStampsInv ==
    ASSUME NEW state \in States, NEW t \in Nat
    PROVE  StampInv(FirstStamps(state, t), state, t)
<1>1. CASE state = "online"
  <2>1. FirstStamps(state, t) = Stamps(t, t, NULL, NULL)
    BY <1>1 DEF FirstStamps, InitializeMissing, Stamps, Up
  <2> QED
    BY <1>1, <2>1 DEF Stamps, StampInv, StampTypes, Ordered, NotAfter, Up, Timestamps
<1>2. CASE state = "idle"
  <2>1. FirstStamps(state, t) = Stamps(t, t, t, NULL)
    BY <1>2 DEF FirstStamps, InitializeMissing, Stamps, Up
  <2> QED
    BY <1>2, <2>1 DEF Stamps, StampInv, StampTypes, Ordered, NotAfter, Up, Timestamps
<1>3. CASE state = "offline"
  <2>1. FirstStamps(state, t) = Stamps(t, NULL, NULL, t)
    BY <1>3 DEF FirstStamps, InitializeMissing, Stamps, Up
  <2> QED
    BY <1>3, <2>1 DEF Stamps, StampInv, StampTypes, Ordered, NotAfter, Up, Timestamps
<1>4. CASE state = "unknown"
  <2>1. FirstStamps(state, t) = Stamps(NULL, NULL, NULL, NULL)
    BY <1>4 DEF FirstStamps, InitializeMissing, Stamps, Up
  <2> QED
    BY <1>4, <2>1 DEF Stamps, StampInv, StampTypes, Ordered, NotAfter, Up, Timestamps
<1> QED
  BY <1>1, <1>2, <1>3, <1>4 DEF States

\* A device seen for the first time satisfies the invariant.
LEMMA FirstSeenInv ==
    ASSUME NEW obs \in Observations, NEW t \in Nat
    PROVE  DeviceInv(FirstSeen(obs, t), t)
<1> DEFINE state == FusedDeviceState(obs.arp, obs.bridge)
<1>1. state \in States /\ (obs.bridge => state = "online")
  BY DEF FusedDeviceState, States
<1>2. StampInv(FirstStamps(state, t), state, t)
  BY <1>1, FirstStampsInv
<1>3. [ip |-> obs.ip, last_known_ip |-> obs.ip, ip_is_stale |-> FALSE] \in
          [ip : Ips \cup {NULL}, last_known_ip : Ips \cup {NULL},
           ip_is_stale : BOOLEAN]
  BY DEF Observations
<1> QED
  BY <1>1, <1>2, <1>3, AssembleInv DEF FirstSeen

\* The merged timestamps satisfy the invariant whenever the previous device
\* did, at the time of the previous snapshot.
LEMMA MergedStampsInv ==
    ASSUME NEW prev \in Devices, NEW u \in Nat, DeviceInv(prev, u),
           NEW obs \in Observations, NEW t \in Nat, u <= t
    PROVE  StampInv(MergedStamps(prev, obs, t), MergeState(prev, obs, t), t)
<1> DEFINE from == TransitionPreviousState(prev, obs, t)
           to   == MergeState(prev, obs, t)
<1>1. from \in States /\ to \in States
  BY MergeStateType
<1>2. Coherent(prev) /\ Ordered(prev, t)
  BY DEF DeviceInv, Ordered, NotAfter, Devices, Timestamps
<1>3. /\ from # "offline" => prev.offline_since = NULL /\ prev.fused = from
      /\ from = "offline" => to # "idle"
      /\ from = "offline" /\ to = "offline" => prev.offline_since # NULL
      /\ to = "idle" => prev.fused # "idle" \/ ~IdleTimeoutExceeded(prev, t)
  BY <1>2, TransitionFacts
<1>4. SanitizedCurrent(from, to, HasReconnectEvidence(obs)) = to
  BY <1>3 DEF SanitizedCurrent
<1>5. CASE from # to
  <2>1. MergedStamps(prev, obs, t) =
            InitializeMissing(TransitionStamps(prev, from, to, t), to, t)
    BY <1>4, <1>5 DEF MergedStamps
  <2> QED
    BY <1>1, <1>2, <1>3, <1>5, <2>1
       DEF TransitionStamps, InitializeMissing, Stamps, StampInv, StampTypes,
           Coherent, Ordered, NotAfter, States, Up, Timestamps, Devices
<1>6. CASE from = to
  <2> DEFINE changed == DeviceChanged(prev, obs)
  <2>1. MergedStamps(prev, obs, t) =
            InitializeMissing(UnchangedStamps(prev, to, changed, t), to, t)
    BY <1>4, <1>6 DEF MergedStamps
  <2> QED
    BY <1>1, <1>2, <1>3, <1>6, <2>1
       DEF UnchangedStamps, InitializeMissing, Stamps, StampInv, StampTypes,
           Coherent, Ordered, NotAfter, States, Up, Timestamps, Devices,
           IdleTimeoutExceeded
<1> QED
  BY <1>5, <1>6

\* The merge of a device preserves the invariant.
LEMMA MergeDeviceInv ==
    ASSUME NEW prev \in Devices \cup {NULL}, NEW obs \in Observations,
           NEW u \in Nat, NEW t \in Nat, u <= t,
           prev # NULL => DeviceInv(prev, u)
    PROVE  DeviceInv(MergeDevice(prev, obs, t), t)
<1>1. CASE prev = NULL
  BY <1>1, FirstSeenInv DEF MergeDevice
<1>2. CASE prev # NULL
  <2>1. prev \in Devices /\ DeviceInv(prev, u) /\ Coherent(prev)
    BY <1>2 DEF DeviceInv
  <2>2. MergedFusedState(prev, obs, t) = MergeState(prev, obs, t)
    BY <2>1, MergedFusedStateIsMergeState
  <2>3. MergeState(prev, obs, t) \in States
    BY <2>1, MergeStateType
  <2>4. obs.bridge => MergeState(prev, obs, t) = "online"
    BY <2>1, TransitionFacts
  <2>5. StampInv(MergedStamps(prev, obs, t), MergeState(prev, obs, t), t)
    BY <2>1, MergedStampsInv
  <2>6. DeviceInv(Merged(prev, obs, t), t)
    BY <2>1, <2>2, <2>3, <2>4, <2>5, IdentityType, AssembleInv DEF Merged
  <2> QED
    BY <1>2, <2>6 DEF MergeDevice
<1> QED
  BY <1>1, <1>2

-----------------------------------------------------------------------------
(* The invariant of the whole snapshot.                                    *)

\* TypeOK alone is not inductive for the timestamps, nor is the coherence of
\* states and timestamps without their order: the timeout is measured on
\* idle_since, and an offline start counts only with its state.
Inv ==
    /\ TypeOK
    /\ \A m \in Macs : InSnapshot(m) =>
           snapshotTime # NULL /\ DeviceInv(snapshot[m], snapshotTime)

\* The first poll finds no snapshot.
LEMMA InitInv == Init => Inv
BY DEF Init, Inv, TypeOK, NoDevices, InSnapshot

\* Saving one report keeps the invariant, device by device.
LEMMA SaveInv ==
    ASSUME Inv, SaveSnapshot
    PROVE  Inv'
<1>1. PICK report \in [Macs -> Observations \cup {NULL}] :
          /\ snapshot' = [m \in Macs |->
                 IF report[m] = NULL THEN NULL
                 ELSE MergeDevice(snapshot[m], report[m], now)]
          /\ snapshotTime' = now
          /\ UNCHANGED now
  BY DEF SaveSnapshot
<1>2. now \in Nat /\ snapshotTime \in (0 .. now) \cup {NULL}
  BY DEF Inv, TypeOK
<1>3. ASSUME NEW m \in Macs
      PROVE  snapshot'[m] = NULL \/ DeviceInv(snapshot'[m], now)
  <2>1. CASE report[m] = NULL
    BY <1>1, <2>1
  <2>2. CASE report[m] # NULL
    <3>1. report[m] \in Observations
      BY <2>2
    <3>2. snapshot[m] \in Devices \cup {NULL}
      BY DEF Inv, TypeOK
    <3>3. DeviceInv(MergeDevice(snapshot[m], report[m], now), now)
      <4>1. CASE snapshot[m] = NULL
        BY <1>2, <3>1, <4>1, MergeDeviceInv
      <4>2. CASE snapshot[m] # NULL
        <5>1. /\ snapshotTime \in Nat /\ snapshotTime <= now
              /\ DeviceInv(snapshot[m], snapshotTime)
          BY <1>2, <4>2 DEF Inv, InSnapshot
        <5> QED
          BY <1>2, <3>1, <3>2, <5>1, MergeDeviceInv
      <4> QED
        BY <4>1, <4>2
    <3> QED
      BY <1>1, <2>2, <3>3
  <2> QED
    BY <2>1, <2>2
<1>4. snapshot' \in [Macs -> Devices \cup {NULL}]
  BY <1>1, <1>3 DEF DeviceInv
<1> QED
  BY <1>1, <1>2, <1>3, <1>4 DEF Inv, TypeOK, InSnapshot

\* A tick, a save and a torn snapshot file preserve the invariant.
LEMMA NextInv == Inv /\ [Next]_vars => Inv'
<1> SUFFICES ASSUME Inv, [Next]_vars PROVE Inv'
  OBVIOUS
<1>1. CASE Tick
  BY <1>1 DEF Inv, TypeOK, InSnapshot, Tick
<1>2. CASE SaveSnapshot
  BY <1>2, SaveInv
<1>3. CASE CrashWhileSaving
  BY <1>3 DEF Inv, TypeOK, InSnapshot, CrashWhileSaving, NoDevices
<1>4. CASE UNCHANGED vars
  BY <1>4 DEF Inv, TypeOK, InSnapshot, vars
<1> QED
  BY <1>1, <1>2, <1>3, <1>4 DEF Next

\* In every reachable state of the poll loop the invariant holds: every
\* snapshot is typed, and each device of it coherent, ordered and in time.
THEOREM Invariance == Spec => []Inv
BY InitInv, NextInv, PTL DEF Spec

\* The snapshots are well typed: the merge (_apply_stable_timestamps) stores
\* presence states and timestamps only, for all devices and any timeout.
THEOREM TypeCorrectness == Spec => []TypeOK
<1>1. Inv => TypeOK
  BY DEF Inv
<1> QED
  BY <1>1, Invariance, PTL

\* State and timestamps of every stored device tell the same story.
THEOREM Coherence == Spec => []SessionCoherence
<1>1. Inv => SessionCoherence
  BY DEF Inv, SessionCoherence, DeviceInv
<1> QED
  BY <1>1, Invariance, PTL

\* The timestamps of every stored device are ordered and not in the future
\* of the poll that stored them.
THEOREM Order == Spec => []TimestampOrder
<1>1. Inv => TimestampOrder
  BY DEF Inv, TimestampOrder, DeviceInv
<1> QED
  BY <1>1, Invariance, PTL

\* No poll stores a device as idle whose idle timeout has expired.
THEOREM Timeout == Spec => []IdleWithinTimeout
<1>1. Inv => IdleWithinTimeout
  BY DEF Inv, IdleWithinTimeout, DeviceInv
<1> QED
  BY <1>1, Invariance, PTL

-----------------------------------------------------------------------------
(* The merge implements the abstract session machine.                      *)

\* What the merged timestamps are, by the pair of states.
LEMMA MergedStampsCases ==
    ASSUME NEW prev \in Devices, NEW u \in Nat, DeviceInv(prev, u),
           NEW obs \in Observations, NEW t \in Nat,
           NEW from, from = TransitionPreviousState(prev, obs, t),
           NEW to, to = MergeState(prev, obs, t),
           NEW s, s = MergedStamps(prev, obs, t)
    PROVE  /\ from = "offline" /\ to = "online" =>
                  s.online_since = t /\ s.idle_since = NULL /\ s.offline_since = NULL
           /\ from = "offline" /\ to \in {"offline", "unknown"} =>
                  s.offline_since = prev.offline_since /\ s.idle_since = NULL
           /\ from # "offline" /\ to = "offline" =>
                  s.offline_since = t /\ s.idle_since = NULL
           /\ from # "offline" /\ to \in Up =>
                  /\ s.online_since = IF prev.online_since = NULL THEN t
                                      ELSE prev.online_since
                  /\ s.offline_since = NULL
                  /\ s.idle_since = IF to = "online" THEN NULL
                                    ELSE IF from = "idle" THEN prev.idle_since
                                    ELSE t
           /\ from # "offline" /\ to = "unknown" =>
                  /\ s.online_since = prev.online_since
                  /\ s.offline_since = NULL /\ s.idle_since = NULL
<1>1. from \in States /\ to \in States
  BY MergeStateType
<1>2. Coherent(prev)
  BY DEF DeviceInv
<1>3. /\ from # "offline" => prev.offline_since = NULL /\ prev.fused = from
      /\ from = "offline" => to # "idle"
      /\ from = "offline" /\ to = "offline" => prev.offline_since # NULL
  BY <1>2, TransitionFacts
<1>4. SanitizedCurrent(from, to, HasReconnectEvidence(obs)) = to
  BY <1>3 DEF SanitizedCurrent
<1>5. s = InitializeMissing(
              IF from # to THEN TransitionStamps(prev, from, to, t)
              ELSE UnchangedStamps(prev, to, DeviceChanged(prev, obs), t),
              to, t)
  BY <1>4 DEF MergedStamps
<1>6. CASE from # to
  BY <1>1, <1>2, <1>3, <1>5, <1>6
     DEF TransitionStamps, InitializeMissing, Stamps, Coherent, States, Up,
         Timestamps, Devices
<1>7. CASE from = to
  BY <1>1, <1>2, <1>3, <1>5, <1>7
     DEF UnchangedStamps, InitializeMissing, Stamps, Coherent, States, Up,
         Timestamps, Devices
<1> QED
  BY <1>6, <1>7

\* How the pair of states depends on the idle timeout of the previous device.
LEMMA TimeoutFacts ==
    ASSUME NEW prev \in Devices, Coherent(prev),
           NEW obs \in Observations, NEW t \in Nat,
           NEW from, from = TransitionPreviousState(prev, obs, t),
           NEW to, to = MergeState(prev, obs, t)
    PROVE  /\ from = "offline" /\ prev.offline_since = NULL =>
                  prev.fused = "idle" /\ IdleTimeoutExceeded(prev, t) /\ to = "online"
           /\ from # "offline" /\ prev.fused = "idle" /\ IdleTimeoutExceeded(prev, t) =>
                  to = "offline"
BY DEF TransitionPreviousState, MergeState, ResolvePreviousEffectiveState,
       DeriveDeviceState, IdleTimeoutForcesOffline, Coherent, FusedDeviceState,
       RecalculateStateOnBridgeHostLoss, UnknownWithEvidence,
       HasPresenceEvidence, OnlineArp, Up, Devices, Observations

\* A first report opens, closes or suspends a session of its own.
LEMMA FirstSeenRefines ==
    ASSUME NEW obs \in Observations, NEW t \in Nat
    PROVE  SessionOf(FirstSeen(obs, t)) \in
               Session!Successors(SessionOf(NULL), t)
<1> DEFINE state == FusedDeviceState(obs.arp, obs.bridge)
           d     == FirstSeen(obs, t)
<1>1. state \in States
  BY DEF FusedDeviceState, States
<1>2. d \in Devices
  BY FirstSeenInv DEF DeviceInv
<1>3. /\ d.fused = state
      /\ d.online_since = FirstStamps(state, t).online_since
      /\ d.idle_since = FirstStamps(state, t).idle_since
      /\ d.offline_since = FirstStamps(state, t).offline_since
  BY DEF FirstSeen, Assemble
<1>4. SessionOf(NULL).phase = "absent" /\ SessionOf(NULL) = Session!Absent
  BY DEF SessionOf, Session!Absent, Session!Session
<1>5. CASE d = NULL
  BY <1>4, <1>5 DEF Session!Successors
<1>6. ASSUME d # NULL
      PROVE
      /\ state = "online" => SessionOf(d) = Session!UpSince(t, NULL)
      /\ state = "idle" => SessionOf(d) = Session!UpSince(t, t + IdleTimeout)
      /\ state = "offline" => SessionOf(d) = Session!DownSince(t)
      /\ state = "unknown" => SessionOf(d) = Session!LimboSince(NULL)
  BY <1>3, <1>6
     DEF SessionOf, FirstStamps, InitializeMissing, Stamps, Up,
         Session!UpSince, Session!DownSince, Session!LimboSince,
         Session!Session
<1> QED
  BY <1>1, <1>4, <1>5, <1>6 DEF Session!Successors, Session!NewSessions, States

\* The merge of a known device takes one step of the session machine.
LEMMA MergedRefines ==
    ASSUME NEW prev \in Devices, prev # NULL,
           NEW u \in Nat, DeviceInv(prev, u),
           NEW obs \in Observations, NEW t \in Nat, u <= t
    PROVE  SessionOf(Merged(prev, obs, t)) \in
               Session!Successors(SessionOf(prev), t)
<1> DEFINE d    == Merged(prev, obs, t)
           from == TransitionPreviousState(prev, obs, t)
           to   == MergeState(prev, obs, t)
           s    == MergedStamps(prev, obs, t)
           old  == SessionOf(prev)
<1>1. Coherent(prev) /\ from \in States /\ to \in States
  BY MergeStateType DEF DeviceInv
<1>2. /\ d.fused = to /\ d.online_since = s.online_since
      /\ d.idle_since = s.idle_since /\ d.offline_since = s.offline_since
  BY MergedFusedStateIsMergeState DEF Merged, Assemble
<1>3. /\ from # "offline" => prev.offline_since = NULL /\ prev.fused = from
      /\ from = "offline" => to # "idle"
      /\ from = "offline" /\ to = "offline" => prev.offline_since # NULL
  BY <1>1, TransitionFacts
<1>4. /\ from = "offline" /\ prev.offline_since = NULL =>
             prev.fused = "idle" /\ IdleTimeoutExceeded(prev, t) /\ to = "online"
      /\ from # "offline" /\ prev.fused = "idle" /\ IdleTimeoutExceeded(prev, t) =>
             to = "offline"
  BY <1>1, TimeoutFacts
<1>5. prev.offline_since # NULL => old = Session!DownSince(prev.offline_since)
  BY DEF SessionOf, Session!DownSince, Session!Session
<1>6. prev.offline_since = NULL /\ prev.fused \in Up =>
          /\ old.phase = "up" /\ old.since = prev.online_since
          /\ old = Session!UpSince(prev.online_since,
                     IF prev.fused = "idle" THEN prev.idle_since + IdleTimeout
                     ELSE NULL)
          /\ Session!Expired(old, t) <=>
                 prev.fused = "idle" /\ IdleTimeoutExceeded(prev, t)
          /\ old.deadline = NULL <=> prev.fused # "idle"
          /\ prev.online_since # NULL
  BY <1>1 DEF SessionOf, Session!UpSince, Session!Session, Session!Expired,
              IdleTimeoutExceeded, Coherent, Devices, Timestamps, Up, States
<1>7. prev.offline_since = NULL /\ prev.fused = "unknown" =>
          old = Session!LimboSince(prev.online_since)
  BY <1>1 DEF SessionOf, Session!LimboSince, Session!Session, Coherent, Up
<1>8. /\ d # NULL /\ s.offline_since # NULL =>
             SessionOf(d) = Session!DownSince(s.offline_since)
      /\ d # NULL /\ s.offline_since = NULL /\ to \in Up =>
             SessionOf(d) = Session!UpSince(s.online_since,
                 IF s.idle_since = NULL THEN NULL ELSE s.idle_since + IdleTimeout)
      /\ d # NULL /\ s.offline_since = NULL /\ to = "unknown" /\ s.idle_since = NULL =>
             SessionOf(d) = Session!LimboSince(s.online_since)
  BY <1>2 DEF SessionOf, Session!DownSince, Session!UpSince,
              Session!LimboSince, Session!Session, Up
<1>9. CASE d = NULL
  BY <1>9 DEF SessionOf, Session!Successors, Session!Absent, Session!Session
<1>10. CASE d # NULL /\ from = "offline" /\ prev.offline_since # NULL
  <2>1. old.phase = "down" /\ old = Session!DownSince(prev.offline_since)
    BY <1>5, <1>10 DEF Session!DownSince, Session!Session
  <2>2. to = "online" => SessionOf(d) = Session!UpSince(t, NULL)
    BY <1>1, <1>8, <1>10, MergedStampsCases DEF Up
  <2>3. to \in {"offline", "unknown"} => SessionOf(d) = old
    BY <1>1, <1>8, <1>10, <2>1, MergedStampsCases
  <2> QED
    BY <1>1, <1>3, <1>10, <2>1, <2>2, <2>3 DEF Session!Successors, States
<1>11. CASE d # NULL /\ from = "offline" /\ prev.offline_since = NULL
  <2>1. SessionOf(d) = Session!UpSince(t, NULL)
    BY <1>1, <1>4, <1>8, <1>11, MergedStampsCases DEF Up
  <2>2. old.phase = "up" /\ Session!Expired(old, t)
    BY <1>4, <1>6, <1>11 DEF Up
  <2> QED
    BY <2>1, <2>2 DEF Session!Successors
<1>12. CASE d # NULL /\ from \in Up
  <2>1. /\ old.phase = "up" /\ prev.online_since # NULL
        /\ old.since = prev.online_since
    BY <1>3, <1>6, <1>12 DEF Up
  <2>2. CASE to = "offline"
    <3>1. SessionOf(d) = Session!DownSince(t)
      BY <1>1, <1>8, <1>12, <2>2, MergedStampsCases DEF Up
    <3> QED
      BY <2>1, <3>1 DEF Session!Successors
  <2>3. CASE to # "offline"
    <3>1. ~Session!Expired(old, t)
      BY <1>3, <1>4, <1>6, <1>12, <2>3 DEF Up
    <3>2. to = "unknown" => SessionOf(d) = Session!LimboSince(old.since)
      BY <1>1, <1>8, <1>12, <2>1, MergedStampsCases DEF Up
    <3>3. to = "online" => SessionOf(d) = Session!UpSince(old.since, NULL)
      BY <1>1, <1>8, <1>12, <2>1, MergedStampsCases DEF Up
    <3>4. to = "idle" =>
              SessionOf(d) = IF old.deadline = NULL
                             THEN Session!UpSince(old.since, t + IdleTimeout)
                             ELSE old
      BY <1>1, <1>3, <1>6, <1>8, <1>12, <2>1, MergedStampsCases
         DEF Up, Coherent, States
    <3> QED
      BY <1>1, <2>1, <2>3, <3>1, <3>2, <3>3, <3>4
         DEF Session!Successors, States
  <2> QED
    BY <2>2, <2>3
<1>13. CASE d # NULL /\ from = "unknown"
  <2>1. old.phase = "limbo" /\ old = Session!LimboSince(prev.online_since)
        /\ old.since = prev.online_since
    BY <1>3, <1>7, <1>13 DEF Session!LimboSince, Session!Session
  <2>2. to = "offline" => SessionOf(d) = Session!DownSince(t)
    BY <1>1, <1>8, <1>13, MergedStampsCases
  <2>3. to = "unknown" => SessionOf(d) = old
    BY <1>1, <1>8, <1>13, <2>1, MergedStampsCases
  <2>4. to \in Up => SessionOf(d) \in
            Session!NewSessions(IF old.since = NULL THEN t ELSE old.since, t)
    BY <1>1, <1>8, <1>13, <2>1, MergedStampsCases DEF Up, Session!NewSessions
  <2> QED
    BY <1>1, <2>1, <2>2, <2>3, <2>4 DEF Session!Successors, States, Up
<1> QED
  BY <1>1, <1>9, <1>10, <1>11, <1>12, <1>13 DEF States, Up

\* Saving a report steps the session of every device of the report.
LEMMA SaveRefines ==
    ASSUME Inv, SaveSnapshot, NEW m \in Macs
    PROVE  SessionOf(snapshot'[m]) \in
               Session!Successors(SessionOf(snapshot[m]), now)
<1>1. PICK report \in [Macs -> Observations \cup {NULL}] :
          snapshot' = [k \in Macs |->
              IF report[k] = NULL THEN NULL
              ELSE MergeDevice(snapshot[k], report[k], now)]
  BY DEF SaveSnapshot
<1>2. now \in Nat /\ snapshot[m] \in Devices \cup {NULL}
  BY DEF Inv, TypeOK
<1>3. CASE report[m] = NULL
  BY <1>1, <1>3 DEF SessionOf, Session!Successors, Session!Absent, Session!Session
<1>4. CASE report[m] # NULL /\ snapshot[m] = NULL
  BY <1>1, <1>2, <1>4, FirstSeenRefines DEF MergeDevice
<1>5. CASE report[m] # NULL /\ snapshot[m] # NULL
  <2>1. /\ snapshotTime \in Nat /\ snapshotTime <= now
        /\ DeviceInv(snapshot[m], snapshotTime)
    BY <1>5 DEF Inv, TypeOK, InSnapshot
  <2>2. snapshot'[m] = Merged(snapshot[m], report[m], now)
    BY <1>1, <1>5 DEF MergeDevice
  <2> QED
    BY <1>2, <1>5, <2>1, <2>2, MergedRefines
<1> QED
  BY <1>3, <1>4, <1>5

\* The snapshots implement the abstract session machine of PresenceSession:
\* no branch of the merge moves the start of a running session, prolongs an
\* expired one or reopens a closed one.
THEOREM Refinement == Spec => ImplementsPresenceSession
<1> DEFINE sessions == [m \in Macs |-> SessionOf(snapshot[m])]
<1>1. Init => Session!SessionInit
  BY DEF Init, NoDevices, SessionOf, Session!SessionInit, Session!Absent,
         Session!Session
<1>2. Inv /\ [Next]_vars => [Session!SessionNext]_<<now, sessions>>
  <2> SUFFICES ASSUME Inv, [Next]_vars
               PROVE  [Session!SessionNext]_<<now, sessions>>
    OBVIOUS
  <2>1. CASE Tick
    <3>1. now' > now /\ sessions' = sessions
      BY <2>1 DEF Tick, Inv, TypeOK
    <3> QED
      BY <3>1 DEF Session!SessionNext, Session!Advance
  <2>2. CASE SaveSnapshot
    <3>1. UNCHANGED now
      BY <2>2 DEF SaveSnapshot
    <3>2. \A m \in Macs :
              sessions'[m] \in Session!Successors(sessions[m], now)
      BY <2>2, SaveRefines
    <3> QED
      BY <3>1, <3>2 DEF Session!SessionNext, Session!Poll
  <2>3. CASE CrashWhileSaving
    <3>1. UNCHANGED now
      BY <2>3 DEF CrashWhileSaving
    <3>2. \A m \in Macs :
              sessions'[m] \in Session!Successors(sessions[m], now)
      BY <2>3 DEF CrashWhileSaving, NoDevices, SessionOf, Session!Successors,
                  Session!Absent, Session!Session
    <3> QED
      BY <3>1, <3>2 DEF Session!SessionNext, Session!Poll
  <2>4. CASE UNCHANGED vars
    BY <2>4 DEF vars
  <2> QED
    BY <2>1, <2>2, <2>3, <2>4 DEF Next
<1> QED
  BY <1>1, <1>2, Invariance, PTL DEF Spec, ImplementsPresenceSession,
     Session!SessionSpec

-----------------------------------------------------------------------------
(* What a step may never do.                                               *)

\* What the merge makes of a session that the effective previous state says is
\* over, or is running.
LEMMA MergedSession ==
    ASSUME NEW prev \in Devices, NEW u \in Nat, DeviceInv(prev, u),
           NEW obs \in Observations, NEW t \in Nat,
           NEW d, d = Merged(prev, obs, t),
           NEW old, old = ResolvePreviousEffectiveState(prev, t)
    PROVE  /\ old \in States /\ d.fused \in States
           /\ d.bridge => d.fused = "online"
           /\ old = "offline" /\ d.fused \in Up =>
                  d.fused = "online" /\ d.online_since = t
           /\ old \in Up /\ d.fused = "offline" => d.offline_since = t
<1> DEFINE from == TransitionPreviousState(prev, obs, t)
           to   == MergeState(prev, obs, t)
           s    == MergedStamps(prev, obs, t)
<1>1. /\ d.fused = to /\ d.bridge = obs.bridge
      /\ d.online_since = s.online_since /\ d.offline_since = s.offline_since
  BY MergedFusedStateIsMergeState DEF Merged, Assemble
<1>2. Coherent(prev)
  BY DEF DeviceInv
<1>3. /\ from = "offline" => to # "idle"
      /\ obs.bridge => to = "online"
  BY <1>2, TransitionFacts
<1>4. old = "offline" /\ to \in Up => from = "offline"
  BY DEF TransitionPreviousState, MergeState, Up
<1>5. old \in Up => from # "offline"
  BY DEF TransitionPreviousState, ResolvePreviousEffectiveState,
         IdleTimeoutForcesOffline, Up
<1>6. /\ from = "offline" /\ to = "online" => s.online_since = t
      /\ from # "offline" /\ to = "offline" => s.offline_since = t
  BY MergedStampsCases
<1> QED
  BY <1>1, <1>3, <1>4, <1>5, <1>6, MergeStateType DEF Up

\* A device that is idle began to be idle when the previous one did, if that is
\* idle too, and now otherwise; it is not idle after a session that is over, and it
\* never carries the evidence of a reconnect.
LEMMA MergedIdle ==
    ASSUME NEW prev \in Devices, NEW u \in Nat, DeviceInv(prev, u),
           NEW obs \in Observations, NEW t \in Nat,
           NEW d, d = Merged(prev, obs, t), d.fused = "idle"
    PROVE  /\ d.idle_since = IF prev.fused = "idle" THEN prev.idle_since ELSE t
           /\ ResolvePreviousEffectiveState(prev, t) # "offline"
           /\ ~HasReconnectEvidence(d)
<1> DEFINE from == TransitionPreviousState(prev, obs, t)
           to   == MergeState(prev, obs, t)
           s    == MergedStamps(prev, obs, t)
<1>1. /\ to = "idle" /\ d.idle_since = s.idle_since
      /\ d.arp = obs.arp /\ d.bridge = obs.bridge
  BY MergedFusedStateIsMergeState DEF Merged, Assemble
<1>2. Coherent(prev)
  BY DEF DeviceInv
<1>3. from # "offline" /\ prev.fused = from /\ ~obs.bridge
  BY <1>1, <1>2, TransitionFacts
<1>4. d.idle_since = IF prev.fused = "idle" THEN prev.idle_since ELSE t
  BY <1>1, <1>3, MergedStampsCases DEF Up
<1>5. ResolvePreviousEffectiveState(prev, t) # "offline"
  BY <1>1, <1>3 DEF TransitionPreviousState, MergeState
<1>6. obs.arp \notin {"reachable", "complete"}
  BY <1>1, <1>3, <1>5
  DEF MergeState, FusedDeviceState, RecalculateStateOnBridgeHostLoss, OnlineArp,
      UnknownWithEvidence, HasPresenceEvidence
<1> QED
  BY <1>1, <1>3, <1>4, <1>5, <1>6 DEF HasReconnectEvidence

\* A device seen for the first time has been idle since then.
LEMMA FirstSeenIdle ==
    ASSUME NEW obs \in Observations, NEW t \in Nat,
           NEW d, d = FirstSeen(obs, t), d.fused = "idle"
    PROVE  d.idle_since = t
BY NullAssumption DEF FirstSeen, Assemble, FirstStamps, InitializeMissing, Stamps, Up

\* A device down in the previous snapshot is up in the next one only online,
\* in a new session, on evidence.
LEMMA MergedReconnect ==
    ASSUME NEW prev \in Devices, NEW u \in Nat, DeviceInv(prev, u),
           NEW obs \in Observations, NEW t \in Nat,
           prev.offline_since # NULL,
           NEW d, d = Merged(prev, obs, t), d.fused \in Up
    PROVE  /\ d.fused = "online"
           /\ d.online_since = t
           /\ d.bridge \/ d.arp \in OnlineArp
<1> DEFINE from == TransitionPreviousState(prev, obs, t)
           to   == MergeState(prev, obs, t)
<1>1. d.fused = to /\ d.bridge = obs.bridge /\ d.arp = obs.arp
      /\ d.online_since = MergedStamps(prev, obs, t).online_since
  BY MergedFusedStateIsMergeState DEF Merged, Assemble
<1>2. Coherent(prev)
  BY DEF DeviceInv
<1>3. from = "offline" /\ to = "online"
  BY <1>1, <1>2, TransitionFacts DEF Up
<1>4. obs.bridge \/ obs.arp \in OnlineArp
  BY <1>3 DEF MergeState, FusedDeviceState, RecalculateStateOnBridgeHostLoss,
              UnknownWithEvidence, HasPresenceEvidence, OnlineArp
<1> QED
  BY <1>1, <1>3, <1>4, MergedStampsCases

\* A device that went offline comes back online only in a new session and
\* on evidence of the bridge or an online ARP status.
THEOREM Reconnect == Spec => ReconnectStartsSession
<1>1. ASSUME Inv, [Next]_vars, NEW m \in Macs,
             Continued(m), snapshot[m].offline_since # NULL,
             snapshot'[m].fused \in Up, vars' # vars
      PROVE  /\ snapshot'[m].fused = "online"
             /\ snapshot'[m].online_since = now
             /\ snapshot'[m].bridge \/ snapshot'[m].arp \in OnlineArp
  <2>1. snapshot[m] \in Devices /\ now \in Nat /\ snapshotTime \in Nat
        /\ DeviceInv(snapshot[m], snapshotTime)
    BY <1>1 DEF Inv, TypeOK, InSnapshot, Continued
  <2>2. CASE Tick
    BY <1>1, <2>1, <2>2 DEF Tick, DeviceInv, Coherent
  <2>3. CASE SaveSnapshot
    <3>1. PICK report \in [Macs -> Observations \cup {NULL}] :
              snapshot' = [k \in Macs |->
                  IF report[k] = NULL THEN NULL
                  ELSE MergeDevice(snapshot[k], report[k], now)]
      BY <2>3 DEF SaveSnapshot
    <3>2. report[m] \in Observations
          /\ snapshot'[m] = Merged(snapshot[m], report[m], now)
      BY <1>1, <3>1 DEF MergeDevice, Continued
    <3> QED
      BY <1>1, <2>1, <3>2, MergedReconnect
  <2>4. CASE CrashWhileSaving
    BY <1>1, <2>4 DEF CrashWhileSaving, NoDevices, Continued
  <2> QED
    BY <1>1, <2>2, <2>3, <2>4 DEF Next
<1>2. Inv /\ [Next]_vars =>
          [\A m \in Macs :
              /\ Continued(m)
              /\ snapshot[m].offline_since # NULL
              /\ snapshot'[m].fused \in Up
              => /\ snapshot'[m].fused = "online"
                 /\ snapshot'[m].online_since = now
                 /\ snapshot'[m].bridge \/ snapshot'[m].arp \in OnlineArp]_vars
  BY <1>1
<1> QED
  BY <1>2, Invariance, PTL DEF Spec, ReconnectStartsSession

\* An address a stored device shows is the one known last.
ShowsLastKnown(d) == d.ip # NULL => d.ip = d.last_known_ip

IdentityInv == \A m \in Macs : InSnapshot(m) => ShowsLastKnown(snapshot[m])

\* The identity of a merged device follows the report, and what was known when
\* the snapshot showed that.
LEMMA MergedIdentity ==
    ASSUME NEW prev, prev # NULL => ShowsLastKnown(prev), NEW obs, NEW t,
           NEW d, d = MergeDevice(prev, obs, t)
    PROVE  ShowsIdentity(d, obs.ip, IF prev = NULL THEN NULL ELSE prev.last_known_ip)
<1>1. CASE prev = NULL
  <2>1. /\ d.ip = obs.ip /\ d.last_known_ip = obs.ip
        /\ d.ip_is_stale = FALSE
    BY <1>1 DEF MergeDevice, FirstSeen, Assemble
  <2> QED
    BY <1>1, <2>1 DEF ShowsIdentity
<1>2. CASE prev # NULL
  <2>1. LastKnownIp(prev) = prev.last_known_ip
    BY <1>2 DEF LastKnownIp, ShowsLastKnown
  <2>2. /\ d.arp = obs.arp /\ d.bridge = obs.bridge
        /\ d.ip = Identity(prev, obs).ip
        /\ d.last_known_ip = Identity(prev, obs).last_known_ip
        /\ d.ip_is_stale = Identity(prev, obs).ip_is_stale
    BY <1>2 DEF MergeDevice, Merged, Assemble
  <2> QED
    BY <1>2, <2>1, <2>2 DEF ShowsIdentity, Identity
<1> QED
  BY <1>1, <1>2

\* The address last reported of a device is known as long as it stays in the
\* snapshots, and one that is shown is that, marked as stale where the report
\* of the poll does not have it: _resolve_last_known_value, chained over polls.
THEOREM AddressKept == Spec => IdentityKept
<1>1. Init => IdentityInv
  BY DEF Init, IdentityInv, InSnapshot, NoDevices
<1>2. IdentityInv /\ [Next]_vars => IdentityInv'
  <2> SUFFICES ASSUME IdentityInv, [Next]_vars, NEW m \in Macs, snapshot'[m] # NULL
               PROVE  ShowsLastKnown(snapshot'[m])
    BY DEF IdentityInv, InSnapshot
  <2>1. CASE SaveSnapshot
    <3>1. PICK report \in [Macs -> Observations \cup {NULL}] :
              snapshot' = [n \in Macs |-> IF report[n] = NULL THEN NULL
                                         ELSE MergeDevice(snapshot[n], report[n], now)]
      BY <2>1 DEF SaveSnapshot
    <3>2. snapshot'[m] = MergeDevice(snapshot[m], report[m], now)
      BY <3>1
    <3>3. snapshot[m] # NULL => ShowsLastKnown(snapshot[m])
      BY DEF IdentityInv, InSnapshot
    <3>4. ShowsIdentity(snapshot'[m], report[m].ip,
                        IF snapshot[m] = NULL THEN NULL ELSE snapshot[m].last_known_ip)
      BY <3>2, <3>3, MergedIdentity
    <3> QED
      BY <3>4 DEF ShowsIdentity, ShowsLastKnown
  <2>2. CASE Tick \/ UNCHANGED vars
    BY <2>2 DEF Tick, vars, IdentityInv, InSnapshot
  <2>3. CASE CrashWhileSaving
    BY <2>3 DEF CrashWhileSaving, NoDevices
  <2> QED
    BY <2>1, <2>2, <2>3 DEF Next
<1>3. ASSUME IdentityInv, NEW m \in Macs, NEW ip \in Ips \cup {NULL}, Reported(m, ip)
      PROVE  ShowsIdentity(snapshot'[m], ip,
                           IF snapshot[m] = NULL THEN NULL
                           ELSE snapshot[m].last_known_ip)
  <2>1. PICK obs : /\ obs.ip = ip
                   /\ snapshot'[m] = MergeDevice(snapshot[m], obs, now)
    BY <1>3 DEF Reported
  <2>2. snapshot[m] # NULL => ShowsLastKnown(snapshot[m])
    BY <1>3 DEF IdentityInv, InSnapshot
  <2> QED
    BY <2>1, <2>2, MergedIdentity
<1>4. IdentityInv =>
          [\A m \in Macs : \A ip \in Ips \cup {NULL} :
              Reported(m, ip) =>
                  ShowsIdentity(snapshot'[m], ip,
                                IF snapshot[m] = NULL THEN NULL
                                ELSE snapshot[m].last_known_ip)]_vars
  BY <1>3
<1> QED
  BY <1>1, <1>2, <1>4, PTL DEF Spec, IdentityKept
=============================================================================
