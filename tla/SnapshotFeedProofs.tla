-------------------------- MODULE SnapshotFeedProofs --------------------------
(***************************************************************************)
(* Proof that a poll made step by step, over a clock that ticks between    *)
(* the steps and with failures and crashes at any of them, implements the  *)
(* atomic saves of SessionHistory, for any set of devices; and with it,    *)
(* that what is proved there of the snapshots holds of the files.  Then,   *)
(* that the events of a poll tell what its merge did, and that the API,    *)
(* which replays them over a snapshot of another moment, serves devices    *)
(* as what they are.                                                       *)
(***************************************************************************)
EXTENDS SnapshotFeed, TLAPS, SequenceTheorems, WellFoundedInduction

\* What the next merge finds of each device.
Stored == IF file = "ok" \/ step = "writing" THEN latest ELSE NoDevices

\* What is proved of the atomic saves.
Saves == INSTANCE SessionHistoryProofs
    WITH now <- mergedAt, snapshot <- Stored, snapshotTime <- latestTime

\* The devices a report makes of what is stored, with a clock reading of t.
MergeOf(report, t) ==
    [m \in Macs |-> IF report[m] = NULL THEN NULL
                    ELSE MergeDevice(Stored[m], report[m], t)]

\* The clock does not go back.
ClockInv ==
    /\ now \in 0 .. MaxTime
    /\ mergedAt \in 0 .. now

\* A file that cannot be read is not remembered.
FileInv == file # "ok" /\ step # "writing" => latest = NoDevices

\* What is on its way to the file is the merge of a report with what is still
\* stored, although the poll has reached other steps since.
PendingInv ==
    step # "idle" =>
        \E report \in [Macs -> Observations \cup {NULL}] :
            pending = MergeOf(report, mergedAt)

FeedInv == ClockInv /\ FileInv /\ PendingInv

-----------------------------------------------------------------------------
\* A step that changes neither what is stored nor what is on its way nor the
\* clock reading of the merge keeps PendingInv.
LEMMA PendingKept ==
    ASSUME PendingInv, step # "idle",
           Stored' = Stored, pending' = pending, mergedAt' = mergedAt
    PROVE  PendingInv'
BY DEF PendingInv, MergeOf

\* The invariant is inductive.
THEOREM Invariance == Spec => []FeedInv
<1>1. Init => FeedInv
    BY BoundsAssumption DEF Init, FeedInv, ClockInv, FileInv, PendingInv
<1>2. FeedInv /\ [Next]_vars => FeedInv'
    <2> SUFFICES ASSUME FeedInv, [Next]_vars
                 PROVE  FeedInv'
        OBVIOUS
    <2> USE DEF fileVars, pollVars
    <2>1. ClockInv'
        BY BoundsAssumption
        DEF FeedInv, ClockInv, Next, vars, Tick, Poll, Merge, AppendEvents,
            OpenSnapshot, WriteSnapshot, AppendFails, SaveFails, Crash, Abandon,
            LoadSnapshot, Respond
    <2>2. FileInv'
        BY DEF FeedInv, FileInv, Next, vars, Tick, Poll, Merge, AppendEvents,
               OpenSnapshot, WriteSnapshot, AppendFails, SaveFails, Crash, Abandon,
               LoadSnapshot, Respond
    <2>3. PendingInv'
        <3>1. CASE Merge
            <4>1. PICK report \in [Macs -> Observations \cup {NULL}] :
                      pending' = [m \in Macs |->
                          IF report[m] = NULL THEN NULL
                          ELSE MergeDevice(Previous(m), report[m], now)]
                BY <3>1 DEF Merge
            <4>2. Stored' = Stored /\ mergedAt' = now
                BY <3>1 DEF Merge, Stored, NoDevices
            <4>3. \A m \in Macs : Previous(m) = Stored[m]
                BY <3>1 DEF Merge, Previous, Stored, NoDevices
            <4>4. pending' = MergeOf(report, mergedAt)'
                BY <4>1, <4>2, <4>3 DEF MergeOf
            <4> QED
                BY <4>4 DEF PendingInv
        <3>2. CASE AppendEvents \/ AppendFails
            BY <3>2, PendingKept
            DEF FeedInv, AppendEvents, AppendFails, Stored, NoDevices
        <3>3. CASE OpenSnapshot
            <4>1. Stored' = Stored
                BY <3>3 DEF FeedInv, FileInv, OpenSnapshot, Stored, NoDevices
            <4> QED
                BY <3>3, <4>1, PendingKept DEF FeedInv, OpenSnapshot
        <3>4. CASE WriteSnapshot \/ SaveFails \/ Crash
            BY <3>4 DEF PendingInv, WriteSnapshot, SaveFails, Crash, Abandon
        <3>5. CASE Tick \/ LoadSnapshot \/ Respond \/ UNCHANGED vars
            <4>1. Stored' = Stored /\ UNCHANGED <<step, pending, mergedAt>>
                BY <3>5 DEF Tick, LoadSnapshot, Respond, vars, Stored, NoDevices
            <4> QED
                BY <4>1, PendingKept DEF FeedInv, PendingInv
        <3> QED
            BY <3>1, <3>2, <3>3, <3>4, <3>5 DEF Next, Poll
    <2> QED
        BY <2>1, <2>2, <2>3 DEF FeedInv
<1> QED
    BY <1>1, <1>2, PTL DEF Spec

-----------------------------------------------------------------------------
\* SessionHistory and its proofs merge and report the same devices: all have the
\* rules from SessionMerge.
LEMMA SameMerge ==
    /\ History!Observations = Observations
    /\ Saves!Observations = Observations
    /\ \A prev, obs, t :
           /\ History!MergeDevice(prev, obs, t) = MergeDevice(prev, obs, t)
           /\ Saves!MergeDevice(prev, obs, t) = MergeDevice(prev, obs, t)
           /\ Saves!Merged(prev, obs, t) = Merged(prev, obs, t)
    /\ \A prev, t : Saves!ResolvePreviousEffectiveState(prev, t)
                        = ResolvePreviousEffectiveState(prev, t)
<1>1. \A arp, bridge :
          /\ History!FusedDeviceState(arp, bridge) = FusedDeviceState(arp, bridge)
          /\ Saves!FusedDeviceState(arp, bridge) = FusedDeviceState(arp, bridge)
    BY DEF FusedDeviceState, OnlineArp, IdleArp, OfflineArp,
        History!FusedDeviceState, History!OnlineArp, History!IdleArp,
        History!OfflineArp, Saves!FusedDeviceState, Saves!OnlineArp,
        Saves!IdleArp, Saves!OfflineArp
<1>2. \A d :
          /\ History!DeriveDeviceState(d) = DeriveDeviceState(d)
          /\ Saves!DeriveDeviceState(d) = DeriveDeviceState(d)
    BY DEF DeriveDeviceState, History!DeriveDeviceState, Saves!DeriveDeviceState
<1>3. \A d, t :
          /\ History!ResolvePreviousEffectiveState(d, t)
                 = ResolvePreviousEffectiveState(d, t)
          /\ Saves!ResolvePreviousEffectiveState(d, t)
                 = ResolvePreviousEffectiveState(d, t)
    BY <1>2
    DEF ResolvePreviousEffectiveState, IdleTimeoutExceeded,
        History!ResolvePreviousEffectiveState, History!IdleTimeoutExceeded,
        Saves!ResolvePreviousEffectiveState, Saves!IdleTimeoutExceeded
<1>4. \A prev, obs :
          /\ History!Identity(prev, obs) = Identity(prev, obs)
          /\ Saves!Identity(prev, obs) = Identity(prev, obs)
    <2>1. \A prev : /\ History!LastKnownIp(prev) = LastKnownIp(prev)
                    /\ Saves!LastKnownIp(prev) = LastKnownIp(prev)
        BY DEF LastKnownIp, History!LastKnownIp, Saves!LastKnownIp
    <2>2. \A prev, obs : History!Identity(prev, obs) = Identity(prev, obs)
        BY <1>1, <2>1 DEF Identity, History!Identity
    <2>3. \A prev, obs : Saves!Identity(prev, obs) = Identity(prev, obs)
        BY <1>1, <2>1 DEF Identity, Saves!Identity
    <2> QED
        BY <2>2, <2>3
<1>5. \A arp :
          /\ History!RecalculateStateOnBridgeHostLoss(arp)
                 = RecalculateStateOnBridgeHostLoss(arp)
          /\ Saves!RecalculateStateOnBridgeHostLoss(arp)
                 = RecalculateStateOnBridgeHostLoss(arp)
    BY DEF RecalculateStateOnBridgeHostLoss,
        History!RecalculateStateOnBridgeHostLoss,
        Saves!RecalculateStateOnBridgeHostLoss
<1>6. \A prev, obs, t :
          /\ History!IdleTimeoutForcesOffline(prev, obs, t)
                 <=> IdleTimeoutForcesOffline(prev, obs, t)
          /\ Saves!IdleTimeoutForcesOffline(prev, obs, t)
                 <=> IdleTimeoutForcesOffline(prev, obs, t)
    BY <1>1, <1>2
    DEF IdleTimeoutForcesOffline, IdleTimeoutExceeded,
        History!IdleTimeoutForcesOffline, History!IdleTimeoutExceeded,
        Saves!IdleTimeoutForcesOffline, Saves!IdleTimeoutExceeded
<1>7. \A obs :
          /\ History!UnknownWithEvidence(obs) <=> UnknownWithEvidence(obs)
          /\ Saves!UnknownWithEvidence(obs) <=> UnknownWithEvidence(obs)
    BY <1>1
    DEF UnknownWithEvidence, HasPresenceEvidence, History!UnknownWithEvidence,
        History!HasPresenceEvidence, Saves!UnknownWithEvidence,
        Saves!HasPresenceEvidence
<1>8. \A prev, obs, t :
          /\ History!MergeState(prev, obs, t) = MergeState(prev, obs, t)
          /\ Saves!MergeState(prev, obs, t) = MergeState(prev, obs, t)
    BY <1>1, <1>3, <1>5, <1>6, <1>7
    DEF MergeState, History!MergeState, Saves!MergeState
<1>9. \A prev, obs, t :
          /\ History!MergedFusedState(prev, obs, t)
                 = MergedFusedState(prev, obs, t)
          /\ Saves!MergedFusedState(prev, obs, t) = MergedFusedState(prev, obs, t)
    BY <1>6, <1>7, <1>8
    DEF MergedFusedState, History!MergedFusedState, Saves!MergedFusedState
<1>10. \A prev, obs, t :
          /\ History!TransitionPreviousState(prev, obs, t)
                 = TransitionPreviousState(prev, obs, t)
          /\ Saves!TransitionPreviousState(prev, obs, t)
                 = TransitionPreviousState(prev, obs, t)
    BY <1>2, <1>3, <1>6, <1>8
    DEF TransitionPreviousState, History!TransitionPreviousState,
        Saves!TransitionPreviousState
<1>11. \A a, b, c, d :
          /\ History!Stamps(a, b, c, d) = Stamps(a, b, c, d)
          /\ Saves!Stamps(a, b, c, d) = Stamps(a, b, c, d)
    BY DEF Stamps, History!Stamps, Saves!Stamps
<1>12. \A s, p, t :
          /\ History!InitializeMissing(s, p, t) = InitializeMissing(s, p, t)
          /\ Saves!InitializeMissing(s, p, t) = InitializeMissing(s, p, t)
    BY <1>11
    DEF InitializeMissing, Up, History!InitializeMissing, History!Up,
        Saves!InitializeMissing, Saves!Up
<1>13. \A prev, from, to, t :
          /\ History!TransitionStamps(prev, from, to, t)
                 = TransitionStamps(prev, from, to, t)
          /\ Saves!TransitionStamps(prev, from, to, t)
                 = TransitionStamps(prev, from, to, t)
    BY <1>11
    DEF TransitionStamps, Up, History!TransitionStamps, History!Up,
        Saves!TransitionStamps, Saves!Up
<1>14. \A prev, state, changed, t :
          /\ History!UnchangedStamps(prev, state, changed, t)
                 = UnchangedStamps(prev, state, changed, t)
          /\ Saves!UnchangedStamps(prev, state, changed, t)
                 = UnchangedStamps(prev, state, changed, t)
    BY <1>11
    DEF UnchangedStamps, Up, History!UnchangedStamps, History!Up,
        Saves!UnchangedStamps, Saves!Up
<1>15. \A prev, obs :
          /\ History!DeviceChanged(prev, obs) = DeviceChanged(prev, obs)
          /\ Saves!DeviceChanged(prev, obs) = DeviceChanged(prev, obs)
    BY <1>4
    DEF DeviceChanged, History!DeviceChanged, Saves!DeviceChanged
<1>16. \A from, to, obs :
          /\ History!SanitizedCurrent(from, to, History!HasReconnectEvidence(obs))
                 = SanitizedCurrent(from, to, HasReconnectEvidence(obs))
          /\ Saves!SanitizedCurrent(from, to, Saves!HasReconnectEvidence(obs))
                 = SanitizedCurrent(from, to, HasReconnectEvidence(obs))
    BY DEF SanitizedCurrent, HasReconnectEvidence, History!SanitizedCurrent,
        History!HasReconnectEvidence, Saves!SanitizedCurrent,
        Saves!HasReconnectEvidence
<1>17. \A prev, obs, t :
          /\ History!MergedStamps(prev, obs, t) = MergedStamps(prev, obs, t)
          /\ Saves!MergedStamps(prev, obs, t) = MergedStamps(prev, obs, t)
    BY <1>8, <1>10, <1>12, <1>13, <1>14, <1>15, <1>16
    DEF MergedStamps, History!MergedStamps, Saves!MergedStamps
<1>18. \A state, t :
          /\ History!FirstStamps(state, t) = FirstStamps(state, t)
          /\ Saves!FirstStamps(state, t) = FirstStamps(state, t)
    BY <1>11, <1>12
    DEF FirstStamps, Up, History!FirstStamps, History!Up, Saves!FirstStamps,
        Saves!Up
<1>19. \A obs, fused, id, s :
          /\ History!Assemble(obs, fused, id, s) = Assemble(obs, fused, id, s)
          /\ Saves!Assemble(obs, fused, id, s) = Assemble(obs, fused, id, s)
    BY DEF Assemble, History!Assemble, Saves!Assemble
<1>20. \A obs, t :
          /\ History!FirstSeen(obs, t) = FirstSeen(obs, t)
          /\ Saves!FirstSeen(obs, t) = FirstSeen(obs, t)
    BY <1>1, <1>18, <1>19
    DEF FirstSeen, History!FirstSeen, Saves!FirstSeen
<1>21. \A prev, obs, t :
          /\ History!Merged(prev, obs, t) = Merged(prev, obs, t)
          /\ Saves!Merged(prev, obs, t) = Merged(prev, obs, t)
    BY <1>4, <1>9, <1>17, <1>19
    DEF Merged, History!Merged, Saves!Merged
<1>22. /\ History!Observations = Observations
       /\ Saves!Observations = Observations
    BY DEF Observations, History!Observations, Saves!Observations
<1> QED
    BY <1>3, <1>20, <1>21, <1>22
    DEF MergeDevice, History!MergeDevice, Saves!MergeDevice

\* What a step does to what is stored: nothing, or it reads the clock, closes the
\* file, or gives up on an open one.
LEMMA StepCases ==
    ASSUME FeedInv, [Next]_vars
    PROVE  \/ UNCHANGED <<mergedAt, Stored, latestTime>>
           \/ mergedAt' \in mergedAt + 1 .. MaxTime /\ UNCHANGED <<Stored, latestTime>>
           \/ /\ \E report \in [Macs -> Observations \cup {NULL}] :
                     Stored' = MergeOf(report, mergedAt)
              /\ latestTime' = mergedAt /\ UNCHANGED mergedAt
           \/ Stored' = NoDevices /\ latestTime' = mergedAt /\ UNCHANGED mergedAt
<1> USE DEF fileVars, pollVars
<1>1. CASE Merge
    <2>1. /\ Stored' = Stored /\ latestTime' = latestTime
          /\ mergedAt' = now /\ mergedAt \in 0 .. now /\ now \in 0 .. MaxTime
        BY <1>1 DEF FeedInv, ClockInv, Merge, Stored, NoDevices
    <2>2. now = mergedAt \/ mergedAt' \in mergedAt + 1 .. MaxTime
        BY <2>1, BoundsAssumption
    <2> QED
        BY <2>1, <2>2
<1>2. CASE WriteSnapshot
    <2>1. \E report \in [Macs -> Observations \cup {NULL}] :
              pending = MergeOf(report, mergedAt)
        BY <1>2 DEF FeedInv, PendingInv, WriteSnapshot
    <2>2. Stored' = pending /\ latestTime' = mergedAt /\ mergedAt' = mergedAt
        BY <1>2 DEF WriteSnapshot, Stored
    <2> QED
        BY <2>1, <2>2
<1>3. CASE SaveFails \/ Crash
    <2>1. CASE step = "writing"
        BY <1>3, <2>1 DEF SaveFails, Crash, Abandon, Stored, NoDevices
    <2>2. CASE step # "writing"
        BY <1>3, <2>2 DEF SaveFails, Crash, Abandon, Stored, NoDevices
    <2> QED
        BY <2>1, <2>2
<1>4. CASE OpenSnapshot
    BY <1>4 DEF FeedInv, FileInv, OpenSnapshot, Stored, NoDevices
<1>5. CASE AppendEvents \/ AppendFails
    BY <1>5 DEF AppendEvents, AppendFails, Stored, NoDevices
<1>6. CASE Tick \/ LoadSnapshot \/ Respond \/ UNCHANGED vars
    BY <1>6 DEF Tick, LoadSnapshot, Respond, vars, Stored, NoDevices
<1> QED
    BY <1>1, <1>2, <1>3, <1>4, <1>5, <1>6 DEF Next, Poll

\* Every step of a poll is a step of SessionHistory or none: the merge moves its
\* clock, closing the file is its save, and giving up on an open file its crash.
THEOREM Refinement == Spec => ImplementsHistory
<1>1. Init => History!Init
    BY DEF Init, History!Init, NoDevices, History!NoDevices
<1>2. FeedInv /\ [Next]_vars => [History!Next]_(History!vars)
    BY StepCases, SameMerge
    DEF Stored, MergeOf, NoDevices, History!vars, History!Next, History!Tick,
        History!SaveSnapshot, History!CrashWhileSaving, History!NoDevices
<1> QED
    BY <1>1, <1>2, Invariance, PTL DEF Spec, ImplementsHistory, History!Spec

\* So the invariant that is proved of the atomic saves holds of the files.
LEMMA StoredInv == Spec => []Saves!Inv
<1>1. Init => Saves!Init
    BY DEF Init, Stored, Saves!Init, NoDevices, Saves!NoDevices
<1>2. FeedInv /\ [Next]_vars => [Saves!Next]_(Saves!vars)
    BY StepCases, SameMerge
    DEF MergeOf, NoDevices, Saves!vars, Saves!Next, Saves!Tick,
        Saves!SaveSnapshot, Saves!CrashWhileSaving, Saves!NoDevices
<1>3. Saves!Spec => []Saves!Inv
    BY Saves!Invariance, IdleTimeoutAssumption, NullAssumption,
       ArpStatusesAssumption, IpsAssumption, BoundsAssumption
    DEF AllArpStatuses, Saves!AllArpStatuses
<1> QED
    BY <1>1, <1>2, <1>3, Invariance, PTL DEF Spec, Saves!Spec

-----------------------------------------------------------------------------
(* What a log says.                                                        *)

\* The events of a device.
EventTypes ==
    {"NEW_DEVICE", "DEVICE_REMOVED", "arp_state_changed", "device_state",
     "state_changed", "session_started", "session_ended"}

Reasons ==
    {"none", "arp_reachable", "bridge_host_detected", "unknown", "arp_status",
     "no_evidence", "idle_timeout"}

Events ==
    [type : EventTypes, time : Nat, old : States, new : States, reason : Reasons]

\* There is an event of this type in a sequence of events.
Has(es, type) == \E i \in 1 .. Len(es) : es[i].type = type

\* Sequences of no, one, and the events of two sequences.
LEMMA HasNone == <<>> \in Seq(Events) /\ \A type : ~Has(<<>>, type)
BY DEF Has

LEMMA HasOne ==
    ASSUME NEW type \in EventTypes, NEW t \in Nat, NEW old \in States,
           NEW new \in States, NEW reason \in Reasons
    PROVE  LET es == <<Event(type, t, old, new, reason)>>
           IN  es \in Seq(Events) /\ \A k : Has(es, k) <=> k = type
<1> DEFINE e == Event(type, t, old, new, reason)
<1>1. e \in Events /\ e.type = type
    BY DEF Event, Events
<1> HIDE DEF e
<1>2. <<e>> \in Seq(Events) /\ \A k : Has(<<e>>, k) <=> e.type = k
    BY <1>1 DEF Has
<1> QED
    BY <1>1, <1>2 DEF e

LEMMA HasBoth ==
    ASSUME NEW s \in Seq(Events), NEW t \in Seq(Events)
    PROVE  /\ s \o t \in Seq(Events)
           /\ \A type : Has(s \o t, type) <=> Has(s, type) \/ Has(t, type)
<1>1. /\ s \o t \in Seq(Events) /\ Len(s \o t) = Len(s) + Len(t)
      /\ \A i \in 1 .. Len(s) + Len(t) :
             (s \o t)[i] = IF i <= Len(s) THEN s[i] ELSE t[i - Len(s)]
    BY ConcatProperties
<1>2. Len(s) \in Nat /\ Len(t) \in Nat
    BY LenProperties
<1>3. \A i \in 1 .. Len(s) : (s \o t)[i] = s[i] /\ i \in 1 .. Len(s \o t)
    BY <1>1, <1>2
<1>4. \A i \in 1 .. Len(t) :
          (s \o t)[Len(s) + i] = t[i] /\ Len(s) + i \in 1 .. Len(s \o t)
    BY <1>1, <1>2
<1>5. \A i \in 1 .. Len(s \o t) :
          \/ i \in 1 .. Len(s) /\ (s \o t)[i] = s[i]
          \/ i - Len(s) \in 1 .. Len(t) /\ (s \o t)[i] = t[i - Len(s)]
    BY <1>1, <1>2
<1> QED
    BY <1>1, <1>3, <1>4, <1>5 DEF Has

\* The events of one difference: which sessions they open and close.
LEMMA StateEventsHave ==
    ASSUME NEW prev, NEW cur, NEW t \in Nat,
           NEW old \in States, old = ResolvePreviousEffectiveState(prev, t),
           NEW new \in States, new = DeriveDeviceState(cur)
    PROVE  LET es   == StateEvents(prev, cur, t)
               next == SanitizedCurrent(old, new, HasReconnectEvidence(cur))
           IN  /\ es \in Seq(Events)
               /\ Has(es, "session_started") <=>
                      old # new /\ old = "offline" /\ next \in Up
               /\ Has(es, "session_ended") <=>
                      old # new /\ old \in Up /\ next = "offline"
<1> DEFINE next == SanitizedCurrent(old, new, HasReconnectEvidence(cur))
           first  == ArpStateChanged(old, new, t)
           second == DeviceEvent(old, new, cur, t)
           third  == SessionEvents(old, next, t)
<1>1. next \in States
    BY DEF SanitizedCurrent, States
<1>2. /\ {"arp_state_changed", "device_state", "state_changed", "session_started",
          "session_ended"} \subseteq EventTypes
      /\ "none" \in Reasons
    BY DEF EventTypes, Reasons
<1>3. /\ first \in Seq(Events)
      /\ ~Has(first, "session_started") /\ ~Has(first, "session_ended")
    BY <1>2, HasOne DEF ArpStateChanged
<1>4. /\ second \in Seq(Events)
      /\ ~Has(second, "session_started") /\ ~Has(second, "session_ended")
    <2>1. CASE new = "unknown"
        BY <2>1, HasNone DEF DeviceEvent
    <2>2. CASE new # "unknown"
        <3> DEFINE reason == IF new = "offline" THEN DeviceOfflineReason(old, cur)
                             ELSE StateReason(new, cur)
        <3>1. reason \in Reasons
            BY DEF DeviceOfflineReason, StateReason, Reasons
        <3>2. second = <<Event("device_state", t, old, new, reason)>>
            BY <2>2 DEF DeviceEvent
        <3> HIDE DEF second, reason
        <3> QED
            BY <1>2, <3>1, <3>2, HasOne
    <2> QED
        BY <2>1, <2>2
<1>5. /\ third \in Seq(Events)
      /\ Has(third, "session_started") <=> old = "offline" /\ next \in Up
      /\ Has(third, "session_ended") <=> old \in Up /\ next = "offline"
    <2> DEFINE changed == <<Event("state_changed", t, old, next, "none")>>
               started == <<Event("session_started", t, old, next, "none")>>
               ended   == <<Event("session_ended", t, old, next, "none")>>
    <2>1. /\ changed \in Seq(Events) /\ started \in Seq(Events) /\ ended \in Seq(Events)
          /\ <<>> \in Seq(Events)
          /\ ~Has(changed, "session_started") /\ ~Has(changed, "session_ended")
          /\ Has(started, "session_started") /\ ~Has(started, "session_ended")
          /\ ~Has(ended, "session_started") /\ Has(ended, "session_ended")
          /\ ~Has(<<>>, "session_started") /\ ~Has(<<>>, "session_ended")
        BY <1>1, <1>2, HasOne, HasNone
    <2>2. third = IF old = "unknown" \/ next = "unknown" THEN <<>>
                  ELSE changed \o (IF old = "offline" /\ next \in Up THEN started
                                   ELSE IF old \in Up /\ next = "offline" THEN ended
                                   ELSE <<>>)
        BY DEF SessionEvents
    <2> HIDE DEF changed, started, ended, third, next
    <2>3. CASE old = "unknown" \/ next = "unknown"
        BY <2>1, <2>2, <2>3 DEF Up
    <2>4. CASE ~(old = "unknown" \/ next = "unknown") /\ old = "offline" /\ next \in Up
        <3>1. third = changed \o started
            BY <2>2, <2>4
        <3> QED
            BY <2>1, <2>4, <3>1, HasBoth DEF Up
    <2>5. CASE ~(old = "unknown" \/ next = "unknown") /\ old \in Up /\ next = "offline"
        <3>1. third = changed \o ended
            BY <2>2, <2>5 DEF Up
        <3> QED
            BY <2>1, <2>5, <3>1, HasBoth DEF Up
    <2>6. CASE /\ ~(old = "unknown" \/ next = "unknown")
               /\ ~(old = "offline" /\ next \in Up)
               /\ ~(old \in Up /\ next = "offline")
        <3>1. third = changed \o <<>>
            BY <2>2, <2>6
        <3> QED
            BY <2>1, <2>6, <3>1, HasBoth
    <2> QED
        BY <2>3, <2>4, <2>5, <2>6
<1>6. StateEvents(prev, cur, t) = IF old = new THEN <<>> ELSE first \o second \o third
    BY DEF StateEvents
<1> HIDE DEF first, second, third, next
<1>7. CASE old = new
    BY <1>6, <1>7, HasNone DEF next
<1>8. CASE old # new
    <2>1. first \o second \in Seq(Events)
        BY <1>3, <1>4, HasBoth
    <2>2. \A type : Has(first \o second, type) <=> Has(first, type) \/ Has(second, type)
        BY <1>3, <1>4, HasBoth
    <2>3. /\ (first \o second) \o third \in Seq(Events)
          /\ \A type : Has((first \o second) \o third, type) <=>
                           Has(first \o second, type) \/ Has(third, type)
        BY <1>5, <2>1, HasBoth
    <2> QED
        BY <1>3, <1>4, <1>5, <1>6, <1>8, <2>2, <2>3 DEF next
<1> QED
    BY <1>7, <1>8

-----------------------------------------------------------------------------
(* What a poll logs.                                                       *)

\* The devices the next merge finds are typed and coherent.
LEMMA StoredFacts ==
    ASSUME FeedInv, Saves!Inv, NEW m \in Macs, Stored[m] # NULL
    PROVE  /\ latestTime \in Nat /\ mergedAt \in Nat
           /\ Saves!DeviceInv(Stored[m], latestTime)
           /\ Stored[m] \in Saves!Devices
           /\ Stored[m] \in Devices
           /\ Stored[m].fused = "idle" => Stored[m].idle_since # NULL
           /\ Stored[m].fused = "offline" => Stored[m].offline_since # NULL
<1>1. mergedAt \in Nat
    BY DEF FeedInv, ClockInv
<1>2. latestTime \in (0 .. mergedAt) \cup {NULL}
    BY DEF Saves!Inv, Saves!TypeOK
<1>3. latestTime # NULL /\ Saves!DeviceInv(Stored[m], latestTime)
    BY DEF Saves!Inv, Saves!InSnapshot
<1>4. Stored[m] \in Saves!Devices /\ Saves!Coherent(Stored[m])
    BY <1>3 DEF Saves!DeviceInv
<1>5. Saves!Devices = Devices
    BY DEF Saves!Devices, Devices, Saves!States, States, Saves!Timestamps, Timestamps
<1> QED
    BY <1>1, <1>2, <1>3, <1>4, <1>5 DEF Saves!Coherent

\* What the merge makes of the session of a device, in terms of this module.
LEMMA MergedSession ==
    ASSUME NEW prev \in Saves!Devices, NEW u \in Nat, Saves!DeviceInv(prev, u),
           NEW obs \in Observations, NEW t \in Nat
    PROVE  LET d   == Merged(prev, obs, t)
               old == ResolvePreviousEffectiveState(prev, t)
           IN  /\ old \in States /\ d.fused \in States
               /\ d.bridge => d.fused = "online"
               /\ old = "offline" /\ d.fused \in Up =>
                      d.fused = "online" /\ d.online_since = t
               /\ old \in Up /\ d.fused = "offline" => d.offline_since = t
<1> DEFINE d   == Merged(prev, obs, t)
           old == ResolvePreviousEffectiveState(prev, t)
<1>1. /\ d = Saves!Merged(prev, obs, t)
      /\ old = Saves!ResolvePreviousEffectiveState(prev, t)
      /\ obs \in Saves!Observations
    BY SameMerge
<1> HIDE DEF d, old
<1>2. /\ old \in Saves!States /\ d.fused \in Saves!States
      /\ d.bridge => d.fused = "online"
      /\ old = "offline" /\ d.fused \in Saves!Up =>
             d.fused = "online" /\ d.online_since = t
      /\ old \in Saves!Up /\ d.fused = "offline" => d.offline_since = t
    BY <1>1, Saves!MergedSession, IdleTimeoutAssumption, NullAssumption,
       ArpStatusesAssumption, IpsAssumption, BoundsAssumption
    DEF AllArpStatuses, Saves!AllArpStatuses
<1> QED
    BY <1>2 DEF d, old, States, Up, Saves!States, Saves!Up

\* The device on its way to the file, of one that is still in it.
LEMMA PendingDevice ==
    ASSUME FeedInv, Saves!Inv, step = "merged", NEW m \in Macs, Continued(m)
    PROVE  /\ Stored[m] = latest[m]
           /\ \E obs \in Observations : pending[m] = Merged(latest[m], obs, mergedAt)
<1>1. PICK report \in [Macs -> Observations \cup {NULL}] :
          pending = MergeOf(report, mergedAt)
    BY DEF FeedInv, PendingInv
<1>2. Stored[m] = latest[m]
    BY DEF Stored, Continued
<1>3. report[m] # NULL /\ pending[m] = MergeDevice(latest[m], report[m], mergedAt)
    BY <1>1, <1>2 DEF MergeOf, Continued
<1>4. report[m] \in Observations
    BY <1>3
<1> QED
    BY <1>2, <1>3, <1>4 DEF MergeDevice, Continued

\* The two states the diff compares are presence states.
LEMMA DiffStates ==
    ASSUME FeedInv, Saves!Inv, step = "merged", NEW m \in Macs, Continued(m)
    PROVE  /\ ResolvePreviousEffectiveState(latest[m], now) \in States
           /\ DeriveDeviceState(pending[m]) = pending[m].fused
           /\ pending[m].fused \in States
<1>1. PICK obs \in Observations : pending[m] = Merged(latest[m], obs, mergedAt)
    BY PendingDevice
<1>2. /\ Stored[m] = latest[m] /\ latestTime \in Nat /\ mergedAt \in Nat
      /\ latest[m] \in Devices /\ latest[m] \in Saves!Devices
      /\ Saves!DeviceInv(latest[m], latestTime)
    BY PendingDevice, StoredFacts DEF Continued
<1>3. /\ pending[m].fused \in States
      /\ pending[m].bridge => pending[m].fused = "online"
    BY <1>1, <1>2, MergedSession
<1>4. latest[m].fused \in States
    BY <1>2 DEF Devices
<1> QED
    BY <1>3, <1>4 DEF ResolvePreviousEffectiveState, DeriveDeviceState, States

\* Unless the timeout passes between the two readings of the clock, the diff
\* starts from the state the merge started from.
LEMMA SameReading ==
    ASSUME FeedInv, Saves!Inv, step = "merged", NEW m \in Macs, Continued(m),
           ~ExpiresInPoll(m)
    PROVE  ResolvePreviousEffectiveState(latest[m], now)
               = ResolvePreviousEffectiveState(latest[m], mergedAt)
<1>1. /\ latest[m] \in Devices
      /\ latest[m].fused = "idle" => latest[m].idle_since # NULL
    BY PendingDevice, StoredFacts DEF Continued
<1>2. now \in Nat /\ mergedAt \in Nat /\ mergedAt <= now
    BY DEF FeedInv, ClockInv
<1>3. CASE DeriveDeviceState(latest[m]) = "idle"
    <2>1. latest[m].idle_since \in Nat /\ latest[m].idle_since # NULL
        BY <1>1, <1>3 DEF DeriveDeviceState, Devices, Timestamps
    <2>2. ~(latest[m].idle_since + IdleTimeout \in mergedAt + 1 .. now)
        BY <2>1 DEF ExpiresInPoll, Continued
    <2>3. now - latest[m].idle_since >= IdleTimeout
              <=> mergedAt - latest[m].idle_since >= IdleTimeout
        BY <1>2, <2>1, <2>2, IdleTimeoutAssumption
    <2> QED
        BY <2>1, <2>3 DEF ResolvePreviousEffectiveState, IdleTimeoutExceeded
<1>4. CASE DeriveDeviceState(latest[m]) # "idle"
    BY <1>4 DEF ResolvePreviousEffectiveState
<1> QED
    BY <1>3, <1>4

\* A device opens or closes a session in the events exactly as in the merge.
LEMMA DiffFacts ==
    ASSUME FeedInv, Saves!Inv, step = "merged", NEW m \in Macs, Continued(m),
           ~ExpiresInPoll(m)
    PROVE  LET old == ResolvePreviousEffectiveState(latest[m], mergedAt)
               new == pending[m].fused
           IN  /\ NewEvents(m) \in Seq(Events)
               /\ Has(NewEvents(m), "session_started") <=>
                      old = "offline" /\ new \in Up
               /\ Has(NewEvents(m), "session_ended") <=>
                      old \in Up /\ new = "offline"
               /\ old = "offline" /\ new \in Up => pending[m].online_since = mergedAt
               /\ old \in Up /\ new = "offline" => pending[m].offline_since = mergedAt
               /\ latest[m].fused = "offline" => old = "offline"
<1> DEFINE old == ResolvePreviousEffectiveState(latest[m], mergedAt)
           new == pending[m].fused
<1>1. PICK obs \in Observations : pending[m] = Merged(latest[m], obs, mergedAt)
    BY PendingDevice
<1>2. /\ Stored[m] = latest[m] /\ latestTime \in Nat /\ mergedAt \in Nat
      /\ latest[m] \in Saves!Devices /\ Saves!DeviceInv(latest[m], latestTime)
      /\ latest[m].fused = "offline" => latest[m].offline_since # NULL
    BY PendingDevice, StoredFacts DEF Continued
<1>3. /\ old = "offline" /\ new \in Up =>
             new = "online" /\ pending[m].online_since = mergedAt
      /\ old \in Up /\ new = "offline" => pending[m].offline_since = mergedAt
    BY <1>1, <1>2, MergedSession
<1>4. /\ old = ResolvePreviousEffectiveState(latest[m], now) /\ old \in States
      /\ new = DeriveDeviceState(pending[m]) /\ new \in States
    BY SameReading, DiffStates
<1>5. latest[m].fused = "offline" => old = "offline"
    BY <1>2 DEF ResolvePreviousEffectiveState
<1>6. NewEvents(m) = StateEvents(latest[m], pending[m], now) /\ now \in Nat
    BY DEF NewEvents, DiffEvents, Continued, FeedInv, ClockInv
<1> DEFINE next == SanitizedCurrent(old, new, HasReconnectEvidence(pending[m]))
<1>7. /\ NewEvents(m) \in Seq(Events)
      /\ Has(NewEvents(m), "session_started") <=>
             old # new /\ old = "offline" /\ next \in Up
      /\ Has(NewEvents(m), "session_ended") <=>
             old # new /\ old \in Up /\ next = "offline"
    <2> HIDE DEF old, new
    <2> QED
        BY <1>4, <1>6, StateEventsHave
<1>8. /\ old = "offline" => (old # new /\ next \in Up <=> new \in Up)
      /\ old \in Up => (old # new /\ next = "offline" <=> new = "offline")
    BY <1>3, <1>4 DEF SanitizedCurrent, Up, States
<1> QED
    BY <1>3, <1>5, <1>7, <1>8

-----------------------------------------------------------------------------
(* What the log gets.                                                      *)

\* The logs and the count of faults have their types.
EventsInv == log \in [Macs -> Seq(Events)] /\ faults \in Nat

\* Everything a diff makes is an event.
LEMMA NewEventsType ==
    ASSUME FeedInv, Saves!Inv, step = "merged", NEW m \in Macs
    PROVE  NewEvents(m) \in Seq(Events)
<1>1. now \in Nat /\ "unknown" \in States /\ "none" \in Reasons
      /\ {"NEW_DEVICE", "DEVICE_REMOVED"} \subseteq EventTypes
    BY DEF FeedInv, ClockInv, States, Reasons, EventTypes
<1>2. CASE ~Continued(m)
    <2> DEFINE added == <<Event("NEW_DEVICE", now, "unknown", "unknown", "none")>>
               removed == <<Event("DEVICE_REMOVED", now, "unknown", "unknown", "none")>>
    <2>1. NewEvents(m) = <<>> \/ NewEvents(m) = added \/ NewEvents(m) = removed
        BY <1>2 DEF Continued, NewEvents, DiffEvents
    <2>2. "NEW_DEVICE" \in EventTypes /\ "DEVICE_REMOVED" \in EventTypes
        BY <1>1
    <2>3. added \in Seq(Events)
        BY <1>1, <2>2, HasOne
    <2>4. removed \in Seq(Events)
        BY <1>1, <2>2, HasOne
    <2> HIDE DEF added, removed
    <2> QED
        BY <2>1, <2>3, <2>4, HasNone
<1>3. CASE Continued(m)
    <2>1. NewEvents(m) = StateEvents(latest[m], pending[m], now)
        BY <1>3 DEF NewEvents, DiffEvents, Continued
    <2> QED
        BY <1>1, <1>3, <2>1, DiffStates, StateEventsHave
<1> QED
    BY <1>2, <1>3

\* What is behind the end of a log after events were appended.
LEMMA Behind ==
    ASSUME NEW s \in Seq(Events), NEW x \in Seq(Events), NEW type
    PROVE  (\E i \in Len(s) + 1 .. Len(s \o x) : (s \o x)[i].type = type)
               <=> Has(x, type)
<1>1. /\ Len(s \o x) = Len(s) + Len(x)
      /\ \A i \in 1 .. Len(s) + Len(x) :
             (s \o x)[i] = IF i <= Len(s) THEN s[i] ELSE x[i - Len(s)]
    BY ConcatProperties
<1>2. Len(s) \in Nat /\ Len(x) \in Nat
    BY LenProperties
<1>3. \A i \in Len(s) + 1 .. Len(s \o x) :
          i - Len(s) \in 1 .. Len(x) /\ (s \o x)[i] = x[i - Len(s)]
    BY <1>1, <1>2
<1>4. \A i \in 1 .. Len(x) :
          Len(s) + i \in Len(s) + 1 .. Len(s \o x) /\ (s \o x)[Len(s) + i] = x[i]
    BY <1>1, <1>2
<1> QED
    BY <1>3, <1>4 DEF Has

\* The first events of a sequence.
LEMMA Beginning ==
    ASSUME NEW s \in Seq(Events), NEW k \in Nat, k = 0 \/ k < Len(s)
    PROVE  /\ SubSeq(s, 1, k) \in Seq(Events)
           /\ \A type : Has(SubSeq(s, 1, k), type) => Has(s, type)
<1>1. Len(s) \in Nat /\ k <= Len(s) /\ \A i \in 1 .. Len(s) : s[i] \in Events
    BY LenProperties, ElementOfSeq
<1>2. /\ SubSeq(s, 1, k) \in Seq(Events)
      /\ Len(SubSeq(s, 1, k)) = k
      /\ \A i \in 1 .. k : SubSeq(s, 1, k)[i] = s[i]
    BY <1>1, SubSeqProperties
<1> QED
    BY <1>1, <1>2 DEF Has

\* A step that appends puts events of the diff behind the end of each log, and
\* all of them if nothing fails.
LEMMA Appended ==
    ASSUME FeedInv, Saves!Inv, EventsInv, [Next]_vars, Appends, NEW m \in Macs
    PROVE  /\ log'[m] \in Seq(Events)
           /\ \A type : Logs(m, type) => Has(NewEvents(m), type)
           /\ faults' = faults => \A type : Logs(m, type) <=> Has(NewEvents(m), type)
<1>1. step = "merged" /\ (AppendEvents \/ AppendFails)
    BY DEF Appends, Next, Tick, Poll, Merge, OpenSnapshot, WriteSnapshot, SaveFails,
           Crash, Abandon, LoadSnapshot, Respond, vars, pollVars
<1>2. log[m] \in Seq(Events) /\ NewEvents(m) \in Seq(Events)
    BY <1>1, NewEventsType DEF EventsInv
<1>3. CASE AppendEvents
    <2>1. log'[m] = log[m] \o NewEvents(m)
        BY <1>3 DEF AppendEvents
    <2> DEFINE s == log[m]
               x == NewEvents(m)
    <2>2. s \in Seq(Events) /\ x \in Seq(Events) /\ log'[m] = s \o x
        BY <1>2, <2>1
    <2>3. \A type : Logs(m, type) <=>
              \E i \in Len(s) + 1 .. Len(s \o x) : (s \o x)[i].type = type
        BY <2>2 DEF Logs
    <2> HIDE DEF s, x
    <2>4. s \o x \in Seq(Events)
        BY <2>2, HasBoth
    <2>5. \A type : Logs(m, type) <=> Has(x, type)
        BY <2>2, <2>3, Behind
    <2> QED
        BY <2>2, <2>4, <2>5 DEF x
<1>4. CASE AppendFails
    <2>1. PICK kept \in [Macs -> 0 .. 3] :
              /\ kept[m] = 0 \/ kept[m] < Len(NewEvents(m))
              /\ log' = [n \in Macs |-> log[n] \o SubSeq(NewEvents(n), 1, kept[n])]
        BY <1>4 DEF AppendFails
    <2> DEFINE s == log[m]
               x == SubSeq(NewEvents(m), 1, kept[m])
    <2>2. kept[m] \in 0 .. 3
        BY <2>1
    <2>3. kept[m] \in Nat
        BY <2>2
    <2>4. log'[m] = s \o x /\ s \in Seq(Events)
        BY <1>2, <2>1
    <2>5. x \in Seq(Events) /\ \A type : Has(x, type) => Has(NewEvents(m), type)
        BY <1>2, <2>1, <2>3, Beginning
    <2>6. \A type : Logs(m, type) <=>
              \E i \in Len(s) + 1 .. Len(s \o x) : (s \o x)[i].type = type
        BY <2>4 DEF Logs
    <2>7. faults' # faults
        BY <1>4 DEF AppendFails, EventsInv
    <2> HIDE DEF s, x
    <2>8. s \o x \in Seq(Events)
        BY <2>4, <2>5, HasBoth
    <2>9. \A type : Logs(m, type) <=> Has(x, type)
        BY <2>4, <2>5, <2>6, Behind
    <2> QED
        BY <2>4, <2>5, <2>7, <2>8, <2>9
<1> QED
    BY <1>1, <1>3, <1>4

\* The logs hold events only.
LEMMA EventsTyped == Spec => []EventsInv
<1>1. Init => EventsInv
    BY HasNone DEF Init, EventsInv
<1>2. FeedInv /\ Saves!Inv /\ EventsInv /\ [Next]_vars => EventsInv'
    <2> SUFFICES ASSUME FeedInv, Saves!Inv, EventsInv, [Next]_vars
                 PROVE  EventsInv'
        OBVIOUS
    <2>1. faults' \in Nat
        BY DEF EventsInv, Next, Tick, Poll, Merge, AppendEvents, AppendFails,
               OpenSnapshot, WriteSnapshot, SaveFails, Crash, Abandon,
               LoadSnapshot, Respond, vars, pollVars
    <2>2. CASE Appends
        <3>1. \A m \in Macs : log'[m] \in Seq(Events)
            BY <2>2, Appended
        <3>2. DOMAIN log' = Macs /\ log' = [m \in Macs |-> log'[m]]
            BY <2>2 DEF Appends, Next, Tick, Poll, Merge, AppendEvents, AppendFails,
                        OpenSnapshot, WriteSnapshot, SaveFails, Crash, Abandon,
                        LoadSnapshot, Respond, vars, pollVars
        <3> QED
            BY <2>1, <3>1, <3>2 DEF EventsInv
    <2>3. CASE ~Appends
        <3>1. log' = log
            BY <2>3 DEF Appends, Next, Tick, Poll, Merge, AppendEvents, AppendFails,
                        OpenSnapshot, WriteSnapshot, SaveFails, Crash, Abandon,
                        LoadSnapshot, Respond, vars
        <3> QED
            BY <2>1, <3>1 DEF EventsInv
    <2> QED
        BY <2>2, <2>3
<1> QED
    BY <1>1, <1>2, Invariance, StoredInv, PTL DEF Spec

\* A session the events open or close is one the merge opened or closed.
THEOREM EventsAreTrue == Spec => SessionEventsTrue
<1>1. ASSUME FeedInv, Saves!Inv, EventsInv, [Next]_vars, Appends,
             NEW m \in Macs, ~ExpiresInPoll(m)
      PROVE  /\ Logs(m, "session_started") => pending[m].online_since = mergedAt
             /\ Logs(m, "session_ended") => pending[m].offline_since = mergedAt
    <2>1. step = "merged"
        BY <1>1 DEF Appends
    <2>2. /\ Logs(m, "session_started") => Has(NewEvents(m), "session_started")
          /\ Logs(m, "session_ended") => Has(NewEvents(m), "session_ended")
        BY <1>1, Appended
    <2>3. CASE Continued(m)
        BY <1>1, <2>1, <2>2, <2>3, DiffFacts
    <2>4. CASE ~Continued(m)
        <3>1. \/ NewEvents(m) = <<>>
              \/ NewEvents(m) = <<Event("NEW_DEVICE", now, "unknown", "unknown", "none")>>
              \/ NewEvents(m) =
                     <<Event("DEVICE_REMOVED", now, "unknown", "unknown", "none")>>
            BY <2>4 DEF Continued, NewEvents, DiffEvents
        <3>2. now \in Nat /\ "unknown" \in States /\ "none" \in Reasons
              /\ {"NEW_DEVICE", "DEVICE_REMOVED"} \subseteq EventTypes
            BY <1>1 DEF FeedInv, ClockInv, States, Reasons, EventTypes
        <3>3. /\ ~Has(NewEvents(m), "session_started")
              /\ ~Has(NewEvents(m), "session_ended")
            BY <3>1, <3>2, HasNone, HasOne
        <3> QED
            BY <2>2, <3>3
    <2> QED
        BY <2>3, <2>4
<1>2. FeedInv /\ Saves!Inv /\ EventsInv /\ [Next]_vars =>
          [Appends =>
              \A m \in Macs : ~ExpiresInPoll(m) =>
                  /\ Logs(m, "session_started") => pending[m].online_since = mergedAt
                  /\ Logs(m, "session_ended") => pending[m].offline_since = mergedAt]_vars
    BY <1>1
<1> QED
    BY <1>2, Invariance, StoredInv, EventsTyped, PTL DEF Spec, SessionEventsTrue

\* And unless the file fails every session that begins again or ends is logged.
THEOREM EventsAreComplete == Spec => SessionEventsComplete
<1>1. ASSUME FeedInv, Saves!Inv, EventsInv, [Next]_vars, Appends, faults' = faults,
             NEW m \in Macs, Continued(m), ~ExpiresInPoll(m)
      PROVE  /\ latest[m].fused = "offline" /\ pending[m].fused \in Up
                => Logs(m, "session_started")
             /\ /\ latest[m].fused \in Up
                /\ pending[m].fused = "offline"
                /\ ResolvePreviousEffectiveState(latest[m], mergedAt) \in Up
                => Logs(m, "session_ended")
    <2>1. step = "merged"
        BY <1>1 DEF Appends
    <2>2. /\ Logs(m, "session_started") <=> Has(NewEvents(m), "session_started")
          /\ Logs(m, "session_ended") <=> Has(NewEvents(m), "session_ended")
        BY <1>1, Appended
    <2> QED
        BY <1>1, <2>1, <2>2, DiffFacts
<1>2. FeedInv /\ Saves!Inv /\ EventsInv /\ [Next]_vars =>
          [Appends /\ faults' = faults =>
              \A m \in Macs : Continued(m) /\ ~ExpiresInPoll(m) =>
                  /\ latest[m].fused = "offline" /\ pending[m].fused \in Up
                     => Logs(m, "session_started")
                  /\ /\ latest[m].fused \in Up
                     /\ pending[m].fused = "offline"
                     /\ ResolvePreviousEffectiveState(latest[m], mergedAt) \in Up
                     => Logs(m, "session_ended")]_vars
    BY <1>1
<1> QED
    BY <1>2, Invariance, StoredInv, EventsTyped, PTL DEF Spec, SessionEventsComplete

-----------------------------------------------------------------------------
(* What the API makes of a log.                                            *)

\* Every nonempty set of natural numbers has a least element.
LEMMA LeastElement ==
    ASSUME NEW T, T \subseteq Nat, T # {}
    PROVE  \E x \in T : \A y \in T : x <= y
<1>1. \E x \in T : \A y \in T : <<y, x>> \notin OpToRel(<, Nat)
    BY NatLessThanWellFounded, WFMin
<1>2. \A x, y \in Nat : y < x => <<y, x>> \in OpToRel(<, Nat)
    BY Zenon DEF OpToRel
<1>3. \A x, y \in T : ~(y < x) => x <= y
    OBVIOUS
<1> QED
    BY <1>1, <1>2, <1>3

\* The session after event e, and f the sessions after each of the first k
\* events of s.
After(session, e) ==
    IF IsTransition(e) THEN ReplayEvent(session, e) ELSE session

Replays(f, s, k) ==
    f = [n \in 0 .. k |-> IF n = 0 THEN NoSession ELSE After(f[n - 1], s[n])]

\* The recursion has a solution: one for k events is extended by one.
LEMMA ReplaysExist ==
    ASSUME NEW s, NEW k \in Nat
    PROVE  \E f : Replays(f, s, k)
<1> DEFINE T == {n \in Nat : ~\E f : Replays(f, s, n)}
<1> SUFFICES T = {}
    OBVIOUS
<1> SUFFICES ASSUME T # {} PROVE FALSE
    OBVIOUS
<1>1. PICK n \in T : \A y \in T : n <= y
    BY LeastElement
<1>2. n # 0
    <2>1. Replays([i \in 0 .. 0 |-> NoSession], s, 0)
        BY DEF Replays
    <2> QED
        BY <1>1, <2>1
<1>3. n \in Nat /\ n - 1 \in Nat /\ ~(n <= n - 1) /\ n - 1 \notin T
    BY <1>1, <1>2
<1>4. PICK f : Replays(f, s, n - 1)
    BY <1>3
<1> DEFINE g == [i \in 0 .. n |-> IF i = n THEN After(f[n - 1], s[n]) ELSE f[i]]
<1>5. ASSUME NEW i \in 0 .. n
      PROVE  g[i] = IF i = 0 THEN NoSession ELSE After(g[i - 1], s[i])
    <2>1. CASE i = n
        BY <1>2, <1>3, <2>1
    <2>2. CASE i # n
        <3>1. i \in 0 .. n - 1 /\ (i # 0 => i - 1 \in 0 .. n - 1)
            BY <1>3, <2>2
        <3>2. f[i] = IF i = 0 THEN NoSession ELSE After(f[i - 1], s[i])
            BY <1>4, <3>1, Zenon DEF Replays
        <3>3. g[i] = f[i] /\ (i # 0 => g[i - 1] = f[i - 1])
            BY <1>3, <2>2, <3>1
        <3> QED
            BY <3>2, <3>3
    <2> QED
        BY <2>1, <2>2
<1>6. Replays(g, s, n)
    <2>1. g = [i \in 0 .. n |-> g[i]]
        OBVIOUS
    <2> HIDE DEF g
    <2> QED
        BY <1>5, <2>1 DEF Replays
<1> QED
    BY <1>1, <1>6

\* Two logs that begin with the same j events are at the same session there.
LEMMA ReplaysAgree ==
    ASSUME NEW f, NEW s, NEW k \in Nat, Replays(f, s, k),
           NEW g, NEW t, NEW l \in Nat, Replays(g, t, l),
           NEW j \in Nat, j <= k, j <= l, \A i \in 1 .. j : s[i] = t[i]
    PROVE  f[j] = g[j]
<1> DEFINE T == {n \in 0 .. j : f[n] # g[n]}
<1> SUFFICES ASSUME T # {} PROVE FALSE
    OBVIOUS
<1>0. T \subseteq Nat
    OBVIOUS
<1>1. PICK n \in T : \A y \in T : n <= y
    BY <1>0, LeastElement
<1>2. /\ n \in 0 .. k /\ n \in 0 .. l /\ n \in 0 .. j /\ f[n] # g[n]
    BY <1>1
<1>3. /\ f[n] = IF n = 0 THEN NoSession ELSE After(f[n - 1], s[n])
      /\ g[n] = IF n = 0 THEN NoSession ELSE After(g[n - 1], t[n])
    BY <1>2, Zenon DEF Replays
<1>4. CASE n = 0
    BY <1>2, <1>3, <1>4
<1>5. CASE n # 0
    <2>1. n - 1 \in 0 .. j /\ ~(n <= n - 1) /\ n \in 1 .. j
        BY <1>2, <1>5
    <2>2. f[n - 1] = g[n - 1] /\ s[n] = t[n]
        BY <1>1, <2>1
    <2> QED
        BY <1>2, <1>3, <1>5, <2>2
<1> QED
    BY <1>4, <1>5

\* ReplayEvents is the last of the sessions.
LEMMA ReplayEventsLast ==
    ASSUME NEW s \in Seq(Events), NEW f, Replays(f, s, Len(s))
    PROVE  ReplayEvents(s) = f[Len(s)]
<1> DEFINE g == CHOOSE x : Replays(x, s, Len(s))
<1>1. Len(s) \in Nat
    BY LenProperties
<1>2. Replays(g, s, Len(s))
    BY Zenon
<1>3. ReplayEvents(s) = g[Len(s)]
    BY DEF ReplayEvents, Replays, After
<1> HIDE DEF g
<1> QED
    BY <1>1, <1>2, <1>3, ReplaysAgree

\* The session after no event, and after one more.
LEMMA ReplayNone == ReplayEvents(<<>>) = NoSession
<1>1. <<>> \in Seq(Events) /\ Len(<<>>) = 0
    OBVIOUS
<1>2. PICK f : Replays(f, <<>>, 0)
    BY ReplaysExist
<1>3. ReplayEvents(<<>>) = f[0]
    BY <1>1, <1>2, ReplayEventsLast
<1>4. 0 \in 0 .. 0
    OBVIOUS
<1> QED
    BY <1>2, <1>3, <1>4, Zenon DEF Replays

\* One more event at the end of a log takes the session one step further.
LEMMA ReplayOneMore ==
    ASSUME NEW s \in Seq(Events), NEW e \in Events
    PROVE  /\ s \o <<e>> \in Seq(Events)
           /\ ReplayEvents(s \o <<e>>) = After(ReplayEvents(s), e)
<1> DEFINE t == s \o <<e>>
           n == Len(s)
<1>1. <<e>> \in Seq(Events) /\ Len(<<e>>) = 1 /\ <<e>>[1] = e
    OBVIOUS
<1>2. n \in Nat /\ n + 1 \in Nat
    BY LenProperties
<1>3. /\ t \in Seq(Events) /\ Len(t) = n + 1
      /\ \A i \in 1 .. n + 1 : t[i] = IF i <= n THEN s[i] ELSE <<e>>[i - n]
    BY <1>1, ConcatProperties
<1>4. /\ \A i \in 1 .. n : s[i] = t[i]
      /\ t[n + 1] = e
    BY <1>1, <1>2, <1>3
<1>5. PICK f : Replays(f, s, n)
    BY <1>2, ReplaysExist
<1>6. PICK g : Replays(g, t, n + 1)
    BY <1>2, ReplaysExist
<1>7. ReplayEvents(s) = f[n] /\ ReplayEvents(t) = g[n + 1]
    BY <1>3, <1>5, <1>6, ReplayEventsLast
<1> HIDE DEF t, n
<1>8. f[n] = g[n]
    BY <1>2, <1>4, <1>5, <1>6, ReplaysAgree
<1>9. n + 1 \in 0 .. n + 1 /\ n + 1 # 0 /\ (n + 1) - 1 = n
    BY <1>2
<1>10. g[n + 1] = After(g[n], t[n + 1])
    BY <1>6, <1>9 DEF Replays
<1> QED
    BY <1>3, <1>4, <1>7, <1>8, <1>10 DEF t, n

\* The sessions a log may leave, with no timestamp after t.
Moments(t) == (0 .. t) \cup {NULL}

Sessions(t) ==
    {x \in [state_changed_at : Moments(t), online_since : Moments(t),
            idle_since : Moments(t), offline_since : Moments(t)] :
        x.idle_since # NULL => x.online_since # NULL}

\* A session never turns idle without having begun, and without a transition
\* there is none.
LEMMA ReplayEventsType ==
    ASSUME NEW s \in Seq(Events), NEW t \in Nat,
           \A i \in 1 .. Len(s) : s[i].time <= t
    PROVE  /\ ReplayEvents(s) \in Sessions(t)
           /\ \/ ReplayEvents(s) = NoSession
              \/ \E i \in 1 .. Len(s) : IsTransition(s[i])
<1> DEFINE k == Len(s)
           Good(x, n) == /\ x \in Sessions(t)
                         /\ x = NoSession \/ \E i \in 1 .. n : IsTransition(s[i])
<1>1. k \in Nat /\ \A i \in 1 .. k : s[i] \in Events
    BY LenProperties, ElementOfSeq
<1>2. PICK f : Replays(f, s, k)
    BY <1>1, ReplaysExist
<1>3. ReplayEvents(s) = f[k]
    BY <1>2, ReplayEventsLast
<1> DEFINE T == {n \in 0 .. k : ~Good(f[n], n)}
<1>4. T = {}
    <2> SUFFICES ASSUME T # {} PROVE FALSE
        OBVIOUS
    <2>0. T \subseteq Nat
        BY <1>1
    <2>1. PICK n \in T : \A y \in T : n <= y
        BY <2>0, LeastElement
    <2>2. n \in 0 .. k /\ ~Good(f[n], n)
        BY <2>1
    <2>3. f[n] = IF n = 0 THEN NoSession ELSE After(f[n - 1], s[n])
        BY <1>2, <2>2, Zenon DEF Replays
    <2>4. n # 0
        BY <2>2, <2>3 DEF NoSession, Sessions, Moments
    <2>5. n - 1 \in 0 .. k /\ ~(n <= n - 1) /\ n \in 1 .. k
        BY <1>1, <2>2, <2>4
    <2>6. n - 1 \notin T
        BY <2>1, <2>5
    <2>7. Good(f[n - 1], n - 1)
        BY <2>5, <2>6
    <2>8. s[n] \in Events /\ s[n].time <= t /\ s[n].time \in Nat
        BY <1>1, <2>5 DEF Events
    <2>9. CASE IsTransition(s[n])
        <3>1. f[n] = ReplayEvent(f[n - 1], s[n])
            BY <2>3, <2>4, <2>9 DEF After
        <3>2. s[n].time \in 0 .. t /\ s[n].time # NULL
            BY <2>8, NullAssumption
        <3>3. f[n] \in Sessions(t)
            BY <2>7, <3>1, <3>2 DEF ReplayEvent, Sessions, Moments
        <3> QED
            BY <2>2, <2>5, <2>9, <3>3
    <2>10. CASE ~IsTransition(s[n])
        <3>1. f[n] = f[n - 1]
            BY <2>3, <2>4, <2>10 DEF After
        <3>2. 1 .. n - 1 \subseteq 1 .. n
            BY <2>5
        <3> QED
            BY <2>2, <2>7, <3>1, <3>2
    <2> QED
        BY <2>9, <2>10
<1>5. k \in 0 .. k /\ k \notin T
    BY <1>1, <1>4
<1>6. Good(f[k], k)
    BY <1>5
<1> QED
    BY <1>3, <1>6

-----------------------------------------------------------------------------
(* What a difference adds to a log.                                        *)

\* Every event of es was written at t.
At(es, t) == \A i \in 1 .. Len(es) : es[i].time = t

\* No event, or one the API takes no transition from.
Quiet(t) ==
    {<<>>} \cup {<<e>> : e \in {x \in Events : x.time = t /\ ~IsTransition(x)}}

\* Events of the same moment put behind one another are of that moment.
LEMMA AtBoth ==
    ASSUME NEW s \in Seq(Events), NEW x \in Seq(Events), NEW t, At(s, t), At(x, t)
    PROVE  s \o x \in Seq(Events) /\ At(s \o x, t)
<1>1. /\ s \o x \in Seq(Events) /\ Len(s \o x) = Len(s) + Len(x)
      /\ \A i \in 1 .. Len(s) + Len(x) :
             (s \o x)[i] = IF i <= Len(s) THEN s[i] ELSE x[i - Len(s)]
    BY ConcatProperties
<1>2. Len(s) \in Nat /\ Len(x) \in Nat
    BY LenProperties
<1>3. \A i \in 1 .. Len(s) + Len(x) :
          /\ i <= Len(s) => i \in 1 .. Len(s)
          /\ ~(i <= Len(s)) => i - Len(s) \in 1 .. Len(x)
    BY <1>2
<1> QED
    BY <1>1, <1>3 DEF At

\* So is a single event of that moment.
LEMMA AtOne ==
    ASSUME NEW e \in Events
    PROVE  <<e>> \in Seq(Events) /\ At(<<e>>, e.time)
BY DEF At

\* A quiet event leaves the session as it is.
LEMMA QuietFacts ==
    ASSUME NEW t \in Nat, NEW q \in Quiet(t), NEW s \in Seq(Events)
    PROVE  /\ q \in Seq(Events) /\ At(q, t)
           /\ s \o q \in Seq(Events)
           /\ ReplayEvents(s \o q) = ReplayEvents(s)
<1>1. CASE q = <<>>
    BY <1>1, ConcatEmptySeq DEF At
<1>2. CASE q # <<>>
    <2>1. PICK e \in Events : q = <<e>> /\ e.time = t /\ ~IsTransition(e)
        BY <1>2 DEF Quiet
    <2> QED
        BY <2>1, AtOne, ReplayOneMore DEF After
<1> QED
    BY <1>1, <1>2

\* The events of a difference: the change of the state, a quiet one, and unless a
\* state is unknown the transition and a quiet one.
DiffShape(es, old, new, next, t) ==
    \E q, r \in Quiet(t) :
        es = (<<Event("arp_state_changed", t, old, new, "none")>> \o q) \o
             (IF old = "unknown" \/ next = "unknown" THEN <<>>
              ELSE <<Event("state_changed", t, old, next, "none")>> \o r)

\* The events of a change of state have that shape.
LEMMA StateEventsShape ==
    ASSUME NEW prev, NEW cur, NEW t \in Nat,
           NEW old \in States, old = ResolvePreviousEffectiveState(prev, t),
           NEW new \in States, new = DeriveDeviceState(cur), old # new,
           NEW next, next = SanitizedCurrent(old, new, HasReconnectEvidence(cur))
    PROVE  DiffShape(StateEvents(prev, cur, t), old, new, next, t)
<1> DEFINE second == DeviceEvent(old, new, cur, t)
           started == Event("session_started", t, old, next, "none")
           ended   == Event("session_ended", t, old, next, "none")
           fourth == IF old = "offline" /\ next \in Up THEN <<started>>
                     ELSE IF old \in Up /\ next = "offline" THEN <<ended>> ELSE <<>>
<1>1. next \in States
    BY DEF SanitizedCurrent, States
<1>2. second \in Quiet(t)
    <2>1. CASE new = "unknown"
        BY <2>1 DEF DeviceEvent, Quiet
    <2>2. CASE new # "unknown"
        <3> DEFINE reason == IF new = "offline" THEN DeviceOfflineReason(old, cur)
                             ELSE StateReason(new, cur)
        <3>1. reason \in Reasons
            BY DEF DeviceOfflineReason, StateReason, Reasons
        <3>2. second = <<Event("device_state", t, old, new, reason)>>
            BY <2>2 DEF DeviceEvent
        <3> HIDE DEF second, reason
        <3>3. Event("device_state", t, old, new, reason) \in
                  {x \in Events : x.time = t /\ ~IsTransition(x)}
            BY <3>1 DEF Event, Events, EventTypes, IsTransition
        <3> QED
            BY <3>2, <3>3 DEF Quiet
    <2> QED
        BY <2>1, <2>2
<1>3. fourth \in Quiet(t)
    <2>1. {started, ended} \subseteq {x \in Events : x.time = t /\ ~IsTransition(x)}
        BY <1>1 DEF Event, Events, EventTypes, Reasons, IsTransition
    <2> HIDE DEF started, ended
    <2> QED
        BY <2>1 DEF Quiet
<1>4. StateEvents(prev, cur, t) =
          (<<Event("arp_state_changed", t, old, new, "none")>> \o second) \o
          (IF old = "unknown" \/ next = "unknown" THEN <<>>
           ELSE <<Event("state_changed", t, old, next, "none")>> \o fourth)
    BY DEF StateEvents, ArpStateChanged, SessionEvents
<1> HIDE DEF second, fourth
<1> QED
    BY <1>2, <1>3, <1>4 DEF DiffShape

\* And what the API makes of them.
LEMMA ReplayDiff ==
    ASSUME NEW prev, NEW cur, NEW t \in Nat,
           NEW old \in States, old = ResolvePreviousEffectiveState(prev, t),
           NEW new \in States, new = DeriveDeviceState(cur), old # new,
           NEW next, next = SanitizedCurrent(old, new, HasReconnectEvidence(cur)),
           NEW s \in Seq(Events)
    PROVE  LET es      == StateEvents(prev, cur, t)
               first   == Event("arp_state_changed", t, old, new, "none")
               changed == Event("state_changed", t, old, next, "none")
           IN  /\ es \in Seq(Events) /\ At(es, t)
               /\ 1 \in 1 .. Len(es) /\ es[1] = first
               /\ old = "unknown" \/ new = "unknown" =>
                      IsGap(es[1]) /\ \A i \in 1 .. Len(es) : ~IsTransition(es[i])
               /\ ~(old = "unknown" \/ new = "unknown") =>
                      ReplayEvents(s \o es) =
                          ReplayEvent(ReplayEvent(ReplayEvents(s), first), changed)
<1> DEFINE es      == StateEvents(prev, cur, t)
           first   == Event("arp_state_changed", t, old, new, "none")
           changed == Event("state_changed", t, old, next, "none")
<1>1. next \in States /\ (next = "unknown" <=> new = "unknown")
    BY DEF SanitizedCurrent, States
<1>2. /\ first \in Events /\ changed \in Events /\ first.time = t /\ changed.time = t
      /\ IsTransition(first) <=> ~(old = "unknown" \/ new = "unknown")
      /\ IsTransition(changed) <=> ~(old = "unknown" \/ new = "unknown")
    BY <1>1 DEF Event, Events, EventTypes, Reasons, IsTransition
<1>3. PICK q \in Quiet(t), r \in Quiet(t) :
          es = (<<first>> \o q) \o
               (IF old = "unknown" \/ next = "unknown" THEN <<>> ELSE <<changed>> \o r)
    <2>1. DiffShape(StateEvents(prev, cur, t), old, new, next, t)
        BY StateEventsShape
    <2> QED
        BY <2>1, Zenon DEF DiffShape
<1> HIDE DEF es, first, changed
<1>4. /\ <<first>> \in Seq(Events) /\ <<changed>> \in Seq(Events) /\ <<>> \in Seq(Events)
      /\ q \in Seq(Events) /\ r \in Seq(Events)
      /\ At(<<first>>, t) /\ At(<<changed>>, t) /\ At(q, t) /\ At(r, t) /\ At(<<>>, t)
    <2>1. \A x \in Quiet(t) : x \in Seq(Events) /\ At(x, t)
        BY QuietFacts
    <2>2. <<>> \in Seq(Events) /\ At(<<>>, t)
        BY DEF At
    <2> QED
        BY <1>2, <2>1, <2>2, AtOne
<1> DEFINE a == <<first>> \o q
           b == IF old = "unknown" \/ next = "unknown" THEN <<>> ELSE <<changed>> \o r
<1>5. a \in Seq(Events) /\ At(a, t) /\ <<changed>> \o r \in Seq(Events)
      /\ At(<<changed>> \o r, t)
    BY <1>4, AtBoth
<1>6. b \in Seq(Events) /\ At(b, t) /\ es = a \o b
    BY <1>3, <1>4, <1>5
<1>7. es \in Seq(Events) /\ At(es, t)
    <2> HIDE DEF a, b
    <2> QED
        BY <1>5, <1>6, AtBoth
<1>8. 1 \in 1 .. Len(es) /\ es[1] = first
    <2>1. Len(<<first>>) = 1 /\ <<first>>[1] = first
        OBVIOUS
    <2>2. Len(q) \in Nat /\ Len(b) \in Nat
        BY <1>4, <1>6, LenProperties
    <2>3. /\ Len(a) = 1 + Len(q)
          /\ \A i \in 1 .. 1 + Len(q) :
                 a[i] = IF i <= 1 THEN <<first>>[i] ELSE q[i - 1]
        BY <1>4, <2>1, ConcatProperties
    <2>4. 1 \in 1 .. Len(a) /\ a[1] = first
        BY <2>1, <2>2, <2>3
    <2> HIDE DEF a, b
    <2>5. /\ Len(es) = Len(a) + Len(b)
          /\ \A i \in 1 .. Len(a) + Len(b) :
                 es[i] = IF i <= Len(a) THEN a[i] ELSE b[i - Len(a)]
        BY <1>5, <1>6, ConcatProperties
    <2>6. Len(a) \in Nat
        BY <1>5, LenProperties
    <2>7. 1 \in 1 .. Len(a) + Len(b) /\ 1 <= Len(a)
        BY <2>2, <2>4, <2>6
    <2> QED
        BY <2>4, <2>5, <2>7
<1>9. /\ s \o a \in Seq(Events)
      /\ ReplayEvents(s \o a) = After(ReplayEvents(s), first)
    <2>1. /\ s \o <<first>> \in Seq(Events)
          /\ ReplayEvents(s \o <<first>>) = After(ReplayEvents(s), first)
        BY <1>2, ReplayOneMore
    <2>2. /\ (s \o <<first>>) \o q \in Seq(Events)
          /\ ReplayEvents((s \o <<first>>) \o q) = ReplayEvents(s \o <<first>>)
        BY <2>1, QuietFacts
    <2>3. (s \o <<first>>) \o q = s \o a
        BY <1>4, ConcatAssociative
    <2> QED
        BY <2>1, <2>2, <2>3
<1>10. s \o es = (s \o a) \o b
    <2> HIDE DEF a, b
    <2>1. (s \o a) \o b = s \o (a \o b)
        BY <1>5, <1>6, ConcatAssociative
    <2> QED
        BY <1>6, <2>1
<1>11. CASE old = "unknown" \/ new = "unknown"
    <2>1. b = <<>>
        BY <1>1, <1>11
    <2>2. es = a
        BY <1>5, <1>6, <2>1, ConcatEmptySeq
    <2>3. \A x \in Quiet(t) : \A i \in 1 .. Len(x) : ~IsTransition(x[i])
        BY DEF Quiet
    <2>4. Len(q) \in Nat /\ Len(<<first>>) = 1 /\ <<first>>[1] = first
        BY <1>4, LenProperties
    <2>5. /\ Len(a) = 1 + Len(q)
          /\ \A i \in 1 .. 1 + Len(q) :
                 a[i] = IF i <= 1 THEN <<first>>[i] ELSE q[i - 1]
        BY <1>4, <2>4, ConcatProperties
    <2>6. ASSUME NEW i \in 1 .. 1 + Len(q) PROVE ~IsTransition(a[i])
        <3>1. CASE i = 1
            BY <1>2, <1>11, <2>4, <2>5, <3>1
        <3>2. CASE i # 1
            <4>1. i - 1 \in 1 .. Len(q) /\ a[i] = q[i - 1]
                BY <2>4, <2>5, <3>2
            <4> QED
                BY <2>3, <4>1
        <3> QED
            BY <3>1, <3>2
    <2>7. IsGap(first)
        BY <1>11 DEF first, IsGap, Event
    <2> HIDE DEF a, b
    <2>8. IsGap(es[1]) /\ \A i \in 1 .. Len(es) : ~IsTransition(es[i])
        BY <1>8, <2>2, <2>5, <2>6, <2>7
    <2> QED
        BY <1>7, <1>8, <1>11, <2>8 DEF es, first
<1>12. CASE ~(old = "unknown" \/ new = "unknown")
    <2>1. b = <<changed>> \o r
        BY <1>1, <1>12
    <2> HIDE DEF a, b
    <2>2. /\ (s \o a) \o <<changed>> \in Seq(Events)
          /\ ReplayEvents((s \o a) \o <<changed>>)
                 = After(ReplayEvents(s \o a), changed)
        BY <1>2, <1>9, ReplayOneMore
    <2>3. ReplayEvents(((s \o a) \o <<changed>>) \o r)
              = ReplayEvents((s \o a) \o <<changed>>)
        BY <2>2, QuietFacts
    <2>4. ((s \o a) \o <<changed>>) \o r = (s \o a) \o b
        BY <1>4, <1>9, <2>1, ConcatAssociative
    <2>5. ReplayEvents(s \o es)
              = ReplayEvent(ReplayEvent(ReplayEvents(s), first), changed)
        BY <1>2, <1>9, <1>10, <1>12, <2>2, <2>3, <2>4 DEF After
    <2> QED
        BY <1>7, <1>8, <1>12, <2>5 DEF es, first, changed
<1> QED
    BY <1>11, <1>12

\* All events of a poll are written at the time of its diff.
LEMMA NewEventsAt ==
    ASSUME FeedInv, Saves!Inv, step = "merged", NEW m \in Macs
    PROVE  NewEvents(m) \in Seq(Events) /\ At(NewEvents(m), now)
<1>1. now \in Nat
    BY DEF FeedInv, ClockInv
<1>2. NewEvents(m) \in Seq(Events)
    BY NewEventsType
<1>3. CASE ~Continued(m)
    <2>1. \/ NewEvents(m) = <<>>
          \/ NewEvents(m) = <<Event("NEW_DEVICE", now, "unknown", "unknown", "none")>>
          \/ NewEvents(m) =
                 <<Event("DEVICE_REMOVED", now, "unknown", "unknown", "none")>>
        BY <1>3 DEF Continued, NewEvents, DiffEvents
    <2> QED
        BY <1>2, <2>1 DEF At, Event
<1>4. CASE Continued(m)
    <2> DEFINE old == ResolvePreviousEffectiveState(latest[m], now)
               new == DeriveDeviceState(pending[m])
    <2>1. NewEvents(m) = StateEvents(latest[m], pending[m], now)
        BY <1>4 DEF NewEvents, DiffEvents, Continued
    <2>2. old \in States /\ new \in States
        BY <1>4, DiffStates
    <2>3. CASE old = new
        <3>1. NewEvents(m) = <<>>
            BY <2>1, <2>3 DEF StateEvents
        <3> QED
            BY <1>2, <3>1 DEF At
    <2>4. CASE old # new
        <3>1. <<>> \in Seq(Events)
            OBVIOUS
        <3> QED
            BY <1>1, <1>2, <2>1, <2>2, <2>4, <3>1, ReplayDiff
    <2> QED
        BY <2>3, <2>4
<1> QED
    BY <1>3, <1>4

\* Nothing in a log is later than the clock.
LogInv == \A m \in Macs : \A i \in 1 .. Len(log[m]) : log[m][i].time <= now

\* A device of a snapshot that is not younger than t.
Sound(d, t) == d \in Devices /\ Saves!Coherent(d) /\ Saves!Ordered(d, t)

\* What a GET has loaded was once stored.
LoadedInv ==
    loaded # NULL =>
        \A m \in Macs : loaded[m] # NULL => Sound(loaded[m], mergedAt)

\* A device that is not younger than t is not younger than anything later.
LEMMA SoundLater ==
    ASSUME NEW d, NEW t \in Nat, Sound(d, t), NEW u \in Nat, t <= u
    PROVE  Sound(d, u)
BY NullAssumption DEF Sound, Saves!Ordered, Saves!NotAfter, Devices, Timestamps

\* Behind the end of a log come events of the present moment.
LEMMA LogGrows ==
    ASSUME EventsInv, LogInv, now \in Nat, NEW m \in Macs,
           NEW x \in Seq(Events), At(x, now)
    PROVE  \A i \in 1 .. Len(log[m] \o x) : (log[m] \o x)[i].time <= now
<1> DEFINE s == log[m]
<1>1. s \in Seq(Events) /\ \A i \in 1 .. Len(s) : s[i].time <= now
    BY DEF EventsInv, LogInv
<1> HIDE DEF s
<1>2. /\ Len(s \o x) = Len(s) + Len(x)
      /\ \A i \in 1 .. Len(s) + Len(x) :
             (s \o x)[i] = IF i <= Len(s) THEN s[i] ELSE x[i - Len(s)]
    BY <1>1, ConcatProperties
<1>3. Len(s) \in Nat /\ Len(x) \in Nat
    BY <1>1, LenProperties
<1>4. \A i \in 1 .. Len(s) + Len(x) :
          /\ i <= Len(s) => i \in 1 .. Len(s)
          /\ ~(i <= Len(s)) => i - Len(s) \in 1 .. Len(x)
    BY <1>3
<1>5. ASSUME NEW i \in 1 .. Len(s) + Len(x) PROVE (s \o x)[i].time <= now
    <2>1. CASE i <= Len(s)
        BY <1>1, <1>2, <1>4, <2>1
    <2>2. CASE ~(i <= Len(s))
        <3>1. i - Len(s) \in 1 .. Len(x) /\ (s \o x)[i] = x[i - Len(s)]
            BY <1>2, <1>4, <2>2
        <3>2. x[i - Len(s)].time = now
            BY <3>1 DEF At
        <3> QED
            BY <3>1, <3>2
    <2> QED
        BY <2>1, <2>2
<1> QED
    BY <1>2, <1>5 DEF s

\* No step puts an event of a later moment into a log.
LEMMA LogStep ==
    ASSUME FeedInv, Saves!Inv, EventsInv, LogInv, [Next]_vars
    PROVE  LogInv'
<1>1. now \in Nat /\ now' \in Nat /\ now <= now'
    BY DEF FeedInv, ClockInv, Next, Tick, Poll, Merge, AppendEvents, AppendFails,
           OpenSnapshot, WriteSnapshot, SaveFails, Crash, Abandon, LoadSnapshot,
           Respond, vars
<1>2. CASE Appends
    <2>1. step = "merged" /\ now' = now /\ (AppendEvents \/ AppendFails)
        BY <1>2
        DEF Appends, Next, Tick, Poll, Merge, OpenSnapshot, WriteSnapshot, SaveFails,
            Crash, Abandon, LoadSnapshot, Respond, vars, pollVars, AppendEvents,
            AppendFails
    <2>2. ASSUME NEW m \in Macs
          PROVE  \E x \in Seq(Events) : At(x, now) /\ log'[m] = log[m] \o x
        <3>1. NewEvents(m) \in Seq(Events) /\ At(NewEvents(m), now)
            BY <2>1, NewEventsAt
        <3>2. CASE AppendEvents
            BY <3>1, <3>2 DEF AppendEvents
        <3>3. CASE AppendFails
            <4>1. PICK kept \in [Macs -> 0 .. 3] :
                      /\ kept[m] = 0 \/ kept[m] < Len(NewEvents(m))
                      /\ log' = [n \in Macs |->
                                    log[n] \o SubSeq(NewEvents(n), 1, kept[n])]
                BY <3>3 DEF AppendFails
            <4> DEFINE s == NewEvents(m)
                       k == kept[m]
            <4>2. k \in 0 .. 3
                BY <4>1
            <4>3. k \in Nat /\ (k = 0 \/ k < Len(s)) /\ s \in Seq(Events)
                BY <3>1, <4>1, <4>2
            <4>4. log'[m] = log[m] \o SubSeq(s, 1, k) /\ At(s, now)
                BY <3>1, <4>1
            <4> HIDE DEF s, k
            <4>5. Len(s) \in Nat /\ k <= Len(s) /\ \A i \in 1 .. Len(s) : s[i] \in Events
                BY <4>3, LenProperties, ElementOfSeq
            <4>6. /\ SubSeq(s, 1, k) \in Seq(Events)
                  /\ Len(SubSeq(s, 1, k)) = k
                  /\ \A i \in 1 .. k : SubSeq(s, 1, k)[i] = s[i]
                BY <4>3, <4>5, SubSeqProperties
            <4>7. At(SubSeq(s, 1, k), now)
                BY <4>3, <4>4, <4>5, <4>6 DEF At
            <4> QED
                BY <4>4, <4>6, <4>7
        <3> QED
            BY <2>1, <3>2, <3>3
    <2>3. ASSUME NEW m \in Macs
          PROVE  \A i \in 1 .. Len(log'[m]) : log'[m][i].time <= now'
        <3>1. PICK x \in Seq(Events) : At(x, now) /\ log'[m] = log[m] \o x
            BY <2>2
        <3> QED
            BY <1>1, <2>1, <3>1, LogGrows
    <2> QED
        BY <2>3 DEF LogInv
<1>3. CASE ~Appends
    <2>1. log' = log
        BY <1>3 DEF Appends, Next, Tick, Poll, Merge, AppendEvents, AppendFails,
                    OpenSnapshot, WriteSnapshot, SaveFails, Crash, Abandon,
                    LoadSnapshot, Respond, vars
    <2>2. ASSUME NEW m \in Macs, NEW i \in 1 .. Len(log[m])
          PROVE  log[m][i].time <= now'
        <3>1. log[m] \in Seq(Events)
            BY DEF EventsInv
        <3>2. log[m][i] \in Events
            BY <3>1, ElementOfSeq
        <3>3. log[m][i].time \in Nat /\ log[m][i].time <= now
            BY <3>2 DEF Events, LogInv
        <3> QED
            BY <1>1, <3>3
    <2> QED
        BY <2>1, <2>2 DEF LogInv
<1> QED
    BY <1>2, <1>3

\* What a GET has loaded stays sound while it is at work.
LEMMA LoadedStep ==
    ASSUME FeedInv, Saves!Inv, LoadedInv, [Next]_vars
    PROVE  LoadedInv'
<1>1. mergedAt \in Nat /\ mergedAt' \in Nat /\ mergedAt <= mergedAt'
    BY DEF FeedInv, ClockInv, Next, Tick, Poll, Merge, AppendEvents, AppendFails,
           OpenSnapshot, WriteSnapshot, SaveFails, Crash, Abandon, LoadSnapshot,
           Respond, vars, pollVars
<1>2. CASE LoadSnapshot
    <2>1. loaded' = latest /\ Stored = latest /\ mergedAt' = mergedAt
        BY <1>2 DEF LoadSnapshot, Stored, pollVars
    <2>2. ASSUME NEW m \in Macs, latest[m] # NULL
          PROVE  Sound(latest[m], mergedAt)
        <3>1. Stored[m] = latest[m] /\ Stored[m] # NULL
            BY <2>1, <2>2
        <3>2. latestTime \in Nat /\ Saves!DeviceInv(latest[m], latestTime)
              /\ latest[m] \in Devices
            BY <3>1, StoredFacts
        <3>3. latestTime \in (0 .. mergedAt) \cup {NULL}
            BY DEF Saves!Inv, Saves!TypeOK
        <3>4. latestTime <= mergedAt
            BY <3>2, <3>3, <1>1, NullAssumption
        <3>5. Sound(latest[m], latestTime)
            BY <3>2 DEF Sound, Saves!DeviceInv
        <3> QED
            BY <1>1, <3>2, <3>4, <3>5, SoundLater
    <2> QED
        BY <2>1, <2>2 DEF LoadedInv
<1>3. CASE ~LoadSnapshot
    <2>1. loaded' = NULL \/ loaded' = loaded
        BY <1>3 DEF Next, Tick, Poll, Merge, AppendEvents, AppendFails, OpenSnapshot,
                    WriteSnapshot, SaveFails, Crash, Abandon, Respond, vars
    <2> QED
        BY <1>1, <2>1, SoundLater DEF LoadedInv
<1> QED
    BY <1>2, <1>3

\* What holds of all that a GET reads, faults or not.
ReadInv == LogInv /\ LoadedInv

\* It holds all along.
LEMMA ReadInvariance == Spec => []ReadInv
<1>1. Init => ReadInv
    BY DEF Init, ReadInv, LogInv, LoadedInv
<1>2. FeedInv /\ Saves!Inv /\ EventsInv /\ ReadInv /\ [Next]_vars => ReadInv'
    BY LogStep, LoadedStep DEF ReadInv
<1> QED
    BY <1>1, <1>2, Invariance, StoredInv, EventsTyped, PTL DEF Spec

\* The session the API replays of a device.
LEMMA Replayed ==
    ASSUME FeedInv, EventsInv, LogInv, NEW m \in Macs
    PROVE  ReplayEvents(log[m]) \in Sessions(now)
BY ReplayEventsType DEF FeedInv, ClockInv, EventsInv, LogInv

\* An item that is idle has a session that began.
THEOREM IdleItemsHaveSessions == Spec => []IdleHasSession
<1>1. FeedInv /\ EventsInv /\ ReadInv => IdleHasSession
    <2> SUFFICES ASSUME FeedInv, EventsInv, ReadInv,
                        NEW m \in Macs, Served(m), Item(m).status = "idle"
                 PROVE  Item(m).online_since # NULL
        BY DEF IdleHasSession
    <2> DEFINE d == loaded[m]
               r == ReplayEvents(log[m])
    <2>1. r \in Sessions(now)
        BY Replayed DEF ReadInv
    <2>2. d.idle_since # NULL => d.online_since # NULL
        BY DEF ReadInv, LoadedInv, Served, Sound, Saves!Coherent, Saves!Up
    <2>3. r.idle_since # NULL => r.online_since # NULL
        BY <2>1 DEF Sessions
    <2> HIDE DEF d, r
    <2> DEFINE s == Override(d, r)
    <2>4. Item(m).online_since = s.online_since /\ s.idle_since # NULL
        BY DEF Item, ApiItem, ResolveApiState, d, r
    <2> QED
        BY <2>2, <2>3, <2>4 DEF Override
<1> QED
    BY <1>1, Invariance, EventsTyped, ReadInvariance, PTL

-----------------------------------------------------------------------------
(* What a GET serves.                                                      *)

\* When a gap is the last that is known of a device and the log is not outdated,
\* the API replays nothing.
LEMMA GapFacts ==
    ASSUME NEW s \in Seq(Events), NEW x \in Seq(Events),
           1 \in 1 .. Len(x), IsGap(x[1]),
           \A i \in 1 .. Len(x) : ~IsTransition(x[i]),
           NEW t \in Nat, \A i \in 1 .. Len(s \o x) : (s \o x)[i].time <= t,
           ~Outdated(s \o x)
    PROVE  ReplayEvents(s \o x) = NoSession
<1> DEFINE z == s \o x
           k == Len(s)
<1>1. /\ z \in Seq(Events) /\ Len(z) = k + Len(x)
      /\ \A i \in 1 .. k + Len(x) : z[i] = IF i <= k THEN s[i] ELSE x[i - k]
    BY ConcatProperties
<1>2. k \in Nat /\ Len(x) \in Nat /\ DOMAIN z = 1 .. Len(z)
    BY <1>1, LenProperties
<1>3. ReplayEvents(z) = NoSession \/ \E i \in 1 .. Len(z) : IsTransition(z[i])
    BY <1>1, ReplayEventsType
<1>4. ASSUME NEW h \in 1 .. Len(z), IsTransition(z[h])
      PROVE  Outdated(z)
    <2>1. \A i \in k + 1 .. Len(z) : i - k \in 1 .. Len(x) /\ z[i] = x[i - k]
        BY <1>1, <1>2
    <2>2. \A i \in k + 1 .. Len(z) : ~IsTransition(z[i])
        BY <2>1
    <2>3. h \in 1 .. (k + 1) - 1
        BY <1>1, <1>2, <1>4, <2>2
    <2>4. k + 1 \in k + 1 .. Len(z) /\ (k + 1) - k = 1
        BY <1>1, <1>2
    <2>5. IsGap(z[k + 1])
        BY <2>1, <2>4
    <2>6. \A i \in (k + 1) + 1 .. Len(z) : ~IsTransition(z[i])
        BY <1>2, <2>2
    <2>7. k + 1 \in DOMAIN z
        BY <1>2, <2>4
    <2> HIDE DEF z, k
    <2> QED
        BY <1>4, <2>3, <2>5, <2>6, <2>7 DEF Outdated
<1> QED
    BY <1>3, <1>4

\* The device the events of the log lead to: the last one that was compared.
Last(m) == IF step \in {"appended", "writing"} THEN pending[m] ELSE latest[m]

\* What the API may replay of a device that is online, or idle.
OnlineAgrees(d, r) ==
    d.fused = "online" =>
        \/ r = NoSession
        \/ r.online_since # NULL /\ r.idle_since = NULL /\ r.offline_since = NULL

IdleAgrees(d, r) ==
    d.fused = "idle" =>
        \/ r = NoSession
        \/ /\ r.idle_since # NULL /\ r.online_since # NULL /\ r.offline_since = NULL
           /\ r.online_since <= r.idle_since
           /\ d.idle_since <= r.idle_since
        \/ /\ r.offline_since # NULL
           /\ d.idle_since + IdleTimeout <= r.offline_since

\* As long as nothing fails, only a poll in the middle of writing has a file that
\* cannot be read, and there is nothing to serve before the first one is written.
FilesInv ==
    /\ file \in {"none", "ok", "torn"}
    /\ file = "torn" => step = "writing"
    /\ file = "none" => loaded = NULL /\ \A m \in Macs : log[m] = <<>>

\* The log of a device that is not outdated agrees with its last device.
AgreesInv ==
    \A m \in Macs : Last(m) # NULL /\ ~Outdated(log[m]) =>
        /\ OnlineAgrees(Last(m), ReplayEvents(log[m]))
        /\ IdleAgrees(Last(m), ReplayEvents(log[m]))

\* And an idle device has not been idle for longer than the one a GET has loaded.
LoadedIdleInv ==
    \A m \in Macs :
        /\ Served(m) /\ loaded[m].fused = "idle"
        /\ Last(m) # NULL /\ Last(m).fused = "idle"
        => loaded[m].idle_since <= Last(m).idle_since

\* All three, of a run in which nothing has failed.
ServedInv == faults = 0 => FilesInv /\ AgreesInv /\ LoadedIdleInv

\* A device of a snapshot that is idle has an idle start, and no bridge host.
LEMMA IdleDevice ==
    ASSUME FeedInv, Saves!Inv, NEW m \in Macs, Stored[m] # NULL
    PROVE  /\ Stored[m].fused = "idle" <=> Stored[m].idle_since # NULL
           /\ Stored[m].bridge => Stored[m].fused = "online"
           /\ Stored[m].fused \in Up => Stored[m].offline_since = NULL
           /\ Stored[m].idle_since \in Nat \cup {NULL}
           /\ Stored[m].idle_since # NULL => Stored[m].idle_since <= mergedAt
<1>1. /\ latestTime \in Nat /\ mergedAt \in Nat /\ Stored[m] \in Devices
      /\ Saves!Coherent(Stored[m]) /\ Saves!Ordered(Stored[m], latestTime)
    BY StoredFacts DEF Saves!DeviceInv
<1>2. latestTime \in (0 .. mergedAt) \cup {NULL}
    BY DEF Saves!Inv, Saves!TypeOK
<1>3. latestTime <= mergedAt
    BY <1>1, <1>2, NullAssumption
<1>4. Sound(Stored[m], latestTime)
    BY <1>1 DEF Sound
<1>5. Sound(Stored[m], mergedAt)
    BY <1>1, <1>3, <1>4, SoundLater
<1>6. Stored[m].idle_since # NULL => Stored[m].idle_since <= mergedAt
    <2>1. \A x \in {Stored[m].idle_since, Stored[m].state_changed_at} :
              x \in Nat \cup {NULL}
        BY <1>1 DEF Devices, Timestamps
    <2> QED
        BY <1>1, <1>5, <2>1, NullAssumption DEF Sound, Saves!Ordered, Saves!NotAfter
<1> QED
    BY <1>1, <1>6 DEF Saves!Coherent, Saves!Up, Up, Devices, Timestamps

\* What is known of an idle device on its way to the file.
LEMMA PendingIdle ==
    ASSUME FeedInv, Saves!Inv, step # "idle", NEW m \in Macs,
           pending[m] # NULL, pending[m].fused = "idle"
    PROVE  /\ pending[m].idle_since =
                  IF Stored[m] # NULL /\ Stored[m].fused = "idle"
                  THEN Stored[m].idle_since ELSE mergedAt
           /\ pending[m].idle_since \in 0 .. mergedAt
           /\ Stored[m] # NULL =>
                  /\ ResolvePreviousEffectiveState(Stored[m], mergedAt) # "offline"
                  /\ ~HasReconnectEvidence(pending[m])
<1>1. PICK report \in [Macs -> Observations \cup {NULL}] :
          pending = MergeOf(report, mergedAt)
    BY DEF FeedInv, PendingInv
<1>2. pending[m] = MergeDevice(Stored[m], report[m], mergedAt) /\ report[m] # NULL
    BY <1>1 DEF MergeOf
<1>3. report[m] \in Observations /\ mergedAt \in Nat
    BY <1>2 DEF FeedInv, ClockInv
<1>4. CASE Stored[m] = NULL
    <2>1. pending[m] = Saves!FirstSeen(report[m], mergedAt)
        BY <1>2, <1>4, SameMerge DEF MergeDevice, Saves!MergeDevice
    <2>2. pending[m].idle_since = mergedAt
        BY <1>3, <2>1, SameMerge, Saves!FirstSeenIdle, IdleTimeoutAssumption,
           NullAssumption, ArpStatusesAssumption, IpsAssumption, BoundsAssumption
        DEF AllArpStatuses, Saves!AllArpStatuses
    <2> QED
        BY <1>3, <1>4, <2>2
<1>5. CASE Stored[m] # NULL
    <2>1. /\ latestTime \in Nat /\ Stored[m] \in Saves!Devices
          /\ Saves!DeviceInv(Stored[m], latestTime)
        BY <1>5, StoredFacts
    <2>2. pending[m] = Saves!Merged(Stored[m], report[m], mergedAt)
          /\ report[m] \in Saves!Observations
        BY <1>2, <1>3, <1>5, SameMerge DEF MergeDevice
    <2>3. /\ pending[m].idle_since = IF Stored[m].fused = "idle"
                                     THEN Stored[m].idle_since ELSE mergedAt
          /\ Saves!ResolvePreviousEffectiveState(Stored[m], mergedAt) # "offline"
          /\ ~Saves!HasReconnectEvidence(pending[m])
        BY <1>3, <2>1, <2>2, Saves!MergedIdle, IdleTimeoutAssumption,
           NullAssumption, ArpStatusesAssumption, IpsAssumption, BoundsAssumption
        DEF AllArpStatuses, Saves!AllArpStatuses
    <2>4. /\ ResolvePreviousEffectiveState(Stored[m], mergedAt) # "offline"
          /\ ~HasReconnectEvidence(pending[m])
        BY <2>3, SameMerge DEF HasReconnectEvidence, Saves!HasReconnectEvidence
    <2>5. pending[m].idle_since \in 0 .. mergedAt
        BY <1>3, <1>5, <2>3, IdleDevice, NullAssumption
    <2> QED
        BY <1>5, <2>3, <2>4, <2>5
<1> QED
    BY <1>4, <1>5

\* The last transition of a difference makes a session of its own.
LEMMA TransitionAgrees ==
    ASSUME FeedInv, Saves!Inv, EventsInv, LogInv, step = "merged",
           NEW m \in Macs, Continued(m),
           NEW old, old = ResolvePreviousEffectiveState(latest[m], now),
           NEW new, new = DeriveDeviceState(pending[m]),
           old # new, old # "unknown", new # "unknown",
           NEW r, r = ReplayEvents(log[m] \o NewEvents(m))
    PROVE  OnlineAgrees(pending[m], r) /\ IdleAgrees(pending[m], r)
<1> DEFINE next    == SanitizedCurrent(old, new, HasReconnectEvidence(pending[m]))
           first   == Event("arp_state_changed", now, old, new, "none")
           changed == Event("state_changed", now, old, next, "none")
           before  == ReplayEvents(log[m])
           middle  == ReplayEvent(before, first)
<1>1. /\ old \in States /\ new \in States
      /\ new = pending[m].fused
    BY DiffStates
<1>2. now \in Nat /\ mergedAt \in Nat /\ mergedAt <= now /\ now # NULL
    BY NullAssumption DEF FeedInv, ClockInv
<1>3. NewEvents(m) = StateEvents(latest[m], pending[m], now) /\ log[m] \in Seq(Events)
    BY DEF NewEvents, DiffEvents, Continued, EventsInv
<1>4. r = ReplayEvent(middle, changed)
    <2> DEFINE p == latest[m]
               c == pending[m]
               s == log[m]
    <2>1. /\ old = ResolvePreviousEffectiveState(p, now)
          /\ new = DeriveDeviceState(c)
          /\ next = SanitizedCurrent(old, new, HasReconnectEvidence(c))
          /\ s \in Seq(Events)
          /\ r = ReplayEvents(s \o StateEvents(p, c, now))
        BY <1>3
    <2>2. r = ReplayEvent(ReplayEvent(ReplayEvents(s), first), changed)
        <3> HIDE DEF p, c, s, next
        <3> QED
            BY <1>1, <1>2, <2>1, ReplayDiff
    <2> QED
        BY <2>2
<1>5. before \in Sessions(now)
    BY Replayed
<1> HIDE DEF before
<1>6. middle.online_since \in 0 .. now \/ middle.online_since = NULL
    BY <1>2, <1>5 DEF ReplayEvent, Sessions, Moments, Event
<1> HIDE DEF middle
<1>7. changed.old = old /\ changed.new = next /\ changed.time = now
    BY DEF Event
<1> HIDE DEF changed
<1>8. CASE new = "online"
    <2>1. next = "online"
        BY <1>8 DEF SanitizedCurrent
    <2> HIDE DEF next
    <2> QED
        BY <1>1, <1>2, <1>4, <1>7, <1>8, <2>1
        DEF ReplayEvent, ApiCurrent, OnlineAgrees, IdleAgrees
<1>9. CASE new = "idle"
    <2>1. /\ pending[m].idle_since \in 0 .. mergedAt
          /\ Stored[m] = latest[m]
          /\ ResolvePreviousEffectiveState(latest[m], mergedAt) # "offline"
          /\ ~HasReconnectEvidence(pending[m])
          /\ latest[m].fused = "idle" => pending[m].idle_since = latest[m].idle_since
        BY <1>1, <1>9, PendingIdle, PendingDevice DEF Continued
    <2>2. CASE old = "online"
        <3>1. next = "idle"
            BY <1>9, <2>2 DEF SanitizedCurrent
        <3> HIDE DEF next
        <3>2. /\ r.idle_since = now /\ r.offline_since = NULL
              /\ r.online_since = now \/ r.online_since = middle.online_since
              /\ r.online_since # NULL
            BY <1>2, <1>4, <1>7, <2>2, <3>1 DEF ReplayEvent, ApiCurrent, Up
        <3>3. r.online_since <= r.idle_since /\ pending[m].idle_since <= r.idle_since
            BY <1>2, <1>6, <2>1, <3>2
        <3> QED
            BY <1>1, <1>2, <1>9, <3>2, <3>3 DEF OnlineAgrees, IdleAgrees
    <2>3. CASE old = "offline"
        <3>1. next = "offline"
            BY <1>9, <2>1, <2>3 DEF SanitizedCurrent
        <3> HIDE DEF next
        <3>2. r.offline_since = now
            BY <1>4, <1>7, <3>1 DEF ReplayEvent, ApiCurrent
        <3>3. DeriveDeviceState(latest[m]) = "idle" /\ IdleTimeoutExceeded(latest[m], now)
            BY <2>1, <2>3 DEF ResolvePreviousEffectiveState
        <3>4. latest[m].fused = "idle" /\ latest[m].idle_since \in Nat
              /\ latest[m].idle_since # NULL
            BY <2>1, <3>3, IdleDevice DEF DeriveDeviceState, Continued
        <3>5. now - latest[m].idle_since >= IdleTimeout
            BY <3>3, <3>4 DEF IdleTimeoutExceeded
        <3>6. pending[m].idle_since + IdleTimeout <= now
            BY <1>2, <2>1, <3>4, <3>5, IdleTimeoutAssumption
        <3> QED
            BY <1>1, <1>2, <1>9, <3>2, <3>6 DEF OnlineAgrees, IdleAgrees
    <2> QED
        BY <1>1, <1>9, <2>2, <2>3 DEF States
<1>10. CASE new = "offline"
    BY <1>1, <1>10 DEF OnlineAgrees, IdleAgrees
<1> QED
    BY <1>1, <1>8, <1>9, <1>10 DEF States

\* After a diff the log agrees with the device on its way to the file, if it agreed
\* with the one in the file.
LEMMA DiffAgrees ==
    ASSUME FeedInv, Saves!Inv, EventsInv, LogInv, step = "merged", file = "ok",
           NEW m \in Macs, pending[m] # NULL,
           NEW s, s = log[m] \o NewEvents(m), ~Outdated(s),
           latest[m] # NULL /\ ~Outdated(log[m]) =>
               /\ OnlineAgrees(latest[m], ReplayEvents(log[m]))
               /\ IdleAgrees(latest[m], ReplayEvents(log[m]))
    PROVE  /\ OnlineAgrees(pending[m], ReplayEvents(s))
           /\ IdleAgrees(pending[m], ReplayEvents(s))
<1> DEFINE x == NewEvents(m)
           old == ResolvePreviousEffectiveState(latest[m], now)
           new == DeriveDeviceState(pending[m])
<1>1. /\ now \in Nat /\ log[m] \in Seq(Events)
      /\ x \in Seq(Events) /\ At(x, now)
    BY NewEventsAt DEF FeedInv, ClockInv, EventsInv
<1>2. \A i \in 1 .. Len(s) : s[i].time <= now
    BY <1>1, LogGrows
<1>3. ASSUME ReplayEvents(s) = NoSession
      PROVE  /\ OnlineAgrees(pending[m], ReplayEvents(s))
             /\ IdleAgrees(pending[m], ReplayEvents(s))
    BY <1>3 DEF OnlineAgrees, IdleAgrees
<1>4. CASE latest[m] = NULL
    <2>1. x = <<Event("NEW_DEVICE", now, "unknown", "unknown", "none")>>
        BY <1>4 DEF NewEvents, DiffEvents
    <2>2. /\ 1 \in 1 .. Len(x) /\ IsGap(x[1])
          /\ \A i \in 1 .. Len(x) : ~IsTransition(x[i])
        BY <2>1 DEF Event, IsGap, IsTransition
    <2> HIDE DEF x
    <2>3. ReplayEvents(log[m] \o x) = NoSession
        <3>1. s = log[m] \o x
            BY DEF x
        <3>2. \A i \in 1 .. Len(log[m] \o x) : (log[m] \o x)[i].time <= now
            BY <1>2, <3>1
        <3>3. ~Outdated(log[m] \o x)
            BY <3>1
        <3> QED
            BY <1>1, <2>2, <3>2, <3>3, GapFacts
    <2> QED
        BY <1>3, <2>3 DEF x
<1>5. CASE latest[m] # NULL
    <2>1. Continued(m) /\ x = StateEvents(latest[m], pending[m], now)
        BY <1>5 DEF Continued, NewEvents, DiffEvents
    <2>2. old \in States /\ new \in States /\ new = pending[m].fused
        BY <2>1, DiffStates
    <2>3. CASE old = new
        <3>1. x = <<>>
            BY <2>1, <2>3 DEF StateEvents
        <3>2. s = log[m]
            BY <1>1, <3>1, ConcatEmptySeq
        <3>3. /\ Stored[m] = latest[m]
              /\ latest[m].bridge => latest[m].fused = "online"
            BY <2>1, PendingDevice, IdleDevice DEF Continued
        <3>4. new = "online" => latest[m].fused = "online"
            BY <2>3, <3>3 DEF ResolvePreviousEffectiveState, DeriveDeviceState
        <3>5. new = "idle" => latest[m].fused = "idle"
            BY <2>3, <3>3 DEF ResolvePreviousEffectiveState, DeriveDeviceState
        <3>6. new = "idle" => pending[m].idle_since = latest[m].idle_since
            BY <1>5, <2>2, <3>3, <3>5, PendingIdle
        <3>7. /\ OnlineAgrees(latest[m], ReplayEvents(s))
              /\ IdleAgrees(latest[m], ReplayEvents(s))
            BY <1>5, <3>2
        <3> HIDE DEF old, new, x
        <3> QED
            BY <2>2, <3>4, <3>5, <3>6, <3>7 DEF OnlineAgrees, IdleAgrees
    <2>4. CASE old # new /\ (old = "unknown" \/ new = "unknown")
        <3>1. /\ 1 \in 1 .. Len(x) /\ IsGap(x[1])
              /\ \A i \in 1 .. Len(x) : ~IsTransition(x[i])
            BY <1>1, <2>1, <2>2, <2>4, ReplayDiff
        <3>2. s = log[m] \o x
            OBVIOUS
        <3> HIDE DEF x
        <3>3. \A i \in 1 .. Len(log[m] \o x) : (log[m] \o x)[i].time <= now
            BY <1>2, <3>2
        <3>4. ~Outdated(log[m] \o x)
            BY <3>2
        <3>5. ReplayEvents(log[m] \o x) = NoSession
            BY <1>1, <3>1, <3>3, <3>4, GapFacts
        <3> QED
            BY <1>3, <3>2, <3>5
    <2>5. CASE old # new /\ old # "unknown" /\ new # "unknown"
        BY <2>1, <2>5, TransitionAgrees
    <2> QED
        BY <2>3, <2>4, <2>5
<1> QED
    BY <1>4, <1>5

\* A GET has not loaded a device that is idle since later than the last merge.
LEMMA LoadedIdle ==
    ASSUME FeedInv, LoadedInv, NEW m \in Macs, Served(m), loaded[m].fused = "idle"
    PROVE  /\ loaded[m].idle_since \in Nat /\ loaded[m].idle_since <= mergedAt
           /\ loaded[m].idle_since # NULL /\ loaded[m].online_since # NULL
           /\ loaded[m].online_since \in Nat
           /\ loaded[m].online_since <= loaded[m].idle_since
           /\ loaded[m].offline_since = NULL /\ ~loaded[m].bridge
<1>1. mergedAt \in Nat
    BY DEF FeedInv, ClockInv
<1>2. Sound(loaded[m], mergedAt)
    BY DEF LoadedInv, Served
<1>3. \A x \in {loaded[m].idle_since, loaded[m].state_changed_at,
                loaded[m].online_since} : x \in Nat \cup {NULL}
    BY <1>2 DEF Sound, Devices, Timestamps
<1> QED
    BY <1>1, <1>2, <1>3, NullAssumption
    DEF Sound, Saves!Coherent, Saves!Up, Saves!Ordered, Saves!NotAfter

\* The steps, but those that fail.
LEMMA ServedStep ==
    ASSUME FeedInv, Saves!Inv, EventsInv, ReadInv, ServedInv, [Next]_vars
    PROVE  ServedInv'
<1> SUFFICES ASSUME faults' = 0
             PROVE  FilesInv' /\ AgreesInv' /\ LoadedIdleInv'
    BY DEF ServedInv
<1> USE DEF fileVars, pollVars
<1>1. faults = 0 /\ ~AppendFails /\ ~SaveFails /\ ~Crash
    BY DEF EventsInv, Next, Tick, Poll, Merge, AppendEvents, AppendFails, OpenSnapshot,
           WriteSnapshot, SaveFails, Crash, Abandon, LoadSnapshot, Respond, vars
<1>2. FilesInv /\ AgreesInv /\ LoadedIdleInv
    BY <1>1 DEF ServedInv
<1>3. FilesInv'
    <2>1. CASE AppendEvents
        <3>1. UNCHANGED <<file, loaded>> /\ step = "merged"
            BY <2>1 DEF AppendEvents
        <3>2. file = "none" => \A m \in Macs : log'[m] = <<>>
            <4> SUFFICES ASSUME file = "none", NEW m \in Macs PROVE log'[m] = <<>>
                OBVIOUS
            <4>1. log'[m] = <<>> \o <<>>
                BY <1>2, <2>1 DEF AppendEvents, FilesInv, NewEvents
            <4> QED
                BY <4>1
        <3> QED
            BY <1>2, <3>1, <3>2 DEF FilesInv
    <2>2. CASE ~AppendEvents
        BY <1>1, <1>2, <2>2
        DEF FilesInv, Next, Tick, Poll, Merge, OpenSnapshot, WriteSnapshot, LoadSnapshot,
            Respond, vars
    <2> QED
        BY <2>1, <2>2
<1>4. CASE AppendEvents
    <2>1. /\ step = "merged" /\ step' = "appended" 
          /\ UNCHANGED <<now, file, latest, latestTime, pending, mergedAt, loaded>>
          /\ \A m \in Macs : log'[m] = log[m] \o NewEvents(m)
        BY <1>4 DEF AppendEvents
    <2>2. file = "ok" \/ file = "none"
        BY <1>2, <2>1 DEF FilesInv
    <2>3. \A m \in Macs : Last(m) = latest[m] /\ Last(m)' = pending[m]
        BY <2>1 DEF Last
    <2>4. AgreesInv'
        <3> SUFFICES ASSUME NEW m \in Macs, pending[m] # NULL, ~Outdated(log'[m])
                     PROVE  /\ OnlineAgrees(pending[m], ReplayEvents(log'[m]))
                            /\ IdleAgrees(pending[m], ReplayEvents(log'[m]))
            BY <2>3 DEF AgreesInv
        <3>1. CASE file = "ok"
            <4>1. log'[m] = log[m] \o NewEvents(m)
                BY <2>1
            <4>2. latest[m] # NULL /\ ~Outdated(log[m]) =>
                      /\ OnlineAgrees(latest[m], ReplayEvents(log[m]))
                      /\ IdleAgrees(latest[m], ReplayEvents(log[m]))
                BY <1>2, <2>3 DEF AgreesInv
            <4> QED
                BY <2>1, <3>1, <4>1, <4>2, DiffAgrees DEF ReadInv
        <3>2. CASE file = "none"
            <4>1. log'[m] = <<>>
                BY <1>3, <2>1, <3>2 DEF FilesInv
            <4> QED
                BY <4>1, ReplayNone DEF OnlineAgrees, IdleAgrees
        <3> QED
            BY <2>2, <3>1, <3>2
    <2>5. LoadedIdleInv'
        <3> SUFFICES ASSUME NEW m \in Macs, Served(m), loaded[m].fused = "idle",
                            pending[m] # NULL, pending[m].fused = "idle"
                     PROVE  loaded[m].idle_since <= pending[m].idle_since
            BY <2>1, <2>3 DEF LoadedIdleInv, Served
        <3>1. pending[m].idle_since = IF Stored[m] # NULL /\ Stored[m].fused = "idle"
                                      THEN Stored[m].idle_since ELSE mergedAt
            BY <2>1, PendingIdle
        <3>2. CASE Stored[m] # NULL /\ Stored[m].fused = "idle"
            <4>1. Stored[m] = latest[m]
                BY <3>2, <2>1 DEF Stored, NoDevices
            <4> QED
                BY <1>2, <2>3, <3>1, <3>2, <4>1 DEF LoadedIdleInv
        <3>3. CASE ~(Stored[m] # NULL /\ Stored[m].fused = "idle")
            BY <3>1, <3>3, LoadedIdle DEF ReadInv
        <3> QED
            BY <3>2, <3>3
    <2> QED
        BY <1>3, <2>4, <2>5
<1>5. CASE LoadSnapshot
    <2>1. /\ file = "ok" /\ loaded' = latest
          /\ UNCHANGED <<now, file, latest, latestTime, pending, mergedAt, step, log>>
        BY <1>5 DEF LoadSnapshot
    <2>2. \A m \in Macs : Last(m)' = Last(m)
        BY <2>1 DEF Last
    <2>3. AgreesInv'
        BY <1>2, <2>1, <2>2 DEF AgreesInv
    <2>4. LoadedIdleInv'
        <3> SUFFICES ASSUME NEW m \in Macs, latest[m] # NULL, latest[m].fused = "idle",
                            Last(m) # NULL, Last(m).fused = "idle"
                     PROVE  latest[m].idle_since <= Last(m).idle_since
            BY <2>1, <2>2 DEF LoadedIdleInv, Served
        <3>1. Stored[m] = latest[m]
            BY <2>1 DEF Stored
        <3>2. latest[m].idle_since \in Nat
            BY <3>1, IdleDevice
        <3>3. CASE step \in {"appended", "writing"}
            <4>1. pending[m].idle_since = latest[m].idle_since /\ Last(m) = pending[m]
                BY <3>1, <3>3, PendingIdle DEF Last
            <4> QED
                BY <3>2, <4>1
        <3>4. CASE step \notin {"appended", "writing"}
            BY <3>2, <3>4 DEF Last
        <3> QED
            BY <3>3, <3>4
    <2> QED
        BY <1>3, <2>3, <2>4
<1>6. CASE Merge \/ OpenSnapshot \/ WriteSnapshot \/ Tick \/ Respond \/ UNCHANGED vars
    <2>1. \A m \in Macs : Last(m)' = Last(m)
        BY <1>6 DEF Last, Merge, OpenSnapshot, WriteSnapshot, Tick, Respond, vars
    <2>2. log' = log /\ (loaded' = loaded \/ loaded' = NULL)
        BY <1>6 DEF Merge, OpenSnapshot, WriteSnapshot, Tick, Respond, vars
    <2>3. AgreesInv'
        BY <1>2, <2>1, <2>2 DEF AgreesInv
    <2>4. LoadedIdleInv'
        BY <1>2, <2>1, <2>2 DEF LoadedIdleInv, Served
    <2> QED
        BY <1>3, <2>3, <2>4
<1> QED
    BY <1>1, <1>4, <1>5, <1>6 DEF Next, Poll

\* They hold all along.
LEMMA ServedInvariance == Spec => []ServedInv
<1>1. Init => ServedInv
    BY DEF Init, ServedInv, FilesInv, AgreesInv, LoadedIdleInv, Last, NoDevices, Served
<1> QED
    BY <1>1, ServedStep, Invariance, StoredInv, EventsTyped, ReadInvariance, PTL
    DEF Spec

\* The device the log leads to is one of those a GET can have met.
LEMMA LastIsSeen ==
    ASSUME faults = 0, ServedInv, NEW m \in Macs, NEW states, SaysAllAlong(m, states)
    PROVE  Last(m) # NULL /\ Last(m).fused \in states
BY DEF ServedInv, FilesInv, SaysAllAlong, Served, Last

\* The idle device the log leads to has the moment at which it became idle.
LEMMA LastIdle ==
    ASSUME FeedInv, Saves!Inv, NEW m \in Macs, Last(m) # NULL, Last(m).fused = "idle"
    PROVE  Last(m).idle_since \in Nat
<1>1. mergedAt \in Nat
    BY DEF FeedInv, ClockInv
<1>2. CASE step \in {"appended", "writing"}
    BY <1>1, <1>2, PendingIdle DEF Last
<1>3. CASE step \notin {"appended", "writing"}
    <2>1. Last(m) = latest[m] /\ Stored[m] = latest[m]
        BY <1>3 DEF Last, FeedInv, FileInv, Stored, NoDevices
    <2> QED
        BY <2>1, IdleDevice
<1> QED
    BY <1>2, <1>3

\* What is served of a session the API has replayed.
LEMMA ServedFacts ==
    ASSUME FeedInv, EventsInv, ReadInv, ServedInv, faults = 0, NEW m \in Macs,
           NEW state, SaysAllAlong(m, {state}), ~Outdated(log[m])
    PROVE  /\ Last(m).fused = state /\ loaded[m].fused = state
           /\ OnlineAgrees(Last(m), ReplayEvents(log[m]))
           /\ IdleAgrees(Last(m), ReplayEvents(log[m]))
           /\ ReplayEvents(log[m]) \in Sessions(now)
           /\ state = "idle" => loaded[m].idle_since <= Last(m).idle_since
<1>1. Last(m) # NULL /\ Last(m).fused = state /\ loaded[m].fused = state /\ Served(m)
    <2>1. Last(m) # NULL /\ Last(m).fused \in {state}
        BY LastIsSeen
    <2> QED
        BY <2>1 DEF SaysAllAlong
<1>2. AgreesInv /\ LoadedIdleInv
    BY DEF ServedInv
<1>3. ReplayEvents(log[m]) \in Sessions(now)
    BY Replayed DEF ReadInv
<1> QED
    BY <1>1, <1>2, <1>3 DEF AgreesInv, LoadedIdleInv

\* A device that is online in every snapshot a GET can have met is served online.
THEOREM OnlineDevicesAreServed == Spec => []OnlineIsServed
<1>1. FeedInv /\ EventsInv /\ ReadInv /\ ServedInv => OnlineIsServed
    <2> SUFFICES ASSUME FeedInv, EventsInv, ReadInv, ServedInv, faults = 0,
                        NEW m \in Macs,
                        SaysAllAlong(m, {"online"}), ~Outdated(log[m])
                 PROVE  Item(m).status = "online"
        BY DEF OnlineIsServed
    <2> DEFINE d == loaded[m]
               r == ReplayEvents(log[m])
               s == Override(d, r)
    <2>1. /\ d.fused = "online"
          /\ \/ r = NoSession
             \/ r.online_since # NULL /\ r.idle_since = NULL /\ r.offline_since = NULL
        BY ServedFacts DEF OnlineAgrees
    <2>2. d.online_since # NULL /\ d.idle_since = NULL /\ d.offline_since = NULL
        BY <2>1
        DEF ReadInv, LoadedInv, SaysAllAlong, Served, Sound, Saves!Coherent, Saves!Up
    <2>3. Item(m).status = ResolveApiState(s, d.bridge, now)
        BY DEF Item, ApiItem
    <2> HIDE DEF d, r
    <2>4. s.online_since # NULL /\ s.idle_since = NULL /\ s.offline_since = NULL
        BY <2>1, <2>2 DEF Override, NoSession
    <2> QED
        BY <2>3, <2>4 DEF ResolveApiState
<1> QED
    BY <1>1, Invariance, EventsTyped, ReadInvariance, ServedInvariance, PTL

\* One that is idle is served idle, and offline only past the idle timeout.
THEOREM IdleDevicesAreServed == Spec => []IdleIsServed
<1>1. FeedInv /\ Saves!Inv /\ EventsInv /\ ReadInv /\ ServedInv => IdleIsServed
    <2> SUFFICES ASSUME FeedInv, Saves!Inv, EventsInv, ReadInv, ServedInv, faults = 0,
                        NEW m \in Macs,
                        SaysAllAlong(m, {"idle"}), ~Outdated(log[m])
                 PROVE  \/ Item(m).status = "idle"
                        \/ /\ Item(m).status = "offline"
                           /\ now - loaded[m].idle_since >= IdleTimeout
        BY DEF IdleIsServed
    <2> DEFINE d == loaded[m]
               r == ReplayEvents(log[m])
               s == Override(d, r)
               x == Last(m).idle_since
    <2>1. /\ d.fused = "idle" /\ d.idle_since <= x /\ r \in Sessions(now)
          /\ \/ r = NoSession
             \/ /\ r.idle_since # NULL /\ r.online_since # NULL /\ r.offline_since = NULL
                /\ r.online_since <= r.idle_since
                /\ x <= r.idle_since
             \/ /\ r.offline_since # NULL
                /\ x + IdleTimeout <= r.offline_since
        BY ServedFacts DEF IdleAgrees
    <2>2. /\ d.idle_since \in Nat /\ d.idle_since # NULL /\ d.idle_since <= now
          /\ d.online_since \in Nat /\ d.online_since # NULL
          /\ d.online_since <= d.idle_since
          /\ d.offline_since = NULL /\ ~d.bridge
        <3>1. d.fused = "idle" /\ Served(m)
            BY <2>1 DEF SaysAllAlong
        <3>2. now \in Nat /\ mergedAt \in Nat /\ mergedAt <= now
            BY DEF FeedInv, ClockInv
        <3> QED
            BY <3>1, <3>2, LoadedIdle DEF ReadInv
    <2>3. Item(m).status = ResolveApiState(s, d.bridge, now)
        BY DEF Item, ApiItem
    <2>4. now \in Nat
        BY DEF FeedInv, ClockInv
    <2>5. x \in Nat
        <3>1. Last(m) # NULL /\ Last(m).fused \in {"idle"}
            BY LastIsSeen
        <3> QED
            BY <3>1, LastIdle
    <2> HIDE DEF d, r, x
    <2>6. CASE r = NoSession
        <3>1. s.idle_since = d.idle_since /\ s.online_since = d.online_since
              /\ s.offline_since = NULL
            BY <2>2, <2>6 DEF Override, NoSession
        <3> QED
            BY <2>2, <2>3, <2>4, <3>1 DEF ResolveApiState, d
    <2>7. CASE /\ r.idle_since # NULL /\ r.online_since # NULL /\ r.offline_since = NULL
               /\ r.online_since <= r.idle_since
               /\ x <= r.idle_since
        <3>1. r.idle_since \in Nat /\ r.online_since \in Nat
            BY <2>1, <2>4, <2>7 DEF Sessions, Moments
        <3>2. /\ s.offline_since = NULL
              /\ \/ s.idle_since = d.idle_since /\ s.online_since = d.online_since
                 \/ s.idle_since = r.idle_since /\ s.online_since = r.online_since
            BY <2>2, <2>7 DEF Override
        <3>3. /\ s.idle_since \in Nat /\ s.idle_since # NULL
              /\ s.online_since \in Nat /\ s.online_since <= s.idle_since
              /\ d.idle_since <= s.idle_since
            BY <2>1, <2>2, <2>5, <2>7, <3>1, <3>2
        <3> HIDE DEF s
        <3>4. now - s.idle_since >= IdleTimeout => now - d.idle_since >= IdleTimeout
            BY <2>2, <2>4, <3>3, IdleTimeoutAssumption
        <3> QED
            BY <2>2, <2>3, <3>2, <3>3, <3>4 DEF ResolveApiState, d
    <2>8. CASE r.offline_since # NULL /\ x + IdleTimeout <= r.offline_since
        <3>1. r.offline_since \in 0 .. now
            BY <2>1, <2>8 DEF Sessions, Moments
        <3>2. s.offline_since # NULL
            BY <2>8 DEF Override
        <3>3. now - d.idle_since >= IdleTimeout
            BY <2>1, <2>2, <2>4, <2>5, <2>8, <3>1, IdleTimeoutAssumption
        <3> HIDE DEF s
        <3> QED
            BY <2>2, <2>3, <3>2, <3>3 DEF ResolveApiState, d
    <2> QED
        BY <2>1, <2>6, <2>7, <2>8
<1> QED
    BY <1>1, Invariance, StoredInv, EventsTyped, ReadInvariance, ServedInvariance, PTL

=============================================================================
