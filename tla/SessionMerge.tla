---------------------------- MODULE SessionMerge ----------------------------
(***************************************************************************)
(* How one device of a poll is merged with the same device of the latest   *)
(* snapshot (_apply_stable_timestamps in app/persistence.py): its state,   *)
(* its session timestamps and its last known address.  MergeDevice at the  *)
(* end is the whole function for one device; the device the poll reports   *)
(* is obs, the one of the snapshot is prev, and t is the time of the poll. *)
(*                                                                         *)
(* Data: of the nine tracked fields of a device, ip_address is kept as ip  *)
(* (host_name is treated by the same code) and attrs stands for the others.*)
(***************************************************************************)
EXTENDS Presence

CONSTANTS
    ArpStatuses,    \* the ARP statuses the router reports
    Ips,            \* IP addresses
    Attrs           \* values of the other tracked fields

ASSUME ArpStatusesAssumption == ArpStatuses \subseteq AllArpStatuses
ASSUME IpsAssumption == NULL \notin Ips
Timestamps == Nat \cup {NULL}

\* What a poll reports of one device: any status may come without an address,
\* as that of a working ARP record the router lists without one.
Observations ==
    [arp : ArpStatuses, bridge : BOOLEAN, ip : Ips \cup {NULL}, attrs : Attrs]

\* One device of a snapshot file.
Devices ==
    [arp : ArpStatuses, bridge : BOOLEAN, fused : States, attrs : Attrs,
     ip : Ips \cup {NULL}, last_known_ip : Ips \cup {NULL},
     ip_is_stale : BOOLEAN,
     state_changed_at : Timestamps, online_since : Timestamps,
     idle_since : Timestamps, offline_since : Timestamps]

-----------------------------------------------------------------------------
(* Last known identity.                                                    *)

\* _resolve_last_known_value
LastKnownIp(prev) == IF prev.ip # NULL THEN prev.ip ELSE prev.last_known_ip

\* Mutant: a report without an address forgets the one known before.
IdentityOfReport(prev, obs) ==
    [ip |-> obs.ip, last_known_ip |-> obs.ip, ip_is_stale |-> FALSE]

\* An address is restored only for a device the poll itself reports offline;
\* the address last known survives in every state.
Identity(prev, obs) ==
    LET known    == LastKnownIp(prev)
        restored == /\ FusedDeviceState(obs.arp, obs.bridge) = "offline"
                    /\ obs.ip = NULL
                    /\ known # NULL
    IN  [ip            |-> IF restored THEN known ELSE obs.ip,
         last_known_ip |-> IF obs.ip # NULL THEN obs.ip ELSE known,
         ip_is_stale   |-> restored]

\* _changed_device_fields, evaluated after the address was restored.
DeviceChanged(prev, obs) ==
    prev.attrs # obs.attrs \/ prev.ip # Identity(prev, obs).ip

-----------------------------------------------------------------------------
(* The presence state of the merged device.                                *)

\* The stored state is asked, not the effective one, and an online report
\* of this poll comes before the timeout.
IdleTimeoutForcesOffline(prev, obs, t) ==
    /\ DeriveDeviceState(prev) = "idle"
    /\ FusedDeviceState(obs.arp, obs.bridge) # "online"
    /\ IdleTimeoutExceeded(prev, t)

UnknownWithEvidence(obs) ==
    FusedDeviceState(obs.arp, obs.bridge) = "unknown" /\ HasPresenceEvidence(obs)

\* merge_current_state: the first rule that applies decides.
MergeState(prev, obs, t) ==
    LET current   == FusedDeviceState(obs.arp, obs.bridge)
        effective == ResolvePreviousEffectiveState(prev, t)
    IN  IF IdleTimeoutForcesOffline(prev, obs, t) THEN "offline"
        ELSE IF prev.bridge /\ ~obs.bridge
             THEN RecalculateStateOnBridgeHostLoss(obs.arp)
        ELSE IF obs.bridge THEN "online"
        ELSE IF UnknownWithEvidence(obs) THEN effective
        ELSE IF current = "idle" /\ effective = "offline" THEN "offline"
        ELSE current

\* The fused_state that is stored: every rule rewrites it but the one that
\* keeps the previous state of a device of unknown state.
MergedFusedState(prev, obs, t) ==
    IF /\ UnknownWithEvidence(obs)
       /\ ~IdleTimeoutForcesOffline(prev, obs, t)
       /\ ~prev.bridge
    THEN "unknown"
    ELSE MergeState(prev, obs, t)

\* The state the transition is counted from.
TransitionPreviousState(prev, obs, t) ==
    LET effective == ResolvePreviousEffectiveState(prev, t)
        stays     == /\ effective = "offline"
                     /\ MergeState(prev, obs, t) = "offline"
                     /\ prev.offline_since # NULL
    IN  IF ~stays /\ IdleTimeoutForcesOffline(prev, obs, t)
        THEN DeriveDeviceState(prev)
        ELSE effective

-----------------------------------------------------------------------------
(* The session timestamps of the merged device.                            *)

Stamps(changed, online, idle, offline) ==
    [state_changed_at |-> changed, online_since |-> online,
     idle_since |-> idle, offline_since |-> offline]

\* Mutant: the idle start is not cleared when the device is not idle.
InitializeMissingKeepsIdle(s, presence, t) ==
    LET noOnline  == presence \in Up /\ s.online_since = NULL
        noOffline == presence = "offline" /\ s.offline_since = NULL
    IN  Stamps(IF (noOnline \/ noOffline) /\ s.state_changed_at = NULL
               THEN t ELSE s.state_changed_at,
               IF noOnline THEN t ELSE s.online_since,
               s.idle_since,
               IF noOffline THEN t ELSE s.offline_since)

\* _initialize_missing_session_timestamps
InitializeMissing(s, presence, t) ==
    LET noOnline  == presence \in Up /\ s.online_since = NULL
        noIdle    == presence = "idle" /\ s.idle_since = NULL
        noOffline == presence = "offline" /\ s.offline_since = NULL
    IN  Stamps(IF /\ noOnline \/ noIdle \/ noOffline
                  /\ s.state_changed_at = NULL
               THEN t ELSE s.state_changed_at,
               IF noOnline THEN t ELSE s.online_since,
               IF noIdle THEN t
               ELSE IF presence # "idle" THEN NULL ELSE s.idle_since,
               IF noOffline THEN t ELSE s.offline_since)

\* Mutant: a move between online and idle starts a new session.
TransitionStampsRestart(prev, from, to, t) ==
    IF to \in Up
        THEN Stamps(t, t, IF to = "idle" THEN t ELSE NULL, NULL)
    ELSE IF from \in Up /\ to = "offline"
        THEN Stamps(t, NULL, NULL, t)
    ELSE Stamps(t, prev.online_since, prev.idle_since, prev.offline_since)

\* The state differs from the previous one: the pair of presence states
\* decides between a new session, its end, and a move inside it.
TransitionStamps(prev, from, to, t) ==
    IF from = "offline" /\ to \in Up
        THEN Stamps(t, t, IF to = "idle" THEN t ELSE NULL, NULL)
    ELSE IF from \in Up /\ to = "offline"
        THEN Stamps(t, NULL, NULL, t)
    ELSE IF from \in Up /\ to \in Up
        THEN Stamps(t, prev.online_since, IF to = "idle" THEN t ELSE NULL, NULL)
    ELSE Stamps(t, prev.online_since, prev.idle_since, prev.offline_since)

\* Mutant: a changed field restarts the session timer as well.
UnchangedStampsRestart(prev, state, changed, t) ==
    LET at == IF changed THEN t ELSE prev.state_changed_at
    IN  IF state \in Up
        THEN Stamps(at, IF changed THEN t ELSE prev.online_since,
                    IF state = "idle" THEN prev.idle_since ELSE NULL, NULL)
        ELSE Stamps(at, NULL, NULL, prev.offline_since)

\* The state is the previous one: the session goes on, and a changed field
\* moves state_changed_at alone.
UnchangedStamps(prev, state, changed, t) ==
    LET at == IF changed THEN t ELSE prev.state_changed_at
    IN  IF state \in Up
        THEN Stamps(at, prev.online_since,
                    IF state = "idle" THEN prev.idle_since ELSE NULL, NULL)
        ELSE IF state = "offline"
        THEN Stamps(at, NULL, NULL, prev.offline_since)
        ELSE Stamps(at, prev.online_since, prev.idle_since, prev.offline_since)

MergedStamps(prev, obs, t) ==
    LET from     == TransitionPreviousState(prev, obs, t)
        to       == MergeState(prev, obs, t)
        presence == SanitizedCurrent(from, to, HasReconnectEvidence(obs))
    IN  InitializeMissing(
            IF from # to THEN TransitionStamps(prev, from, presence, t)
            ELSE UnchangedStamps(prev, to, DeviceChanged(prev, obs), t),
            presence, t)

\* A device the previous snapshot does not hold.
FirstStamps(state, t) ==
    InitializeMissing(
        IF state \in Up
        THEN Stamps(t, t, IF state = "idle" THEN t ELSE NULL, NULL)
        ELSE IF state = "offline" THEN Stamps(t, NULL, NULL, t)
        ELSE Stamps(NULL, NULL, NULL, NULL),
        state, t)

Assemble(obs, fused, id, s) ==
    [arp |-> obs.arp, bridge |-> obs.bridge, fused |-> fused,
     attrs |-> obs.attrs, ip |-> id.ip, last_known_ip |-> id.last_known_ip,
     ip_is_stale |-> id.ip_is_stale,
     state_changed_at |-> s.state_changed_at, online_since |-> s.online_since,
     idle_since |-> s.idle_since, offline_since |-> s.offline_since]

FirstSeen(obs, t) ==
    LET state == FusedDeviceState(obs.arp, obs.bridge)
    IN  Assemble(obs, state,
                 [ip |-> obs.ip, last_known_ip |-> obs.ip, ip_is_stale |-> FALSE],
                 FirstStamps(state, t))

Merged(prev, obs, t) ==
    Assemble(obs, MergedFusedState(prev, obs, t), Identity(prev, obs),
             MergedStamps(prev, obs, t))

MergeDevice(prev, obs, t) ==
    IF prev = NULL THEN FirstSeen(obs, t) ELSE Merged(prev, obs, t)
=============================================================================
