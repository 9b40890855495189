---------------------------- MODULE SnapshotDiff ----------------------------
(***************************************************************************)
(* The state events a poll appends to events.jsonl when it compares the    *)
(* merged devices with the latest snapshot (_generate_diff_events in       *)
(* app/persistence.py), for one device and in the order they are written.  *)
(* The events about addresses, leases, flags and sources carry data no     *)
(* reader takes decisions on and are left out.                             *)
(***************************************************************************)
EXTENDS Presence, Sequences

Event(type, t, old, new, reason) ==
    [type |-> type, time |-> t, old |-> old, new |-> new, reason |-> reason]

\* _state_reason; the statuses that name themselves are "arp_status".
StateReason(state, d) ==
    IF state = "online"
    THEN IF d.arp = "reachable" THEN "arp_reachable"
         ELSE IF d.bridge THEN "bridge_host_detected" ELSE "unknown"
    ELSE IF \/ state = "idle" /\ d.arp \in {"stale", "delay", "probe"}
            \/ state = "offline" /\ d.arp \in OfflineArp
    THEN "arp_status"
    ELSE "no_evidence"

\* _device_offline_reason
DeviceOfflineReason(old, d) ==
    IF /\ old = "idle"
       /\ ~d.bridge
       /\ d.arp \in {"permanent", "unknown", "stale", "delay", "probe"}
    THEN "idle_timeout"
    ELSE StateReason("offline", d)

ArpStateChanged(old, new, t) ==
    <<Event("arp_state_changed", t, old, new, "none")>>

\* One of device_online, device_idle and device_offline.
DeviceEvent(old, new, d, t) ==
    IF new = "unknown" THEN <<>>
    ELSE <<Event("device_state", t, old, new,
                 IF new = "offline" THEN DeviceOfflineReason(old, d)
                 ELSE StateReason(new, d))>>

\* Mutant: a session that turns idle is announced as ended.
SessionEventsEndIdle(old, new, t) ==
    IF old = "unknown" \/ new = "unknown" THEN <<>>
    ELSE <<Event("state_changed", t, old, new, "none")>> \o
         (IF old = "offline" /\ new \in Up
          THEN <<Event("session_started", t, old, new, "none")>>
          ELSE <<Event("session_ended", t, old, new, "none")>>)

\* Mutant: only a session that is online ends.
SessionEventsOnlineOnly(old, new, t) ==
    IF old = "unknown" \/ new = "unknown" THEN <<>>
    ELSE <<Event("state_changed", t, old, new, "none")>> \o
         (IF old = "offline" /\ new \in Up
          THEN <<Event("session_started", t, old, new, "none")>>
          ELSE IF old = "online" /\ new = "offline"
          THEN <<Event("session_ended", t, old, new, "none")>>
          ELSE <<>>)

\* state_changed, and the event that opens or closes a session.
SessionEvents(old, new, t) ==
    IF old = "unknown" \/ new = "unknown" THEN <<>>
    ELSE <<Event("state_changed", t, old, new, "none")>> \o
         (IF old = "offline" /\ new \in Up
          THEN <<Event("session_started", t, old, new, "none")>>
          ELSE IF old \in Up /\ new = "offline"
          THEN <<Event("session_ended", t, old, new, "none")>>
          ELSE <<>>)

\* The previous state is the effective one at the time of the diff, which is
\* a second reading of the clock: the merge made its own.
StateEvents(prev, cur, t) ==
    LET old == ResolvePreviousEffectiveState(prev, t)
        new == DeriveDeviceState(cur)
    IN  IF old = new THEN <<>>
        ELSE ArpStateChanged(old, new, t) \o
             DeviceEvent(old, new, cur, t) \o
             SessionEvents(old,
                 SanitizedCurrent(old, new, HasReconnectEvidence(cur)), t)

\* A device that appears or disappears gets no state event.
DiffEvents(prev, cur, t) ==
    IF prev = NULL /\ cur = NULL THEN <<>>
    ELSE IF prev = NULL
    THEN <<Event("NEW_DEVICE", t, "unknown", "unknown", "none")>>
    ELSE IF cur = NULL
    THEN <<Event("DEVICE_REMOVED", t, "unknown", "unknown", "none")>>
    ELSE StateEvents(prev, cur, t)
=============================================================================
