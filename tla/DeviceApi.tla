------------------------------ MODULE DeviceApi ------------------------------
(***************************************************************************)
(* What GET /api/devices makes of one device of the latest snapshot and of *)
(* the events of that device (list_devices in app/api/main.py): the events *)
(* are replayed into a session of their own, the session overrides the     *)
(* snapshot or fills its gaps, and the four timestamps decide the status.  *)
(*                                                                         *)
(* The API sorts the events by timestamp.  The log is appended in the      *)
(* order of the clock, so the order of the log is kept here.               *)
(***************************************************************************)
EXTENDS Presence, Sequences

NoSession ==
    [state_changed_at |-> NULL, online_since |-> NULL,
     idle_since |-> NULL, offline_since |-> NULL]

\* _sanitize_presence_transition of the API: unlike the writer, it reads an
\* idle report of an offline device as a reconnect whatever the evidence.
ApiCurrent(e) == IF e.old = "offline" /\ e.new = "idle" THEN "online" ELSE e.new

\* _extract_state_transition returns a transition for e.
IsTransition(e) ==
    /\ e.type \in {"state_changed", "arp_state_changed"}
    /\ e.old # "unknown"
    /\ e.new # "unknown"

\* Mutant: a log that begins in the middle of a session gives it no start.
ReplayEventNoStart(s, e) ==
    LET cur == ApiCurrent(e)
    IN  [state_changed_at |-> e.time,
         online_since  |-> IF cur = "offline" THEN NULL
                           ELSE IF e.old \notin Up THEN e.time ELSE s.online_since,
         idle_since    |-> IF cur = "idle" THEN e.time ELSE NULL,
         offline_since |-> IF cur = "offline" THEN e.time ELSE NULL]

\* Mutant: a device that is online again keeps its idle start.
ReplayEventKeepsIdle(s, e) ==
    LET cur == ApiCurrent(e)
    IN  [state_changed_at |-> e.time,
         online_since  |-> IF cur = "offline" THEN NULL
                           ELSE IF e.old \notin Up \/ s.online_since = NULL
                           THEN e.time ELSE s.online_since,
         idle_since    |-> IF cur = "idle" THEN e.time ELSE s.idle_since,
         offline_since |-> IF cur = "offline" THEN e.time ELSE NULL]

ReplayEvent(s, e) ==
    LET cur == ApiCurrent(e)
    IN  [state_changed_at |-> e.time,
         online_since  |-> IF cur = "offline" THEN NULL
                           ELSE IF e.old \notin Up \/ s.online_since = NULL
                           THEN e.time ELSE s.online_since,
         idle_since    |-> IF cur = "idle" THEN e.time ELSE NULL,
         offline_since |-> IF cur = "offline" THEN e.time ELSE NULL]

\* The session after the first n events, for each n: an event that is no
\* transition leaves it as it is.
ReplayEvents(events) ==
    LET session[n \in 0 .. Len(events)] ==
            IF n = 0 THEN NoSession
            ELSE IF IsTransition(events[n])
            THEN ReplayEvent(session[n - 1], events[n])
            ELSE session[n - 1]
    IN  session[Len(events)]

\* The session of the events replaces that of the snapshot when it is not
\* older, and otherwise fills every timestamp the snapshot leaves empty.
Override(d, session) ==
    LET replaces == /\ session.state_changed_at # NULL
                    /\ \/ d.state_changed_at = NULL
                       \/ session.state_changed_at >= d.state_changed_at
        Pick(x, y) == IF replaces \/ x = NULL THEN y ELSE x
    IN  [state_changed_at |-> Pick(d.state_changed_at, session.state_changed_at),
         online_since     |-> Pick(d.online_since, session.online_since),
         idle_since       |-> Pick(d.idle_since, session.idle_since),
         offline_since    |-> Pick(d.offline_since, session.offline_since)]

\* Mutant: a session that began idle is not idle.
ResolveApiStateStrict(s, bridge, t) ==
    IF bridge THEN "online"
    ELSE IF s.offline_since # NULL THEN "offline"
    ELSE IF s.idle_since # NULL /\ t - s.idle_since >= IdleTimeout THEN "offline"
    ELSE IF /\ s.idle_since # NULL
            /\ s.online_since = NULL \/ s.idle_since > s.online_since THEN "idle"
    ELSE IF s.online_since # NULL THEN "online"
    ELSE "unknown"

ResolveApiState(s, bridge, t) ==
    IF bridge THEN "online"
    ELSE IF s.offline_since # NULL THEN "offline"
    ELSE IF s.idle_since # NULL /\ t - s.idle_since >= IdleTimeout THEN "offline"
    ELSE IF /\ s.idle_since # NULL
            /\ s.online_since = NULL \/ s.idle_since >= s.online_since THEN "idle"
    ELSE IF s.online_since # NULL THEN "online"
    ELSE "unknown"

\* The item served for device d at time t.
ApiItem(d, events, t) ==
    LET s == Override(d, ReplayEvents(events))
    IN  [status           |-> ResolveApiState(s, d.bridge, t),
         state_changed_at |-> s.state_changed_at,
         online_since     |-> s.online_since,
         idle_since       |-> s.idle_since,
         offline_since    |-> s.offline_since]
=============================================================================
