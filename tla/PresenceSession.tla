-------------------------- MODULE PresenceSession --------------------------
(***************************************************************************)
(* What the snapshots promise about the presence of a device, without ARP, *)
(* bridge hosts or four timestamps.  A device is absent; up since some     *)
(* moment, perhaps with a deadline; down since some moment; or in limbo,   *)
(* when a poll knows nothing of it and the session it was in, if any, is   *)
(* not given up.                                                           *)
(*                                                                         *)
(* The promise is in what is missing: the start of a running session never *)
(* moves, a session is not continued after a down time or past its         *)
(* deadline, a deadline is only set afresh by leaving it, and the moment a *)
(* device went down stays what it is until the device comes back.          *)
(***************************************************************************)
EXTENDS Integers

CONSTANTS Macs, IdleTimeout, NULL

VARIABLES
    clock,
    session         \* for each MAC: its phase, since when, and its deadline

Session(phase, since, deadline) ==
    [phase |-> phase, since |-> since, deadline |-> deadline]

Absent               == Session("absent", NULL, NULL)
UpSince(t, deadline) == Session("up", t, deadline)
DownSince(t)         == Session("down", t, NULL)
LimboSince(t)        == Session("limbo", t, NULL)

SessionInit ==
    /\ clock = 0
    /\ session = [m \in Macs |-> Absent]

\* A session that starts at t, online or idle.
NewSessions(start, t) == {UpSince(start, NULL), UpSince(start, t + IdleTimeout)}

Expired(s, t) == s.deadline # NULL /\ s.deadline <= t

\* The sessions a poll at time t may leave a device in.
Successors(s, t) ==
    {Absent} \cup
    (CASE s.phase = "absent" ->
              NewSessions(t, t) \cup {DownSince(t), LimboSince(NULL)}
       [] s.phase = "up" /\ Expired(s, t) ->
              {UpSince(t, NULL), DownSince(t)}
       [] s.phase = "up" /\ ~Expired(s, t) ->
              {UpSince(s.since, NULL), DownSince(t), LimboSince(s.since),
               IF s.deadline = NULL THEN UpSince(s.since, t + IdleTimeout) ELSE s}
       [] s.phase = "down" ->
              {s, UpSince(t, NULL)}
       [] s.phase = "limbo" ->
              {s, DownSince(t)} \cup
              NewSessions(IF s.since = NULL THEN t ELSE s.since, t))

Advance ==
    /\ clock' > clock
    /\ UNCHANGED session

Poll ==
    /\ session' = [m \in Macs |-> session'[m]]
    /\ \A m \in Macs : session'[m] \in Successors(session[m], clock)
    /\ UNCHANGED clock

SessionNext == Advance \/ Poll

SessionSpec == SessionInit /\ [][SessionNext]_<<clock, session>>
=============================================================================
