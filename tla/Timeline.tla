------------------------------ MODULE Timeline ------------------------------
(***************************************************************************)
(* How the web page groups the events it shows (web/timeline_utils.py):    *)
(* group_events sorts them by MAC address and time and lets an event join  *)
(* the group before it when it is of the same device and at most a second  *)
(* from the latest of that group.                                          *)
(*                                                                         *)
(* An event is any record with the fields mac and time.  Times are seconds *)
(* (events carry no fractions) and MAC addresses are numbers, of which     *)
(* only the order matters.                                                 *)
(***************************************************************************)
EXTENDS Integers, Sequences, FiniteSets

Group(e) == [mac |-> e.mac, time |-> e.time, events |-> {e}]

\* Mutant: the group is judged by its first event.
JoinsFirst(e, g) ==
    g.mac = e.mac /\ \A f \in g.events : e.time - f.time <= 1

\* Mutant: whoever is near in time is in the group.
JoinsAnyDevice(e, g) == e.time - g.time \in -1 .. 1

\* The events come in the order of their times: the latest of the group is
\* the one before e.
Joins(e, g) == g.mac = e.mac /\ e.time - g.time \in -1 .. 1

Later(s, t) == IF s > t THEN s ELSE t

\* The body of the loop of group_events.
AddEvent(groups, e) ==
    LET last == groups[Len(groups)]
        joined == [last EXCEPT !.events = @ \cup {e}, !.time = Later(@, e.time)]
    IN  IF groups # <<>> /\ Joins(e, last)
        THEN [groups EXCEPT ![Len(groups)] = joined]
        ELSE Append(groups, Group(e))

Before(e, f) == e.mac < f.mac \/ (e.mac = f.mac /\ e.time < f.time)

\* sorted: nothing comes before what has a smaller key.
Sorted(events) ==
    CHOOSE s \in [1 .. Cardinality(events) -> events] :
        \A i, j \in DOMAIN s : i < j => s[i] # s[j] /\ ~Before(s[j], s[i])

\* The groups of a set of events, in the order they are shown: groups[n] are
\* those of the first n events.
GroupEvents(events) ==
    LET sorted == Sorted(events)
        groups[n \in 0 .. Len(sorted)] ==
            IF n = 0 THEN <<>> ELSE AddEvent(groups[n - 1], sorted[n])
    IN  groups[Len(sorted)]

\* What the groups should be: nobody is missing between two events of one.
Connected(events, e, f) ==
    /\ e.mac = f.mac
    /\ \A t \in e.time .. f.time : \E g \in events : g.mac = e.mac /\ g.time = t
=============================================================================
