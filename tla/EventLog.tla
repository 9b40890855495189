------------------------------ MODULE EventLog ------------------------------
(***************************************************************************)
(* events.jsonl from the diff that writes it to the page that shows it.    *)
(* The diff stamps every event with a clock reading of its own; the append *)
(* writes a line for each through a buffer (_append_events in              *)
(* app/persistence.py), which may reach the file in pieces, fail, or die   *)
(* with the process; GET /api/v1/events splits the file into lines again   *)
(* and skips what it cannot parse (list_events in app/api/main.py); and    *)
(* the page groups what is left (web/main.py).                             *)
(*                                                                         *)
(* The text of an event is cut only where a cut makes a difference: after  *)
(* its beginning, before its line end, inside a character of several       *)
(* bytes, and at a character that str.splitlines takes for a line end but  *)
(* json.dumps does not escape (U+0085, U+2028, U+2029).                    *)
(***************************************************************************)
EXTENDS Timeline

CONSTANTS
    Macs,           \* the devices: their MAC addresses as numbers
    Texts,          \* "plain", "wide" and "split": what a text may hold
    Interval,       \* the least time from the end of a poll to the next
    PageLimit,      \* how many lines the page asks for
    MaxTime,        \* bound on the clock
    MaxPolls,       \* bound on the number of polls
    MaxEvents,      \* bound on the number of events
    MaxFaults       \* bound on the number of failures and crashes

\* load_config accepts any interval from one second on.
ASSUME IntervalAssumption == Interval \in Nat \ {0}
ASSUME TextsAssumption == Texts \subseteq {"plain", "wide", "split"}
ASSUME BoundsAssumption ==
    /\ Macs \subseteq Nat
    /\ PageLimit \in Nat \ {0} /\ MaxTime \in Nat /\ MaxPolls \in Nat
    /\ MaxEvents \in Nat /\ MaxFaults \in Nat

VARIABLES
    now,            \* the clock, in seconds
    pc,             \* "idle", "diff" or "append"
    since,          \* when the current poll began or the last one ended
    life,           \* how often the process was started
    batch,          \* the events of the current poll
    buffer,         \* what of their text has not reached the file
    lost,           \* the events of which a failed write lost something
    file,           \* the text of events.jsonl
    logged,         \* history: the events whose append ended well
    polls,          \* the number of polls so far
    events,         \* the number of events so far
    faults          \* the number of failures and crashes so far

vars == <<now, pc, since, life, batch, buffer, lost, file, logged, polls, events,
          faults>>

Init ==
    /\ now = 0
    /\ pc = "idle"
    /\ since = -Interval
    /\ life = 1
    /\ batch = <<>>
    /\ buffer = <<>>
    /\ lost = {}
    /\ file = <<>>
    /\ logged = {}
    /\ polls = 0
    /\ events = 0
    /\ faults = 0

-----------------------------------------------------------------------------
(* The text.                                                               *)

Parts(text) ==
    CASE text = "plain" -> <<"begin", "end">>
      [] text = "wide"  -> <<"begin", "lead", "trail", "end">>
      [] text = "split" -> <<"begin", "separator", "end">>

Written(e, parts) == [i \in DOMAIN parts |-> [event |-> e, part |-> parts[i]]]

\* json.dumps(event, ensure_ascii=False)
Json(e) == Written(e, Parts(e.text))

Line(e) == Json(e) \o Written(e, <<"newline">>)

\* Mutant: the line end separates events instead of ending them.
TextJoined(es) ==
    LET text[n \in 0 .. Len(es)] ==
            IF n = 0 THEN <<>>
            ELSE IF n = 1 THEN Json(es[1])
            ELSE text[n - 1] \o Written(es[n], <<"newline">>) \o Json(es[n])
    IN  text[Len(es)]

\* The loop of _append_events: text[n] is the text of the first n events.
Text(es) ==
    LET text[n \in 0 .. Len(es)] ==
            IF n = 0 THEN <<>> ELSE text[n - 1] \o Line(es[n])
    IN  text[Len(es)]

-----------------------------------------------------------------------------
(* The writer.                                                             *)

\* Nothing in the code bounds the time a diff takes; that the clock ticks at
\* most once while its events are made is an assumption of this module.
Tick ==
    /\ now < MaxTime
    /\ pc = "diff" => now = since
    /\ now' = now + 1
    /\ UNCHANGED <<pc, since, life, batch, buffer, lost, file, logged, polls,
                   events, faults>>

\* Mutant: the process polls again at once.
StartPollAtOnce ==
    /\ pc = "idle"
    /\ polls < MaxPolls
    /\ polls' = polls + 1
    /\ since' = now
    /\ pc' = "diff"
    /\ UNCHANGED <<now, life, batch, buffer, lost, file, logged, events, faults>>

\* The loop pauses for the interval; a new process polls at once.
StartPoll ==
    /\ pc = "idle"
    /\ polls < MaxPolls
    /\ now >= since + Interval
    /\ polls' = polls + 1
    /\ since' = now
    /\ pc' = "diff"
    /\ UNCHANGED <<now, life, batch, buffer, lost, file, logged, events, faults>>

NewEvent(mac, text) ==
    [id |-> events, poll |-> polls, life |-> life, mac |-> mac, time |-> now,
     text |-> text]

\* The diff finishes with one device before it turns to the next.
BuildEvent ==
    /\ pc = "diff"
    /\ events < MaxEvents
    /\ events' = events + 1
    /\ \E mac \in Macs, text \in Texts :
           /\ \A i \in DOMAIN batch : batch[i].mac = mac => batch[Len(batch)].mac = mac
           /\ batch' = Append(batch, NewEvent(mac, text))
    /\ UNCHANGED <<now, pc, since, life, buffer, lost, file, logged, polls, faults>>

\* The file is opened to append; nothing is if there are no events.
StartAppend ==
    /\ pc = "diff"
    /\ pc' = "append"
    /\ buffer' = Text(batch)
    /\ UNCHANGED <<now, since, life, batch, lost, file, logged, polls, events,
                   faults>>

\* The buffer is written when it is full, and in the end; a reader may come
\* between two writes.
Flush ==
    /\ pc = "append"
    /\ \E n \in 1 .. Len(buffer) :
           /\ file' = file \o SubSeq(buffer, 1, n)
           /\ buffer' = SubSeq(buffer, n + 1, Len(buffer))
    /\ UNCHANGED <<now, pc, since, life, batch, lost, logged, polls, events,
                   faults>>

\* s without n elements from the k-th on.
Without(s, k, n) == SubSeq(s, 1, k - 1) \o SubSeq(s, k + n, Len(s))

\* The handler inside the loop: what a write that failed should have written is
\* left out and the next event is tried.  That is the line of one event if it
\* cannot be serialised, and the end of some text and whole lines behind it if
\* the file does not take what the buffer collected.
SkipEvent ==
    /\ pc = "append"
    /\ faults < MaxFaults
    /\ \E k \in DOMAIN buffer, n \in 1 .. Len(buffer) :
           /\ k + n <= Len(buffer) + 1
           /\ buffer[k + n - 1].part = "newline"
           /\ buffer' = Without(buffer, k, n)
           /\ lost' = lost \cup {buffer[j].event : j \in k .. k + n - 1}
    /\ faults' = faults + 1
    /\ UNCHANGED <<now, pc, since, life, batch, file, logged, polls, events>>

\* What the buffer still holds is lost.
EndPoll ==
    /\ pc' = "idle"
    /\ batch' = <<>>
    /\ buffer' = <<>>
    /\ lost' = {}
    /\ UNCHANGED <<now, file, polls, events>>

CloseFile ==
    /\ pc = "append"
    /\ buffer = <<>>
    /\ logged' = logged \cup ({batch[i] : i \in DOMAIN batch} \ lost)
    /\ since' = now
    /\ EndPoll
    /\ UNCHANGED <<life, faults>>

\* The last write fails; process_snapshot_diff swallows the error.
CloseFails ==
    /\ pc = "append"
    /\ faults < MaxFaults
    /\ faults' = faults + 1
    /\ since' = now
    /\ EndPoll
    /\ UNCHANGED <<life, logged>>

Crash ==
    /\ pc # "idle"
    /\ faults < MaxFaults
    /\ faults' = faults + 1
    /\ life' = life + 1
    /\ since' = now - Interval
    /\ EndPoll
    /\ UNCHANGED logged

Next ==
    \/ Tick \/ StartPoll \/ BuildEvent \/ StartAppend \/ Flush \/ SkipEvent
    \/ CloseFile \/ CloseFails \/ Crash

Spec == Init /\ [][Next]_vars

-----------------------------------------------------------------------------
(* The readers.                                                            *)

\* read_text(encoding="utf-8") raises if a character is cut, and the request
\* ends with an error 500.
Decodable ==
    \A i \in DOMAIN file :
        file[i].part = "lead" =>
            i < Len(file) /\ file[i + 1] = [file[i] EXCEPT !.part = "trail"]

\* str.splitlines
LineStarts ==
    {i \in DOMAIN file : i = 1 \/ file[i - 1].part \in {"newline", "separator"}}

LineFrom(i) ==
    LET ends == {j \in DOMAIN file :
                    j >= i /\ file[j].part \in {"newline", "separator"}}
    IN  IF ends = {} THEN SubSeq(file, i, Len(file))
        ELSE SubSeq(file, i, (CHOOSE j \in ends : \A k \in ends : j <= k) - 1)

LastLines(limit) ==
    {i \in LineStarts : Cardinality({k \in LineStarts : k > i}) < limit}

\* The events GET /api/v1/events returns, or GET /api/devices replays: lines
\* that do not hold exactly one of them are skipped.
ReadEvents(limit) ==
    LET Found(i) == LineFrom(i) # <<>> /\ LineFrom(i) = Json(LineFrom(i)[1].event)
    IN  {LineFrom(i)[1].event : i \in {k \in LastLines(limit) : Found(k)}}

\* The groups on the page, which shows no events when it cannot get them.
Groups ==
    LET page == IF Decodable THEN GroupEvents(ReadEvents(PageLimit)) ELSE <<>>
    IN  {page[i] : i \in DOMAIN page}

-----------------------------------------------------------------------------
(* Properties.                                                             *)

\* The events of polls that ended well and that nobody can read any more: the
\* line of each was begun on the remains of another.  Those torn by a
\* line separator of their own are not counted.
Unreadable ==
    {e \in logged : e.text # "split" /\ e \notin ReadEvents(Len(file))}

\* A failure or a crash costs at most one event of a later poll, however
\* much of its own poll was lost, unless it cut a character in two; nothing
\* that happens later adds to the damage.
DamageIsBounded == Decodable => Cardinality(Unreadable) <= faults

\* The events one poll logs of a device are shown in one group, although each
\* was stamped with a clock reading of its own.
PollIsOneGroup ==
    \A g, h \in Groups : \A e \in g.events, f \in h.events :
        e.mac = f.mac /\ e.poll = f.poll => g = h

\* And polls of one run of the process are shown apart: the chain of events a
\* second from each other never leads from one poll to the next, unless the
\* interval is the least load_config accepts, one second.
PollsAreApart ==
    \A g \in Groups : \A e, f \in g.events :
        e.life = f.life => e.poll = f.poll \/ Interval = 1

\* The loop over sorted events gives the groups that the gaps between events
\* define: nothing that was read is left out, two events are in one group
\* exactly if the seconds between them are all taken by events of the device,
\* and the group shows the time of its latest event.
GroupsByGaps ==
    LET read == UNION {g.events : g \in Groups}
    IN  /\ Decodable => read = ReadEvents(PageLimit)
        /\ \A g \in Groups :
               /\ \A e \in g.events : e.time <= g.time
               /\ \E e \in g.events : e.time = g.time
        /\ \A g, h \in Groups : \A e \in g.events, f \in h.events :
               e.time <= f.time => (g = h <=> Connected(read, e, f))
=============================================================================
