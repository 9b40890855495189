---------------------------- MODULE SnapshotFeed ----------------------------
(***************************************************************************)
(* One poll of MikroTrack step by step, next to a reader.  save_snapshot   *)
(* merges the report with the latest snapshot, then reads that snapshot    *)
(* again and appends the difference to events.jsonl, then opens the new    *)
(* snapshot file, and then fills it; the clock may tick between any two of *)
(* these, any of them may fail, and the process may die.  The API runs in  *)
(* a thread of the same process: GET /api/devices loads the latest         *)
(* snapshot first, and the events later.                                   *)
(*                                                                         *)
(* The events of a device are a log of their own here, because the only    *)
(* reader that takes decisions on them reads them device by device.        *)
(***************************************************************************)
EXTENDS SessionMerge, SnapshotDiff, DeviceApi

CONSTANTS
    Macs,           \* the devices, identified by MAC address
    MaxTime,        \* bound on the clock
    MaxPolls,       \* bound on the number of polls
    MaxFaults       \* bound on the number of failures and crashes

ASSUME BoundsAssumption ==
    MaxTime \in Nat /\ MaxPolls \in Nat /\ MaxFaults \in Nat

VARIABLES
    now,            \* the clock, in seconds
    file,           \* the latest snapshot file: "none", "torn" or "ok"
    latest,         \* the devices of the latest complete file
    latestTime,     \* when they were merged
    step,           \* what the current poll has done
    pending,        \* the merged devices on their way to the file
    mergedAt,       \* the clock reading of the last merge
    log,            \* the state events of each device
    loaded,         \* the snapshot a GET has loaded, NULL outside a GET
    polls,          \* the number of polls so far
    faults          \* the number of failures and crashes so far

fileVars == <<file, latest, latestTime>>
pollVars == <<step, pending, mergedAt, polls, faults>>
vars     == <<now, fileVars, pollVars, log, loaded>>

NoDevices == [m \in Macs |-> NULL]

Init ==
    /\ now = 0
    /\ file = "none"
    /\ latest = NoDevices
    /\ latestTime = NULL
    /\ step = "idle"
    /\ pending = NoDevices
    /\ mergedAt = 0
    /\ log = [m \in Macs |-> <<>>]
    /\ loaded = NULL
    /\ polls = 0
    /\ faults = 0

Tick ==
    /\ now < MaxTime
    /\ now' = now + 1
    /\ UNCHANGED <<fileVars, pollVars, log, loaded>>

-----------------------------------------------------------------------------
(* The poll.                                                               *)

\* A file that cannot be read counts as no previous devices.
Previous(m) == IF file = "ok" THEN latest[m] ELSE NULL

Merge ==
    /\ step = "idle"
    /\ polls < MaxPolls
    /\ \E report \in [Macs -> Observations \cup {NULL}] :
           pending' = [m \in Macs |->
               IF report[m] = NULL THEN NULL
               ELSE MergeDevice(Previous(m), report[m], now)]
    /\ mergedAt' = now
    /\ polls' = polls + 1
    /\ step' = "merged"
    /\ UNCHANGED <<now, fileVars, faults, log, loaded>>

\* Without a readable previous snapshot there is no diff at all: the first
\* poll skips it, and a torn file ends it with DIFF_ERROR.
NewEvents(m) ==
    IF file = "ok" THEN DiffEvents(latest[m], pending[m], now) ELSE <<>>

\* The diff reads the clock, builds the events and appends them without a write
\* that a reader of this module sees, so that is one step here; EventLog has
\* the readings and the pieces of the write apart.
AppendEvents ==
    /\ step = "merged"
    /\ log' = [m \in Macs |-> log[m] \o NewEvents(m)]
    /\ step' = "appended"
    /\ UNCHANGED <<now, fileVars, pending, mergedAt, polls, faults, loaded>>

\* The file takes some of the events, and process_snapshot_diff swallows
\* the error: the poll goes on.
AppendFails ==
    /\ step = "merged"
    /\ faults < MaxFaults
    /\ \E kept \in [Macs -> 0 .. 3] :
           /\ \A m \in Macs : kept[m] = 0 \/ kept[m] < Len(NewEvents(m))
           /\ log' = [m \in Macs |-> log[m] \o SubSeq(NewEvents(m), 1, kept[m])]
    /\ faults' = faults + 1
    /\ step' = "appended"
    /\ UNCHANGED <<now, fileVars, pending, mergedAt, polls, loaded>>

\* From here to WriteSnapshot the latest file is empty or half written.
OpenSnapshot ==
    /\ step = "appended"
    /\ file' = "torn"
    /\ step' = "writing"
    /\ UNCHANGED <<now, latest, latestTime, pending, mergedAt, polls, faults,
                   log, loaded>>

\* Mutant: a device that was not reported stays in the file.
WriteSnapshotKeepsRemoved ==
    /\ step = "writing"
    /\ file' = "ok"
    /\ latest' = [m \in Macs |-> IF pending[m] = NULL THEN latest[m] ELSE pending[m]]
    /\ latestTime' = mergedAt
    /\ pending' = NoDevices
    /\ step' = "idle"
    /\ UNCHANGED <<now, mergedAt, polls, faults, log, loaded>>

WriteSnapshot ==
    /\ step = "writing"
    /\ file' = "ok"
    /\ latest' = pending
    /\ latestTime' = mergedAt
    /\ pending' = NoDevices
    /\ step' = "idle"
    /\ UNCHANGED <<now, mergedAt, polls, faults, log, loaded>>

\* The poll ends early; a file that was open stays the latest one, torn.
Abandon ==
    /\ faults < MaxFaults
    /\ faults' = faults + 1
    /\ step' = "idle"
    /\ pending' = NoDevices
    /\ IF step = "writing"
       THEN latest' = NoDevices /\ latestTime' = mergedAt
       ELSE UNCHANGED <<latest, latestTime>>
    /\ UNCHANGED <<now, file, mergedAt, polls, log>>

\* An error of opening or writing the file reaches the main loop, which
\* logs it and polls again.
SaveFails ==
    /\ step \in {"appended", "writing"}
    /\ Abandon
    /\ UNCHANGED loaded

\* The process dies in a poll and is restarted; so does the API with it.
Crash ==
    /\ step # "idle"
    /\ Abandon
    /\ loaded' = NULL

-----------------------------------------------------------------------------
(* The reader.                                                             *)

\* _load_latest_snapshot; a torn file ends the request with an error.
LoadSnapshot ==
    /\ loaded = NULL
    /\ file = "ok"
    /\ loaded' = latest
    /\ UNCHANGED <<now, fileVars, pollVars, log>>

\* The events are read and the answer is given: Item below.
Respond ==
    /\ loaded # NULL
    /\ loaded' = NULL
    /\ UNCHANGED <<now, fileVars, pollVars, log>>

Poll ==
    \/ Merge \/ AppendEvents \/ OpenSnapshot \/ WriteSnapshot
    \/ AppendFails \/ SaveFails \/ Crash

Next == Tick \/ Poll \/ LoadSnapshot \/ Respond

Spec == Init /\ [][Next]_vars

\* The answer a GET gives for device m if it reads the events now.
Item(m) == ApiItem(loaded[m], log[m], now)

Served(m) == loaded # NULL /\ loaded[m] # NULL

-----------------------------------------------------------------------------
(* Properties of the writer.                                               *)

\* What the next merge reads of the files, and when they were written.
History == INSTANCE SessionHistory
    WITH now          <- mergedAt,
         snapshot     <- IF file = "ok" \/ step = "writing"
                         THEN latest ELSE NoDevices,
         snapshotTime <- latestTime

\* The steps of save_snapshot, with a clock that ticks between them, failed
\* writes and crashes, come to the atomic saves of SessionHistory: all that
\* is shown there of the snapshots holds of the files.
ImplementsHistory == History!Spec

Appends == step = "merged" /\ step' = "appended"

\* An event of this type is appended for m by this step.
Logs(m, type) ==
    \E i \in Len(log[m]) + 1 .. Len(log'[m]) : log'[m][i].type = type

\* The idle timeout of m passed between the merge and this moment.
ExpiresInPoll(m) ==
    /\ latest[m] # NULL
    /\ latest[m].idle_since # NULL
    /\ latest[m].idle_since + IdleTimeout \in mergedAt + 1 .. now

\* The session events tell what the merge did: session_started is logged of
\* a device only by a poll that gives it a new online_since, session_ended
\* only by one that takes it offline.  The two are computed apart, from two
\* readings of the clock; a timeout that falls between them is excused.
SessionEventsTrue ==
    [][Appends =>
          \A m \in Macs : ~ExpiresInPoll(m) =>
              /\ Logs(m, "session_started") => pending[m].online_since = mergedAt
              /\ Logs(m, "session_ended") => pending[m].offline_since = mergedAt]_vars

\* m is in the latest snapshot and in the one on its way.
Continued(m) == file = "ok" /\ latest[m] # NULL /\ pending[m] # NULL

\* And they are complete: unless the file fails, a device that comes back
\* from offline gets its session_started, and one that goes offline while
\* its session still runs gets its session_ended.
SessionEventsComplete ==
    [][Appends /\ faults' = faults =>
          \A m \in Macs : Continued(m) /\ ~ExpiresInPoll(m) =>
              /\ latest[m].fused = "offline" /\ pending[m].fused \in Up
                 => Logs(m, "session_started")
              /\ /\ latest[m].fused \in Up
                 /\ pending[m].fused = "offline"
                 /\ ResolvePreviousEffectiveState(latest[m], mergedAt) \in Up
                 => Logs(m, "session_ended")]_vars

-----------------------------------------------------------------------------
(* Properties of the reader.                                               *)

\* Every snapshot of m from the one loaded to the one on its way says one
\* of these states: whatever part of the poll the reader met, it should not
\* have seen anything else.
SaysAllAlong(m, states) ==
    /\ Served(m)
    /\ loaded[m].fused \in states
    /\ file = "ok" => latest[m] # NULL /\ latest[m].fused \in states
    /\ step # "idle" => pending[m] # NULL /\ pending[m].fused \in states

\* A change the API takes no transition from: the device appeared, was removed,
\* or its state was unknown before or after it.
IsGap(e) == "unknown" \in {e.old, e.new}

\* The last transition in the events of a device is older than such a change.
Outdated(events) ==
    \E i \in DOMAIN events :
        /\ IsGap(events[i])
        /\ \E h \in 1 .. i - 1 : IsTransition(events[h])
        /\ \A k \in i + 1 .. Len(events) : ~IsTransition(events[k])

\* A device that is online in every snapshot a GET can have met is served as
\* online, whatever transitions of it the events hold: as long as no poll has
\* failed, and unless the last of them is outdated (see ReachableIsOnline for
\* what happens then).
OnlineIsServed ==
    faults = 0 =>
        \A m \in Macs :
            SaysAllAlong(m, {"online"}) /\ ~Outdated(log[m]) => Item(m).status = "online"

\* One that is idle is served as idle, and as offline only when it has been
\* idle for the idle timeout, which the API applies between two polls.
IdleIsServed ==
    faults = 0 =>
        \A m \in Macs :
            SaysAllAlong(m, {"idle"}) /\ ~Outdated(log[m]) =>
                \/ Item(m).status = "idle"
                \/ /\ Item(m).status = "offline"
                   /\ now - loaded[m].idle_since >= IdleTimeout

\* An item that is idle has a session that began: replayed events, which may
\* begin in the middle of a session, never leave it without a start.
IdleHasSession ==
    \A m \in Macs : Served(m) /\ Item(m).status = "idle" => Item(m).online_since # NULL

-----------------------------------------------------------------------------
(* What the documentation says and the code does not do.                   *)

\* docs/device-model.md: a reachable ARP status means online.  It is asked
\* only of the answer given between two polls, from the latest snapshot, when
\* that is later than every transition of the device in the events.
ReachableIsOnline ==
    \A m \in Macs :
        /\ step = "idle"
        /\ Served(m)
        /\ loaded = latest
        /\ loaded[m].arp = "reachable"
        /\ \A i \in DOMAIN log[m] :
               IsTransition(log[m][i]) => log[m][i].time < latestTime
        => Item(m).status = "online"

\* docs/storage.md: an idle timeout is an event.
TimeoutIsLogged ==
    [][Appends /\ faults' = faults =>
          \A m \in Macs :
              /\ Continued(m)
              /\ latest[m].fused = "idle"
              /\ pending[m].fused = "offline"
              => Logs(m, "device_state")]_vars
=============================================================================
