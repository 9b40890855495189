---------------------------- MODULE SnapshotStore ----------------------------
(***************************************************************************)
(* The directory of snapshots (app/persistence.py and the readers of       *)
(* app/api/main.py).  A file is named by local time, the latest one is     *)
(* the one with the greatest name, and every save ends with a cleanup that *)
(* deletes what is older than the retention.  Local time may jump, a save  *)
(* may fail or die between any two steps, and a reader of the API lists    *)
(* the files first and opens them later.                                   *)
(*                                                                         *)
(* What is in a file does not matter here: it is the number of its save.   *)
(***************************************************************************)
EXTENDS Integers, FiniteSets

CONSTANTS
    NULL,           \* no file, no time
    Retentions,     \* the values PERSISTENCE_RETENTION_DAYS may have
    Shift,          \* what the local clock loses or gains at a change
    SaveTime,       \* what a save takes at most
    Limit,          \* how many files GET /api/v1/snapshots lists
    MaxTime,        \* bound on the clock
    MaxSaves,       \* bound on the number of saves
    MaxFaults,      \* bound on the number of failures and crashes
    MaxChanges      \* bound on the number of changes of the local clock

\* load_config refuses a negative number of days, and one day is longer than
\* a save and a clock change together.
ASSUME RetentionAssumption ==
    /\ Shift \in Nat /\ SaveTime \in Nat
    /\ \A r \in Retentions : r \in Nat /\ (r = 0 \/ r > Shift + SaveTime)
ASSUME NullAssumption ==
    /\ NULL \notin Int
    /\ NULL \notin [save : Int, whole : BOOLEAN, mtime : Int, modified : Int]
ASSUME BoundsAssumption ==
    /\ Limit \in Nat \ {0}
    /\ MaxTime \in Nat /\ MaxSaves \in Nat
    /\ MaxFaults \in Nat /\ MaxChanges \in Nat

VARIABLES
    now,            \* the clock of the machine
    summer,         \* local time is ahead of it by Shift
    setback,        \* when local time last went back, NULL before
    root,           \* the path: "missing", "file" or "dir"
    retention,      \* _retention_days
    dir,            \* the file of every name, or NULL
    pc,             \* "down", "idle", or how far a save has come
    target,         \* the name of the file being written
    doomed,         \* the expired files the cleanup has still to delete
    reading,        \* the files a reader has listed and not yet looked at
    saves,          \* how many saves have begun
    savedAt,        \* when the last one began
    done,           \* the last one that ended well
    faults,         \* the number of failures and crashes so far
    changes         \* the number of clock changes so far

clockVars  == <<now, summer, setback, changes>>
writerVars == <<pc, target, doomed, saves, savedAt, done>>
vars == <<clockVars, writerVars, root, retention, dir, reading, faults>>

Local == now + IF summer THEN Shift ELSE 0

Files == {n \in DOMAIN dir : dir[n] # NULL}

\* _latest_snapshot_path of the writer and _snapshot_files()[0] of the API:
\* names sort as the local times they show.
Latest == CHOOSE n \in Files : \A k \in Files : k <= n

Init ==
    /\ now = 0
    /\ summer \in BOOLEAN
    /\ setback = NULL
    /\ root \in {"missing", "file", "dir"}
    /\ retention \in Retentions
    /\ dir = [n \in 0 .. MaxTime + Shift |-> NULL]
    /\ pc = "down"
    /\ target = 0
    /\ doomed = {}
    /\ reading = {}
    /\ saves = 0
    /\ savedAt = NULL
    /\ done = 0
    /\ faults = 0
    /\ changes = 0

-----------------------------------------------------------------------------
(* The clocks.                                                             *)

Saving == pc \in {"writing", "written", "cleaning"}

Tick ==
    /\ now < MaxTime
    /\ Saving => now < savedAt + SaveTime
    /\ now' = now + 1
    /\ UNCHANGED <<summer, setback, changes, writerVars, root, retention, dir,
                   reading, faults>>

\* Summer time begins or ends, or the time zone of the machine is changed.
ClockChange ==
    /\ changes < MaxChanges
    /\ changes' = changes + 1
    /\ summer' = ~summer
    /\ setback' = IF summer THEN now ELSE setback
    /\ UNCHANGED <<now, writerVars, root, retention, dir, reading, faults>>

-----------------------------------------------------------------------------
(* The writer.                                                             *)

\* validate_persistence makes the directory if there is none.
Boot ==
    /\ pc = "down"
    /\ root # "file"
    /\ root' = "dir"
    /\ pc' = "idle"
    /\ UNCHANGED <<clockVars, target, doomed, saves, savedAt, done, retention,
                   dir, reading, faults>>

\* Something else is in its place, or a test file cannot be written; the
\* process ends, perhaps with the directory made.
BootFails ==
    /\ pc = "down"
    /\ faults < MaxFaults
    /\ faults' = faults + 1
    /\ root' \in IF root = "missing" THEN {"missing", "dir"} ELSE {root}
    /\ UNCHANGED <<clockVars, writerVars, retention, dir, reading>>

\* Mutant: a file of the same second is not replaced.
OpenSnapshotKeeps ==
    /\ pc = "idle"
    /\ saves < MaxSaves
    /\ saves' = saves + 1
    /\ savedAt' = now
    /\ target' = Local
    /\ dir' = [dir EXCEPT ![Local] =
                  IF @ # NULL THEN @ ELSE
                  [save |-> saves + 1, whole |-> FALSE, mtime |-> now,
                   modified |-> Local]]
    /\ pc' = "writing"
    /\ UNCHANGED <<clockVars, doomed, done, root, retention, reading, faults>>

\* Mutant: the name has a clock of a few hours, that starts again.
OpenSnapshotShortClock ==
    /\ pc = "idle"
    /\ saves < MaxSaves
    /\ saves' = saves + 1
    /\ savedAt' = now
    /\ target' = Local % 4
    /\ dir' = [dir EXCEPT ![Local % 4] =
                  [save |-> saves + 1, whole |-> FALSE, mtime |-> now,
                   modified |-> Local]]
    /\ pc' = "writing"
    /\ UNCHANGED <<clockVars, doomed, done, root, retention, reading, faults>>

\* Mode "w": the file is made, or emptied if a save of the same second made
\* one already.
OpenSnapshot ==
    /\ pc = "idle"
    /\ saves < MaxSaves
    /\ saves' = saves + 1
    /\ savedAt' = now
    /\ target' = Local
    /\ dir' = [dir EXCEPT ![Local] =
                  [save |-> saves + 1, whole |-> FALSE, mtime |-> now,
                   modified |-> Local]]
    /\ pc' = "writing"
    /\ UNCHANGED <<clockVars, doomed, done, root, retention, reading, faults>>

\* Mutant: days are taken for hours, about what a save lasts.
ExpiredInHours(f) == f.modified < Local - SaveTime

\* Both sides of the comparison are local times, each of its own moment.
Expired(f) == f.modified < Local - retention

\* The file is filled and closed; the cleanup that follows takes the cutoff
\* and lists the directory.
WriteSnapshot ==
    /\ pc = "writing"
    /\ dir' = [dir EXCEPT ![target] =
                  [save |-> saves, whole |-> TRUE, mtime |-> now,
                   modified |-> Local]]
    /\ done' = saves
    /\ pc' = "written"
    /\ UNCHANGED <<clockVars, target, doomed, saves, savedAt, root, retention,
                   reading, faults>>

\* The code takes the cutoff once and looks at one file after the other; they
\* are looked at in one step here, as nobody else writes them meanwhile.
StartCleanup ==
    /\ pc = "written"
    /\ doomed' = {n \in Files : Expired(dir[n])}
    /\ pc' = "cleaning"
    /\ UNCHANGED <<clockVars, target, saves, savedAt, done, root, retention, dir,
                   reading, faults>>

\* Mutant: a file that is gone is deleted again.
RemoveExpiredAgain ==
    /\ pc = "cleaning"
    /\ \E n \in doomed : dir' = [dir EXCEPT ![n] = NULL]
    /\ UNCHANGED <<clockVars, pc, target, doomed, saves, savedAt, done, root,
                   retention, reading, faults>>

RemoveExpired ==
    /\ pc = "cleaning"
    /\ \E n \in doomed :
           /\ dir' = [dir EXCEPT ![n] = NULL]
           /\ doomed' = doomed \ {n}
    /\ UNCHANGED <<clockVars, pc, target, saves, savedAt, done, root, retention,
                   reading, faults>>

EndCleanup ==
    /\ pc = "cleaning"
    /\ doomed = {}
    /\ pc' = "idle"
    /\ UNCHANGED <<clockVars, target, doomed, saves, savedAt, done, root,
                   retention, dir, reading, faults>>

\* Writing or deleting raises: the main loop logs it and polls again.
SaveFails ==
    /\ Saving
    /\ faults < MaxFaults
    /\ faults' = faults + 1
    /\ doomed' = {}
    /\ pc' = "idle"
    /\ UNCHANGED <<clockVars, target, saves, savedAt, done, root, retention, dir,
                   reading>>

\* The process ends, and the thread of the API with it.
Crash ==
    /\ pc # "down"
    /\ faults < MaxFaults
    /\ faults' = faults + 1
    /\ doomed' = {}
    /\ reading' = {}
    /\ pc' = "down"
    /\ UNCHANGED <<clockVars, target, saves, savedAt, done, root, retention, dir>>

-----------------------------------------------------------------------------
(* The readers.                                                            *)

\* _snapshot_files()[:limit]
Newest(limit) == {n \in Files : Cardinality({k \in Files : k > n}) < limit}

\* GET /api/devices and /api/v1/snapshots/latest list one file,
\* GET /api/v1/snapshots several.
ListFiles ==
    /\ pc # "down"
    /\ reading = {}
    /\ Files # {}
    /\ \E limit \in {1, Limit} :
           reading' = {[name |-> n, mtime |-> dir[n].mtime] : n \in Newest(limit)}
    /\ UNCHANGED <<clockVars, writerVars, root, retention, dir, faults>>

\* One after the other is opened, or asked for its size.
LookAtFile ==
    /\ \E r \in reading :
           /\ r.name \in Files
           /\ reading' = reading \ {r}
    /\ UNCHANGED <<clockVars, writerVars, root, retention, dir, faults>>

\* FileNotFoundError: the request ends with an error 500.
MissFile ==
    /\ \E r \in reading : r.name \notin Files
    /\ reading' = {}
    /\ UNCHANGED <<clockVars, writerVars, root, retention, dir, faults>>

Save ==
    \/ OpenSnapshot \/ WriteSnapshot \/ StartCleanup \/ RemoveExpired
    \/ EndCleanup \/ SaveFails

Next ==
    \/ Tick \/ ClockChange
    \/ Boot \/ BootFails \/ Save \/ Crash
    \/ ListFiles \/ LookAtFile \/ MissFile

Spec == Init /\ [][Next]_vars

-----------------------------------------------------------------------------
(* Properties.                                                             *)

File == [save : 1 .. saves, whole : BOOLEAN, mtime : 0 .. now,
         modified : 0 .. now + Shift]

TypeOK ==
    /\ now \in 0 .. MaxTime
    /\ summer \in BOOLEAN
    /\ setback \in (0 .. now) \cup {NULL}
    /\ root \in {"missing", "file", "dir"}
    /\ retention \in Retentions
    /\ dir \in [0 .. MaxTime + Shift -> File \cup {NULL}]
    /\ pc \in {"down", "idle", "writing", "written", "cleaning"}
    /\ target \in 0 .. now + Shift
    /\ doomed \subseteq Files
    /\ reading \subseteq [name : 0 .. now + Shift, mtime : 0 .. now]
    /\ saves \in 0 .. MaxSaves
    /\ savedAt \in (0 .. now) \cup {NULL}
    /\ done \in 0 .. saves
    /\ faults \in 0 .. MaxFaults
    /\ changes \in 0 .. MaxChanges

\* A file at least as new as the last save that ended well is always there:
\* neither its own cleanup nor that of a later save that failed takes it away,
\* whatever the local clock did meanwhile, and only a later save, in the same
\* second, replaces it.
\* A retention of 0 days is excluded: it deletes what is a moment old.
KeepsLast ==
    retention # 0 /\ done # 0 =>
        \E n \in Files : dir[n].save >= done

\* The file the next poll merges with, and every reader serves, is that of
\* the last save, except in the hour that local time repeats: only saves
\* made less than Shift after it went back are hidden by an older file.
StaleOnlyInRepeatedHour ==
    retention # 0 /\ saves # 0 =>
        /\ Files # {}
        /\ dir[Latest].save # saves => setback # NULL /\ savedAt < setback + Shift

\* A reader that finds a listed file gone had listed one that was past the
\* retention: with saves going on, GET /api/devices cannot fail like this.
ReaderLosesOnlyExpired ==
    \A r \in reading :
        r.name \notin Files => now - r.mtime > retention - Shift

\* The directory read as one register.
View == IF Files = {} THEN NULL
        ELSE [save |-> dir[Latest].save, whole |-> dir[Latest].whole]

Register == INSTANCE LatestFile
    WITH latest <- View, open <- pc = "writing"

\* As long as local time does not go back, the directory is the register that
\* polls and readers take it for: no cleanup, no crash, no second save in
\* the same second shows in it.
ImplementsLatestFile ==
    /\ Register!Init
    /\ [][retention # 0 /\ setback' = NULL =>
              [Register!Next]_<<View, saves, pc = "writing">>]_vars
=============================================================================
