------------------------- MODULE SnapshotStoreProofs -------------------------
(***************************************************************************)
(* Proofs about SnapshotStore, for every retention of a day or more, every *)
(* change of the local clock and every number of saves, crashes and        *)
(* readers.  The properties speak of the latest file and of the last save; *)
(* the inductive invariant says of every file what makes them true: when   *)
(* it was modified, by the clock and by local time, how its name compares  *)
(* with the local time now, and that the file of the last save is there    *)
(* and never among the ones the cleanup is about to delete.                *)
(***************************************************************************)
EXTENDS SnapshotStore, TLAPS

\* Every file bears its time of modification twice.
FileInv ==
    \A n \in Files : dir[n].mtime <= dir[n].modified

\* What the cleanup has chosen was past the retention when it did, and is.
DoomedInv ==
    /\ doomed # {} => pc = "cleaning"
    /\ \A n \in doomed : now - dir[n].mtime > retention - Shift

\* The file of the last save is there under its name and not to be deleted;
\* while it is cleaned up after, the save is not long ago.
TargetInv ==
    /\ saves = 0 <=> savedAt = NULL
    /\ saves = 0 => Files = {} /\ pc \in {"down", "idle"}
    /\ saves # 0 /\ retention # 0 =>
           /\ target \in Files \ doomed
           /\ dir[target].save = saves
    /\ saves # 0 => savedAt <= now
    /\ Saving => now <= savedAt + SaveTime
    /\ pc = "writing" => target \in Files /\ dir[target].save = saves
    /\ pc = "written" /\ retention # 0 => dir[target].modified >= savedAt

\* Names are local times of the past, of before the clock went back perhaps;
\* the last save was given the greatest unless that was in the hour after.
NameInv ==
    /\ setback # NULL => setback <= now
    /\ \A n \in Files :
           n <= Local \/ (setback # NULL /\ n <= setback + Shift)
    /\ saves # 0 /\ (setback = NULL \/ savedAt >= setback + Shift) =>
           \A n \in Files : n <= target

\* A file that was listed has not become older since.
ReadingInv ==
    \A r \in reading :
        IF r.name \in Files THEN r.mtime <= dir[r.name].mtime
        ELSE now - r.mtime > retention - Shift

IInv == TypeOK /\ FileInv /\ DoomedInv /\ TargetInv /\ NameInv /\ ReadingInv

-----------------------------------------------------------------------------

\* A file is never taken for none.
LEMMA FileIsNotNull == ASSUME NEW f \in File, TypeOK PROVE f # NULL
BY NullAssumption DEF File, TypeOK

\* The store is empty and nothing is known.
LEMMA InitIInv == Init => IInv
<1> SUFFICES ASSUME Init PROVE IInv
    OBVIOUS
<1> USE RetentionAssumption, NullAssumption, BoundsAssumption DEF Init
<1>1. Files = {}
    BY DEF Files
<1>2. TypeOK
    BY <1>1 DEF TypeOK
<1>3. FileInv /\ DoomedInv /\ TargetInv /\ NameInv /\ ReadingInv
    BY <1>1 DEF FileInv, DoomedInv, TargetInv, NameInv, ReadingInv, Saving
<1> QED
    BY <1>2, <1>3 DEF IInv

\* What TypeOK says of the files that are there, in arithmetic.
LEMMA FileTypes ==
    ASSUME TypeOK
    PROVE  /\ DOMAIN dir = 0 .. MaxTime + Shift
           /\ Files \subseteq 0 .. MaxTime + Shift
           /\ \A n \in Files :
                  /\ dir[n] \in File
                  /\ dir[n].save \in 1 .. saves
                  /\ dir[n].mtime \in 0 .. now
                  /\ dir[n].modified \in 0 .. now + Shift
BY DEF TypeOK, Files, File

\* Every step of the clocks, the writer and the readers preserves the
\* invariant.
LEMMA NextIInv == IInv /\ [Next]_vars => IInv'
<1> SUFFICES ASSUME IInv, [Next]_vars
             PROVE  IInv'
    OBVIOUS
<1>0. /\ now \in Nat /\ saves \in Nat /\ retention \in Nat /\ Shift \in Nat
      /\ SaveTime \in Nat /\ Local \in now .. now + Shift
    BY RetentionAssumption, BoundsAssumption DEF IInv, TypeOK, Local
<1> USE <1>0, RetentionAssumption, NullAssumption, BoundsAssumption, FileTypes
    DEF IInv
<1>a. /\ \A n \in Files : n \in Nat /\ n <= now + Shift
      /\ \A n \in Files : dir[n].mtime \in Nat /\ dir[n].modified \in Nat
      /\ \A n \in doomed : n \in Files
      /\ setback # NULL => setback \in Nat
    <2>1. /\ \A n \in Files : n \in 0 .. MaxTime + Shift
          /\ \A n \in Files : dir[n].mtime \in 0 .. now
          /\ \A n \in Files : dir[n].modified \in 0 .. now + Shift
          /\ \A n \in doomed : n \in Files
        BY DEF TypeOK
    <2>2. /\ setback # NULL => setback \in Nat /\ setback <= now
          /\ \A n \in Files :
                n <= Local \/ (setback # NULL /\ n <= setback + Shift)
        BY DEF TypeOK, NameInv
    <2> QED
        BY <2>1, <2>2
<1>1. CASE \/ Boot \/ BootFails \/ EndCleanup \/ SaveFails
           \/ Crash \/ LookAtFile \/ MissFile
    <2> USE DEF clockVars, writerVars, Saving, Files
    <2>a. UNCHANGED <<now, summer, setback, dir, target, saves, savedAt, retention>>
        BY <1>1 DEF Boot, BootFails, EndCleanup, SaveFails, Crash, LookAtFile, MissFile
    <2>b. File' = File /\ Local' = Local /\ Files' = Files
        BY <2>a DEF File, Local
    <2>1. TypeOK'
        <3>1. CASE Boot
            BY <3>1, <2>a, <2>b DEF Boot, TypeOK
        <3>2. CASE BootFails
            BY <3>2, <2>a, <2>b DEF BootFails, TypeOK
        <3>3. CASE EndCleanup
            BY <3>3, <2>a, <2>b DEF EndCleanup, TypeOK
        <3>4. CASE SaveFails
            BY <3>4, <2>a, <2>b DEF SaveFails, TypeOK
        <3>5. CASE Crash
            BY <3>5, <2>a, <2>b DEF Crash, TypeOK
        <3>6. CASE LookAtFile
            BY <3>6, <2>a, <2>b DEF LookAtFile, TypeOK
        <3>7. CASE MissFile
            BY <3>7, <2>a, <2>b DEF MissFile, TypeOK
        <3> QED
            BY <1>1, <3>1, <3>2, <3>3, <3>4, <3>5, <3>6, <3>7
    <2>2. FileInv'
        BY <1>1, <2>a, <2>b
        DEF Boot, BootFails, EndCleanup, SaveFails, Crash,
            LookAtFile, MissFile, FileInv
    <2>3. DoomedInv'
        BY <1>1, <2>a, <2>b
        DEF Boot, BootFails, EndCleanup, SaveFails, Crash,
            LookAtFile, MissFile, DoomedInv, TypeOK
    <2>4. TargetInv'
        BY <1>1, <2>a, <2>b
        DEF Boot, BootFails, EndCleanup, SaveFails, Crash,
            LookAtFile, MissFile, TargetInv, DoomedInv, TypeOK
    <2>5. NameInv'
        BY <2>a, <2>b DEF NameInv
    <2>6. ReadingInv'
        BY <1>1, <2>a, <2>b
        DEF Boot, BootFails, EndCleanup, SaveFails, Crash,
            LookAtFile, MissFile, ReadingInv, TypeOK
    <2> QED
        BY <2>1, <2>2, <2>3, <2>4, <2>5, <2>6
<1>2. CASE ClockChange
    <2> USE <1>2 DEF ClockChange, clockVars, writerVars, Saving, Files
    <2>a. /\ UNCHANGED <<now, root, retention, dir, pc, target, doomed, reading>>
          /\ UNCHANGED <<saves, savedAt, done, faults>>
          /\ summer' \in BOOLEAN /\ setback' \in (0 .. now) \cup {NULL}
          /\ changes' \in 0 .. MaxChanges
        BY DEF TypeOK
    <2>b. Files' = Files /\ File' = File
        BY <2>a DEF File
    <2>1. TypeOK'
        <3> HIDE <1>2 DEF ClockChange, Files
        <3> QED
            BY <2>a, <2>b DEF TypeOK
    <2>2. FileInv'
        BY DEF FileInv
    <2>3. DoomedInv'
        BY DEF DoomedInv, TypeOK
    <2>4. TargetInv'
        BY DEF TargetInv, DoomedInv, TypeOK
    <2>5. NameInv'
        BY DEF NameInv, TypeOK, Local
    <2>6. ReadingInv'
        BY DEF ReadingInv, TypeOK
    <2> QED
        BY <2>1, <2>2, <2>3, <2>4, <2>5, <2>6
<1>3. CASE Tick
    <2> USE <1>3 DEF Tick, clockVars, writerVars, Saving, Files
    <2>a. File \subseteq File'
        BY DEF TypeOK, File
    <2>b. /\ UNCHANGED <<summer, setback, root, retention, dir, pc, target, doomed>>
          /\ UNCHANGED <<reading, saves, savedAt, done, faults, changes>>
          /\ now' = now + 1 /\ now' \in 0 .. MaxTime
        BY DEF TypeOK
    <2>c. dir' \in [0 .. MaxTime + Shift -> File' \cup {NULL}] /\ Files' = Files
        <3>1. dir \in [0 .. MaxTime + Shift -> File \cup {NULL}]
            BY DEF TypeOK
        <3> QED
            BY <2>a, <2>b, <3>1
    <2>d. /\ reading' \subseteq [name : 0 .. now' + Shift, mtime : 0 .. now']
          /\ setback' \in (0 .. now') \cup {NULL}
          /\ savedAt' \in (0 .. now') \cup {NULL}
          /\ target' \in 0 .. now' + Shift
        BY <2>b DEF TypeOK
    <2>1. TypeOK'
        <3> HIDE <1>3 DEF Tick, Files
        <3> QED
            BY <2>b, <2>c, <2>d DEF TypeOK
    <2>2. FileInv'
        BY DEF FileInv
    <2>3. DoomedInv'
        <3>1. /\ \A n \in doomed : dir[n].mtime \in Nat
              /\ \A n \in doomed : now - dir[n].mtime > retention - Shift
            BY <1>a DEF DoomedInv
        <3>2. \A n \in doomed : now + 1 - dir[n].mtime > retention - Shift
            <4> HIDE <1>3 DEF Tick
            <4> QED
                BY <3>1
        <3>3. /\ now' = now + 1 /\ dir' = dir /\ retention' = retention
              /\ doomed' = doomed /\ pc' = pc
            BY <2>b
        <3> HIDE <1>3, FileTypes DEF Tick, Files
        <3>4. doomed # {} => pc = "cleaning"
            BY DEF DoomedInv
        <3>5. \A n \in doomed' : now' - dir'[n].mtime > retention' - Shift
            <4> SUFFICES ASSUME NEW n \in doomed'
                         PROVE  now' - dir'[n].mtime > retention' - Shift
                OBVIOUS
            <4>1. n \in doomed /\ dir'[n] = dir[n]
                BY <3>3
            <4>2. /\ now + 1 - dir[n].mtime > retention - Shift
                  /\ dir[n].mtime \in Nat /\ now' \in Nat /\ retention' \in Nat
                BY <3>1, <3>2, <3>3, <4>1
            <4> QED
                BY <3>3, <4>1, <4>2
        <3> QED
            BY <3>3, <3>4, <3>5, Zenon DEF DoomedInv
    <2>4. TargetInv'
        BY DEF TargetInv, DoomedInv, TypeOK
    <2>5. NameInv'
        BY DEF NameInv, TypeOK, Local
    <2>6. ReadingInv'
        BY DEF ReadingInv, TypeOK
    <2> QED
        BY <2>1, <2>2, <2>3, <2>4, <2>5, <2>6
<1>4. CASE OpenSnapshot
    <2> USE <1>4 DEF OpenSnapshot, clockVars, writerVars, Saving, Files
    <2> DEFINE new == [save |-> saves + 1, whole |-> FALSE, mtime |-> now,
                      modified |-> Local]
    <2>a. new \in File' /\ new # NULL /\ File \subseteq File'
        <3>1. new \in [save : Int, whole : BOOLEAN, mtime : Int, modified : Int]
            BY DEF TypeOK, Local
        <3>2. new # NULL
            BY <3>1
        <3>3. new \in File'
            BY DEF TypeOK, File, Local
        <3>4. File \subseteq File'
            BY DEF TypeOK, File
        <3> QED
            BY <3>2, <3>3, <3>4
    <2>b. dir' = [dir EXCEPT ![Local] = new] /\ Local \in 0 .. MaxTime + Shift
        BY DEF TypeOK, Local
    <2>c. Files' = Files \cup {Local} /\ dir'[Local] = new
        BY <2>a, <2>b DEF TypeOK
    <2>d. \A n \in Files \ {Local} : dir'[n] = dir[n]
        BY <2>b DEF TypeOK
    <2> HIDE DEF new
    <2>e. new.save = saves + 1 /\ new.mtime = now /\ new.modified = Local
        BY DEF new
    <2>f. dir' \in [0 .. MaxTime + Shift -> File' \cup {NULL}]
        BY <2>a, <2>b DEF TypeOK
    <2>g. doomed' \subseteq Files'
        BY <2>c DEF TypeOK
    <2> HIDE DEF Files
    <2>1. TypeOK'
        BY <2>f, <2>g DEF TypeOK
    <2>2. FileInv'
        BY <2>a, <2>b, <2>c, <2>d, <2>e DEF FileInv
    <2>3. DoomedInv'
        BY <2>a, <2>b, <2>c, <2>d, <2>e DEF DoomedInv, TypeOK
    <2>4. TargetInv'
        BY <2>a, <2>b, <2>c, <2>d, <2>e DEF TargetInv, DoomedInv, TypeOK
    <2>5. NameInv'
        BY <2>a, <2>b, <2>c, <2>d, <2>e DEF NameInv, TypeOK, Local
    <2>6. ReadingInv'
        BY <2>a, <2>b, <2>c, <2>d, <2>e DEF ReadingInv, TypeOK
    <2> QED
        BY <2>1, <2>2, <2>3, <2>4, <2>5, <2>6
<1>5. CASE WriteSnapshot
    <2> USE <1>5 DEF WriteSnapshot, clockVars, writerVars, Saving, Files
    <2>t. target \in Files /\ saves # 0 /\ savedAt \in Nat /\ savedAt <= now
        BY DEF TargetInv, TypeOK
    <2> DEFINE new == [save |-> saves, whole |-> TRUE, mtime |-> now, modified |-> Local]
    <2>a. new \in File' /\ new # NULL /\ File \subseteq File'
        <3>1. new \in [save : Int, whole : BOOLEAN, mtime : Int, modified : Int]
            BY DEF TypeOK, Local
        <3>2. new # NULL
            BY <3>1
        <3>3. new \in File'
            BY <2>t DEF TypeOK, File, Local
        <3>4. File \subseteq File'
            BY DEF TypeOK, File
        <3> QED
            BY <3>2, <3>3, <3>4
    <2>b. dir' = [dir EXCEPT ![target] = new] /\ target \in 0 .. MaxTime + Shift
        BY <2>t DEF TypeOK
    <2>c. Files' = Files \cup {target} /\ dir'[target] = new
        BY <2>a, <2>b DEF TypeOK
    <2>d. \A n \in Files \ {target} : dir'[n] = dir[n]
        BY <2>b DEF TypeOK
    <2> HIDE DEF new
    <2>e. new.save = saves /\ new.mtime = now /\ new.modified = Local
        BY DEF new
    <2>f. dir' \in [0 .. MaxTime + Shift -> File' \cup {NULL}]
        BY <2>a, <2>b, <2>t DEF TypeOK
    <2>g. doomed' \subseteq Files'
        BY <2>c DEF TypeOK
    <2> HIDE DEF Files
    <2>1. TypeOK'
        BY <2>f, <2>g, <2>t DEF TypeOK
    <2>2. FileInv'
        BY <2>a, <2>b, <2>c, <2>d, <2>e, <2>t DEF FileInv
    <2>3. DoomedInv'
        BY <2>a, <2>b, <2>c, <2>d, <2>e, <2>t DEF DoomedInv, TypeOK
    <2>4. TargetInv'
        BY <2>a, <2>b, <2>c, <2>d, <2>e, <2>t DEF TargetInv, DoomedInv, TypeOK
    <2>5. NameInv'
        BY <2>a, <2>b, <2>c, <2>d, <2>e, <2>t DEF NameInv, TypeOK, Local
    <2>6. ReadingInv'
        BY <2>a, <2>b, <2>c, <2>d, <2>e, <2>t DEF ReadingInv, TypeOK
    <2> QED
        BY <2>1, <2>2, <2>3, <2>4, <2>5, <2>6
<1>6. CASE StartCleanup
    <2> USE <1>6 DEF StartCleanup, clockVars, writerVars, Saving, Files
    <2>a. \A n \in doomed' : n \in Files /\ dir[n].modified < Local - retention
        BY DEF Expired
    <2>b. retention # 0 => retention > Shift + SaveTime
        BY DEF TypeOK
    <2>c. saves # 0 /\ retention # 0 => target \notin doomed'
        BY <2>a, <2>b DEF TargetInv, TypeOK
    <2>1. TypeOK'
        BY DEF TypeOK, File
    <2>2. FileInv'
        BY DEF FileInv
    <2>3. DoomedInv'
        BY <2>a DEF DoomedInv, FileInv, TypeOK, Local
    <2>4. TargetInv'
        BY <2>c DEF TargetInv, TypeOK
    <2>5. NameInv'
        BY DEF NameInv, TypeOK, Local
    <2>6. ReadingInv'
        BY DEF ReadingInv, TypeOK
    <2> QED
        BY <2>1, <2>2, <2>3, <2>4, <2>5, <2>6
<1>7. CASE RemoveExpired
    <2> USE <1>7 DEF RemoveExpired, clockVars, writerVars, Saving, Files
    <2>a. PICK n \in doomed : dir' = [dir EXCEPT ![n] = NULL] /\ doomed' = doomed \ {n}
        BY DEF RemoveExpired
    <2>b. n \in Files /\ Files' = Files \ {n} /\ \A k \in Files' : dir'[k] = dir[k]
        BY <2>a DEF TypeOK
    <2>c. dir' \in [0 .. MaxTime + Shift -> File \cup {NULL}] /\ File' = File
        BY <2>a DEF TypeOK, File
    <2>d. doomed' \subseteq Files'
        BY <2>a, <2>b DEF TypeOK
    <2>1. TypeOK'
        <3> HIDE DEF Files
        <3> QED
            BY <2>c, <2>d DEF TypeOK
    <2>2. FileInv'
        BY DEF FileInv
    <2>3. DoomedInv'
        BY DEF DoomedInv, TypeOK
    <2>4. TargetInv'
        BY DEF TargetInv, DoomedInv, TypeOK
    <2>5. NameInv'
        BY DEF NameInv, TypeOK, Local
    <2>6. ReadingInv'
        BY <2>a, <2>b DEF ReadingInv, DoomedInv, TypeOK
    <2> QED
        BY <2>1, <2>2, <2>3, <2>4, <2>5, <2>6
<1>8. CASE ListFiles
    <2> USE <1>8 DEF ListFiles, clockVars, writerVars, Saving, Files
    <2>a. \A r \in reading' : \E n \in Files : r = [name |-> n, mtime |-> dir[n].mtime]
        BY DEF Newest
    <2>b. \A n \in Files : n \in 0 .. now + Shift
        BY <1>a
    <2>c. reading' \subseteq [name : 0 .. now + Shift, mtime : 0 .. now]
        BY <2>a, <2>b
    <2>1. TypeOK'
        BY <2>c DEF TypeOK, File
    <2>2. FileInv'
        BY DEF FileInv
    <2>3. DoomedInv'
        BY DEF DoomedInv, TypeOK
    <2>4. TargetInv'
        BY DEF TargetInv, DoomedInv, TypeOK
    <2>5. NameInv'
        BY DEF NameInv, TypeOK, Local
    <2>6. ReadingInv'
        BY <2>a DEF ReadingInv, TypeOK
    <2> QED
        BY <2>1, <2>2, <2>3, <2>4, <2>5, <2>6
<1>9. CASE UNCHANGED vars
    BY <1>9 DEF vars, clockVars, writerVars, TypeOK, File, FileInv, DoomedInv,
                 TargetInv, NameInv, ReadingInv, Files, Local, Saving
<1> QED
    BY <1>1, <1>2, <1>3, <1>4, <1>5, <1>6, <1>7, <1>8, <1>9 DEF Next, Save

\* The inductive invariant holds in every state of the store.
THEOREM Invariance == Spec => []IInv
BY InitIInv, NextIInv, PTL DEF Spec

\* Every state is typed.
THEOREM TypeCorrect == Spec => []TypeOK
<1>1. IInv => TypeOK
    BY DEF IInv
<1> QED
    BY <1>1, Invariance, PTL

\* No cleanup deletes the last save.
THEOREM LastIsKept == Spec => []KeepsLast
<1>1. IInv => KeepsLast
    BY DEF IInv, TargetInv, TypeOK, KeepsLast
<1> QED
    BY <1>1, Invariance, PTL

\* The greatest name is that of the last save, unless it was given in the
\* hour that local time repeats.
LEMMA LatestIsTarget ==
    ASSUME IInv, saves # 0, retention # 0,
           setback = NULL \/ savedAt >= setback + Shift
    PROVE  Latest = target /\ dir[Latest].save = saves
<1>1. target \in Files /\ dir[target].save = saves
    BY DEF IInv, TargetInv
<1>2. \A n \in Files : n <= target /\ n \in Int
    BY FileTypes DEF IInv, NameInv
<1>3. \A n \in Files : (\A k \in Files : k <= n) => n = target
    BY <1>1, <1>2
<1> QED
    BY <1>1, <1>2, <1>3 DEF Latest

\* Only a save made in that hour is hidden by an older file.
THEOREM LatestIsLast == Spec => []StaleOnlyInRepeatedHour
<1>1. IInv => StaleOnlyInRepeatedHour
    <2> SUFFICES ASSUME IInv, retention # 0, saves # 0
                 PROVE  /\ Files # {}
                        /\ dir[Latest].save # saves =>
                               setback # NULL /\ savedAt < setback + Shift
        BY DEF StaleOnlyInRepeatedHour
    <2>1. Files # {}
        BY DEF IInv, TargetInv
    <2>2. savedAt \in Int /\ (setback # NULL => setback + Shift \in Int)
        BY RetentionAssumption DEF IInv, TypeOK, TargetInv
    <2>3. dir[Latest].save = saves \/ (setback # NULL /\ savedAt < setback + Shift)
        BY <2>2, LatestIsTarget
    <2> QED
        BY <2>1, <2>3
<1> QED
    BY <1>1, Invariance, PTL

\* A reader loses only files past the retention.
THEOREM ReadersKeepFresh == Spec => []ReaderLosesOnlyExpired
<1>1. IInv => ReaderLosesOnlyExpired
    BY DEF IInv, ReadingInv, ReaderLosesOnlyExpired
<1> QED
    BY <1>1, Invariance, PTL

-----------------------------------------------------------------------------
(* The directory as a register.                                            *)

\* What is read of it while local time has not gone back.
LEMMA ViewIsLast ==
    IInv /\ retention # 0 /\ setback = NULL =>
        View = IF saves = 0 THEN NULL
               ELSE [save |-> saves, whole |-> dir[target].whole]
<1> SUFFICES ASSUME IInv, retention # 0, setback = NULL
             PROVE  View = IF saves = 0 THEN NULL
                           ELSE [save |-> saves, whole |-> dir[target].whole]
    OBVIOUS
<1>1. CASE saves = 0
    BY <1>1 DEF IInv, TargetInv, View
<1>2. CASE saves # 0
    <2>1. target \in Files /\ Latest = target /\ dir[Latest].save = saves
        BY <1>2, LatestIsTarget DEF IInv, TargetInv
    <2> QED
        BY <1>2, <2>1 DEF View
<1> QED
    BY <1>1, <1>2

\* A step of the store is one of the register: a save begins, ends or is given
\* up, and all else shows in nothing.
LEMMA RegisterStep ==
    ASSUME IInv, IInv', Next, retention # 0, setback' = NULL
    PROVE  Register!Next \/ UNCHANGED <<View, saves, pc = "writing">>
<1>0. retention' = retention /\ setback = NULL
    BY NullAssumption
       DEF Next, Save, IInv, TypeOK, Tick, ClockChange, Boot, BootFails,
           OpenSnapshot, WriteSnapshot, StartCleanup, RemoveExpired, EndCleanup,
           SaveFails, Crash, ListFiles, LookAtFile, MissFile, clockVars, writerVars
<1>1. /\ View = IF saves = 0 THEN NULL
                ELSE [save |-> saves, whole |-> dir[target].whole]
      /\ View' = IF saves' = 0 THEN NULL
                 ELSE [save |-> saves', whole |-> dir'[target'].whole]
    <2>1. (IInv /\ retention # 0 /\ setback = NULL =>
             View = IF saves = 0 THEN NULL
                    ELSE [save |-> saves, whole |-> dir[target].whole])'
        BY ViewIsLast, PTL
    <2> QED
        BY <1>0, <2>1, ViewIsLast
<1>2. saves \in Nat
    BY DEF IInv, TypeOK
<1>3. CASE OpenSnapshot
    <2>1. /\ pc = "idle" /\ pc' = "writing" /\ saves' = saves + 1
          /\ target' = Local
          /\ dir' = [dir EXCEPT ![Local] =
                        [save |-> saves + 1, whole |-> FALSE, mtime |-> now,
                         modified |-> Local]]
        BY <1>3 DEF OpenSnapshot
    <2>2. Local \in DOMAIN dir
        BY RetentionAssumption, BoundsAssumption DEF IInv, TypeOK, Local
    <2>3. View' = [save |-> saves + 1, whole |-> FALSE]
        <3>1. saves' # 0 /\ dir'[target'].whole = FALSE
            BY <1>2, <2>1, <2>2
        <3> QED
            BY <1>1, <2>1, <3>1
    <2> QED
        BY <2>1, <2>3 DEF Register!Next, Register!Begin
<1>4. CASE WriteSnapshot
    <2>1. /\ pc = "writing" /\ pc' = "written" /\ saves' = saves
          /\ target' = target
          /\ dir' = [dir EXCEPT ![target] =
                        [save |-> saves, whole |-> TRUE, mtime |-> now,
                         modified |-> Local]]
        BY <1>4 DEF WriteSnapshot
    <2>2. target \in DOMAIN dir /\ saves # 0
        BY <2>1, FileTypes DEF IInv, TargetInv
    <2>3. View' = [save |-> saves, whole |-> TRUE]
        <3>1. dir'[target'].whole = TRUE
            BY <2>1, <2>2
        <3> QED
            BY <1>1, <2>1, <2>2, <3>1
    <2> QED
        BY <2>1, <2>3 DEF Register!Next, Register!End
<1>5. CASE SaveFails \/ Crash
    <2>1. pc' # "writing" /\ UNCHANGED <<dir, target, saves>>
        BY <1>5 DEF SaveFails, Crash
    <2>2. UNCHANGED <<View, saves>>
        BY <1>1, <2>1
    <2> QED
        BY <2>1, <2>2 DEF Register!Next, Register!GiveUp
<1>6. CASE RemoveExpired
    <2>1. /\ pc' = pc /\ target' = target /\ saves' = saves
          /\ \E n \in doomed : dir' = [dir EXCEPT ![n] = NULL]
        BY <1>6 DEF RemoveExpired
    <2>2. saves # 0 => target \notin doomed /\ target \in DOMAIN dir
        BY FileTypes DEF IInv, TargetInv
    <2>3. saves # 0 => dir'[target] = dir[target]
        BY <2>1, <2>2
    <2> QED
        BY <1>1, <2>1, <2>3
<1>7. CASE \/ Tick \/ ClockChange \/ StartCleanup \/ EndCleanup \/ ListFiles
           \/ LookAtFile \/ MissFile \/ BootFails \/ Boot
    <2>1. /\ UNCHANGED <<dir, target, saves>>
          /\ pc' = "writing" <=> pc = "writing"
        BY <1>7 DEF Tick, ClockChange, StartCleanup, EndCleanup, ListFiles,
                    LookAtFile, MissFile, BootFails, Boot, writerVars
    <2> QED
        BY <1>1, <2>1
<1> QED
    BY <1>3, <1>4, <1>5, <1>6, <1>7 DEF Next, Save

\* As long as local time does not go back, every run of the store is a run of
\* the register.
THEOREM Refinement == Spec => ImplementsLatestFile
<1>1. Init => Register!Init
    BY DEF Init, Register!Init, View, Files
<1>2. IInv /\ IInv' /\ [Next]_vars =>
          [retention # 0 /\ setback' = NULL =>
              [Register!Next]_<<View, saves, pc = "writing">>]_vars
    BY RegisterStep
<1> QED
    BY <1>1, <1>2, Invariance, PTL DEF Spec, ImplementsLatestFile
=============================================================================
