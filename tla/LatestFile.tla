----------------------------- MODULE LatestFile -----------------------------
(***************************************************************************)
(* What every poll and every reader assumes of the directory of snapshots: *)
(* that it is one register, which holds the snapshot that was saved last,  *)
(* half written while the save is under way or if it never ended.          *)
(***************************************************************************)
EXTENDS Integers

CONSTANT NULL

VARIABLES
    latest,     \* [save, whole]: the number of the save, and whether it ended
    saves,      \* how many saves have begun
    open        \* the last of them is under way

Init ==
    /\ latest = NULL
    /\ saves = 0
    /\ open = FALSE

Begin ==
    /\ ~open
    /\ saves' = saves + 1
    /\ latest' = [save |-> saves + 1, whole |-> FALSE]
    /\ open' = TRUE

End ==
    /\ open
    /\ latest' = [save |-> saves, whole |-> TRUE]
    /\ open' = FALSE
    /\ UNCHANGED saves

\* The save fails or the process dies: what was written stays.
GiveUp ==
    /\ open
    /\ open' = FALSE
    /\ UNCHANGED <<latest, saves>>

Next == Begin \/ End \/ GiveUp

Spec == Init /\ [][Next]_<<latest, saves, open>>
=============================================================================
