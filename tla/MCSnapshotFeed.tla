--------------------------- MODULE MCSnapshotFeed ---------------------------
EXTENDS SnapshotFeed, TLC

MCArpStatuses == {"reachable", "stale", "failed", "unknown"}

\* One status for each of online, idle and offline.
MCFewArpStatuses == {"reachable", "stale", "failed"}

MCUpOrDown == {"reachable", "failed"}

\* What values the tracked fields have makes no difference, only whether they
\* change.
FieldValues == Permutations(Attrs)
=============================================================================
