--------------------------- MODULE MCSnapshotStore ---------------------------
EXTENDS SnapshotStore

\* None, and one that outlasts a clock change.
MCRetentions == {0, 4}
=============================================================================
