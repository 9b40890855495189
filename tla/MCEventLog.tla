----------------------------- MODULE MCEventLog -----------------------------
EXTENDS EventLog

MCMacs == {1, 2}

MCTexts == {"wide", "split"}
=============================================================================
