--------------------------- MODULE MCSessionHistory ---------------------------
(* One status of each class the rules tell apart.                          *)
EXTENDS SessionHistory

MCArpStatuses == {"reachable", "delay", "stale", "failed", "unknown", "other"}
=============================================================================
