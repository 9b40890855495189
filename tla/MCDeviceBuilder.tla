--------------------------- MODULE MCDeviceBuilder ---------------------------
EXTENDS DeviceBuilder

\* A status of every priority and of every state.
MCArpStatuses == {"reachable", "stale", "failed", "unknown"}
=============================================================================
