--------------------------- MODULE MCDeviceRefresh ---------------------------
EXTENDS DeviceRefresh

CONSTANTS m1, m2

MCItems ==
    {[status |-> "online", assignment |-> "DYNAMIC"],
     [status |-> "offline", assignment |-> "BRIDGE"]}
=============================================================================
