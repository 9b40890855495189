------------------------------ MODULE Presence ------------------------------
(***************************************************************************)
(* The presence rules of MikroTrack as pure operators: how the ARP status  *)
(* and the bridge host evidence of one device become a presence state, and *)
(* how the previous snapshot of the device is read back                    *)
(* (app/arp_logic.py and the helpers of app/persistence.py).               *)
(*                                                                         *)
(* A device here is any record with the fields arp, bridge, fused,         *)
(* state_changed_at, online_since, idle_since and offline_since.  The      *)
(* "evidence" dictionary the code also consults is a copy of arp and       *)
(* bridge made by build_devices, so the two fields stand for it.           *)
(***************************************************************************)
EXTENDS Integers

CONSTANTS
    IdleTimeout,    \* IDLE_TIMEOUT_SECONDS: how long a session may stay idle
    NULL            \* an absent timestamp, address or device

\* load_config refuses a timeout that is not positive.
ASSUME IdleTimeoutAssumption == IdleTimeout \in Nat \ {0}
ASSUME NullAssumption == NULL \notin Int

\* "other" is any text the code does not know.
AllArpStatuses ==
    {"reachable", "complete", "delay", "probe", "stale", "permanent",
     "failed", "incomplete", "unknown", "other"}

OnlineArp  == {"reachable", "complete", "delay", "probe"}
IdleArp    == {"stale", "permanent"}
OfflineArp == {"failed", "incomplete"}

States == {"online", "idle", "offline", "unknown"}

\* Both states of a running presence session.
Up == {"online", "idle"}

FusedDeviceState(arp, bridge) ==
    IF arp \in OnlineArp \/ bridge THEN "online"
    ELSE IF arp \in IdleArp THEN "idle"
    ELSE IF arp \in OfflineArp THEN "offline"
    ELSE "unknown"

\* Bridge evidence wins over whatever state the snapshot carries.
DeriveDeviceState(d) == IF d.bridge THEN "online" ELSE d.fused

\* Mutant: the boundary second still counts as idle.
IdleTimeoutExceededLate(d, now) ==
    LET since == IF d.idle_since # NULL THEN d.idle_since
                 ELSE d.state_changed_at
    IN  since # NULL /\ now - since > IdleTimeout

IdleTimeoutExceeded(d, now) ==
    LET since == IF d.idle_since # NULL THEN d.idle_since
                 ELSE d.state_changed_at
    IN  since # NULL /\ now - since >= IdleTimeout

\* Mutant: the stored state is believed although the session has ended.
ResolvePreviousStoredState(d, now) ==
    IF DeriveDeviceState(d) = "idle" /\ IdleTimeoutExceeded(d, now)
    THEN "offline"
    ELSE DeriveDeviceState(d)

\* offline_since is the source of truth for the end of a session, before
\* the bridge flag and before the stored state are looked at.
ResolvePreviousEffectiveState(d, now) ==
    IF \/ d.offline_since # NULL
       \/ DeriveDeviceState(d) = "idle" /\ IdleTimeoutExceeded(d, now)
    THEN "offline"
    ELSE DeriveDeviceState(d)

HasReconnectEvidence(d) == d.bridge \/ d.arp \in {"reachable", "complete"}

HasPresenceEvidence(d) == d.bridge \/ d.arp \in {"reachable", "delay"}

\* The current half of _sanitize_presence_transition; the previous half is
\* the previous state itself.
SanitizedCurrent(prev, curr, evidence) ==
    IF prev = "offline" /\ curr = "idle"
    THEN IF evidence THEN "online" ELSE "offline"
    ELSE curr

\* Mutant: a status no rule knows is stored as it came.
RecalculateStateOnBridgeHostLossRaw(arp) ==
    IF arp \in {"reachable", "complete"} THEN "online"
    ELSE IF arp \in {"stale", "delay", "probe", "permanent"} THEN "idle"
    ELSE IF arp \in {"failed", "incomplete", "unknown"} THEN "offline"
    ELSE arp

RecalculateStateOnBridgeHostLoss(arp) ==
    IF arp \in {"reachable", "complete"} THEN "online"
    ELSE IF arp \in {"stale", "delay", "probe", "permanent"} THEN "idle"
    ELSE IF arp \in {"failed", "incomplete", "unknown"} THEN "offline"
    ELSE "unknown"
=============================================================================
