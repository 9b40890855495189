--------------------------- MODULE SessionHistory ---------------------------
(***************************************************************************)
(* The session timestamps of all devices over a run of MikroTrack.  All    *)
(* that survives from one poll to the next is the latest snapshot, so what *)
(* a merge forgets nothing remembers.  Every poll that succeeds replaces   *)
(* the snapshot by the merge of its report with it; a process that dies    *)
(* while writing leaves a file no later poll can read.                     *)
(*                                                                         *)
(* The clock is the one the merge reads, so it may advance by any amount   *)
(* between two polls.  SnapshotFeed splits the poll into the steps the     *)
(* code makes, and implements this module.                                 *)
(***************************************************************************)
EXTENDS SessionMerge

CONSTANTS
    Macs,           \* the devices, identified by MAC address
    MaxTime         \* bound on the clock

ASSUME MaxTimeAssumption == MaxTime \in Nat

VARIABLES
    now,            \* the clock, in seconds
    snapshot,       \* the latest snapshot: a device or NULL for each MAC
    snapshotTime    \* when it was merged, NULL while there is none

vars == <<now, snapshot, snapshotTime>>

-----------------------------------------------------------------------------
(* The poll loop, seen from the snapshot it rewrites.                      *)

NoDevices == [m \in Macs |-> NULL]

Init ==
    /\ now = 0
    /\ snapshot = NoDevices
    /\ snapshotTime = NULL

Tick ==
    /\ now' \in now + 1 .. MaxTime
    /\ UNCHANGED <<snapshot, snapshotTime>>

\* A poll that succeeded: save_snapshot stores the merge of every reported
\* device and drops the devices that were not reported.
SaveSnapshot ==
    \E report \in [Macs -> Observations \cup {NULL}] :
        /\ snapshot' = [m \in Macs |->
               IF report[m] = NULL THEN NULL
               ELSE MergeDevice(snapshot[m], report[m], now)]
        /\ snapshotTime' = now
        /\ UNCHANGED now

\* The process dies while it writes the file.  The torn file is the latest
\* one from then on, and the next poll starts from no previous devices.
CrashWhileSaving ==
    /\ snapshot' = NoDevices
    /\ snapshotTime' = now
    /\ UNCHANGED now

Next == Tick \/ SaveSnapshot \/ CrashWhileSaving

Spec == Init /\ [][Next]_vars

-----------------------------------------------------------------------------
(* Properties.                                                             *)

TypeOK ==
    /\ now \in 0 .. MaxTime
    /\ snapshot \in [Macs -> Devices \cup {NULL}]
    /\ snapshotTime \in (0 .. now) \cup {NULL}

InSnapshot(m) == snapshot[m] # NULL

\* The timestamps and the state of one device tell the same story.
Coherent(d) ==
    /\ d.bridge => d.fused = "online"
    /\ d.fused \in Up => d.online_since # NULL /\ d.offline_since = NULL
    /\ d.fused = "idle" <=> d.idle_since # NULL
    /\ d.fused = "offline" => d.offline_since # NULL

\* In every snapshot an online or idle device has a running session and no
\* end of one, exactly the idle devices have an idle start, an offline
\* device has an offline start, and bridge evidence means online: the
\* transition, unchanged, first-seen and initialisation code agree.
SessionCoherence == \A m \in Macs : InSnapshot(m) => Coherent(snapshot[m])

\* If there is a moment x, there is a moment y not before it.
NotAfter(x, y) == x # NULL => y # NULL /\ x <= y

\* Timestamps of d are in order: a session starts before it turns idle,
\* nothing is later than state_changed_at, and that is not after time t.
Ordered(d, t) ==
    /\ NotAfter(d.online_since, d.state_changed_at)
    /\ NotAfter(d.idle_since, d.state_changed_at)
    /\ NotAfter(d.offline_since, d.state_changed_at)
    /\ NotAfter(d.state_changed_at, t)
    /\ d.idle_since # NULL => NotAfter(d.online_since, d.idle_since)

\* In every snapshot the timestamps of a device are ordered and none lies
\* after the poll that wrote it, whichever branches of the merge copied,
\* reset or initialised them.
TimestampOrder ==
    \A m \in Macs : InSnapshot(m) => Ordered(snapshot[m], snapshotTime)

\* No snapshot shows a device that had been idle for the idle timeout when
\* the poll ran: the merge forces such a device offline, whatever the order
\* of idle and unknown reports, lost bridge hosts and restarts before.
IdleWithinTimeout ==
    \A m \in Macs :
        InSnapshot(m) /\ snapshot[m].fused = "idle" =>
            snapshotTime - snapshot[m].idle_since < IdleTimeout

\* m is in two snapshots that follow each other.
Continued(m) == snapshot[m] # NULL /\ snapshot'[m] # NULL

\* The step merges a report of m with address ip; the other fields of a report
\* are stored as they are.
Reported(m, ip) ==
    /\ snapshot'[m] # NULL
    /\ snapshot'[m] =
           MergeDevice(snapshot[m],
                       [arp |-> snapshot'[m].arp, bridge |-> snapshot'[m].bridge,
                        ip |-> ip, attrs |-> snapshot'[m].attrs],
                       now)

\* What a device shows of its address after a report of it with address ip,
\* when the address known before was known.
ShowsIdentity(d, ip, known) ==
    /\ d.last_known_ip = IF ip # NULL THEN ip ELSE known
    /\ d.ip # NULL => d.ip = d.last_known_ip
    /\ ip # NULL => d.ip = ip
    /\ d.ip_is_stale <=> d.ip # ip
    /\ d.ip_is_stale => FusedDeviceState(d.arp, d.bridge) = "offline"

\* While a device stays in the snapshots its last known address is the one
\* reported last, over any number of reports without one.  An address shown
\* is the last known one; it is marked as stale exactly when this report does
\* not have it, and that happens only to a device reported offline.
IdentityKept ==
    [][\A m \in Macs : \A ip \in Ips \cup {NULL} :
          Reported(m, ip) =>
              ShowsIdentity(snapshot'[m], ip,
                            IF snapshot[m] = NULL THEN NULL
                            ELSE snapshot[m].last_known_ip)]_vars

\* A device that went offline comes back as online and in a session that
\* starts with this poll, and only if the bridge or an online ARP status
\* shows it: stale or permanent entries never revive it.
ReconnectStartsSession ==
    [][\A m \in Macs :
          /\ Continued(m)
          /\ snapshot[m].offline_since # NULL
          /\ snapshot'[m].fused \in Up
          => /\ snapshot'[m].fused = "online"
             /\ snapshot'[m].online_since = now
             /\ snapshot'[m].bridge \/ snapshot'[m].arp \in OnlineArp]_vars

\* The promise of module PresenceSession, for the session each device of
\* the snapshot is in.
SessionOf(d) ==
    IF d = NULL THEN [phase |-> "absent", since |-> NULL, deadline |-> NULL]
    ELSE IF d.offline_since # NULL
        THEN [phase |-> "down", since |-> d.offline_since, deadline |-> NULL]
    ELSE [phase    |-> IF d.fused \in Up THEN "up" ELSE "limbo",
          since    |-> d.online_since,
          deadline |-> IF d.idle_since = NULL THEN NULL
                       ELSE d.idle_since + IdleTimeout]

Session == INSTANCE PresenceSession
    WITH clock   <- now,
         session <- [m \in Macs |-> SessionOf(snapshot[m])]

\* Every run of the merge is a run of the abstract session machine.
ImplementsPresenceSession == Session!SessionSpec
=============================================================================
