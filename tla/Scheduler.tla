------------------------------ MODULE Scheduler ------------------------------
(***************************************************************************)
(* The main thread of MikroTrack (app/main.py): one collection cycle, or a *)
(* loop of them with a pause that depends on how the last one ended, and a *)
(* signal that may come between any two steps.  A cycle opens a connection *)
(* to the router, fetches four resources over it (app/collector.py), and   *)
(* saves and prints what it built; each of these may fail.  Whether there  *)
(* is a cycle at all, and how it goes on, is in the environment the        *)
(* process was started with (Configuration).                               *)
(*                                                                         *)
(* A second of the pause is two steps: the loop looks at the flag and then *)
(* sleeps for a second, which a signal does not cut short.                 *)
(***************************************************************************)
EXTENDS Configuration

CONSTANTS
    Environments,           \* the environments the process may be started in
    RetryBackoff            \* RETRY_BACKOFF_SECONDS

ASSUME EnvironmentAssumption == Environments \subseteq Environment
ASSUME DelayAssumption == RetryBackoff \in Nat \ {0}

VARIABLES
    env,            \* the environment of the process
    pc,             \* where the main thread is
    shouldStop,     \* the flag the signal handlers set
    connected,      \* a connection to the router is open
    outcome,        \* how the last cycle ended: "none", "ok" or "failed"
    left,           \* seconds of the pause that are left
    exit,           \* "none", or how the process ended
    slept,          \* history: whole seconds slept since the last cycle
    lag             \* history: of these, the ones since the signal

vars == <<env, pc, shouldStop, connected, outcome, left, exit, slept, lag>>

Fetching == {"dhcp", "arp", "bridge", "interfaces"}

\* What load_config returns for it, where it returns.
config == LoadConfig(env)
mode == config.run_mode
interval == config.collection_interval

Init ==
    /\ env \in Environments
    /\ pc = "boot"
    /\ shouldStop = FALSE
    /\ connected = FALSE
    /\ outcome = "none"
    /\ left = 0
    /\ exit = "none"
    /\ slept = 0
    /\ lag = 0

ExitWith(verdict) == pc' = "exit" /\ exit' = verdict

\* The configuration is loaded, the directory checked, the API started.
Boot ==
    /\ pc = "boot"
    /\ Accepted(env)
    /\ pc' = IF mode = "once" THEN "connect" ELSE "guard"
    /\ UNCHANGED <<env, shouldStop, connected, outcome, left, exit, slept, lag>>

\* A configuration that cannot be loaded ends the process, and so does a
\* directory that cannot be written (validate_persistence).
BootFails ==
    /\ pc = "boot"
    /\ ~Accepted(env) \/ config.persistence_enabled
    /\ ExitWith("error")
    /\ UNCHANGED <<env, shouldStop, connected, outcome, left, slept, lag>>

-----------------------------------------------------------------------------
(* The end of a cycle.                                                     *)

\* sleep_for; a run in mode once returns or exits instead.
Succeed ==
    /\ outcome' = "ok"
    /\ left' = interval
    /\ IF mode = "once" THEN ExitWith("ok") ELSE pc' = "decide" /\ UNCHANGED exit
    /\ UNCHANGED <<env, shouldStop, slept, lag>>

\* Mutant: an error of mode once is logged and no more.
FailQuietly ==
    /\ outcome' = "failed"
    /\ left' = RetryBackoff
    /\ IF mode = "once" THEN ExitWith("ok") ELSE pc' = "decide" /\ UNCHANGED exit
    /\ UNCHANGED <<env, shouldStop, slept, lag>>

\* Mutant: a failed cycle ends the process in either mode.
FailAndExit ==
    /\ outcome' = "failed"
    /\ left' = RetryBackoff
    /\ ExitWith("error")
    /\ UNCHANGED <<env, shouldStop, slept, lag>>

\* Mutant: a failed cycle waits as long as any.
FailWithoutBackoff ==
    /\ outcome' = "failed"
    /\ left' = interval
    /\ IF mode = "once" THEN ExitWith("error") ELSE pc' = "decide" /\ UNCHANGED exit
    /\ UNCHANGED <<env, shouldStop, slept, lag>>

\* Every exception ends in the same place, the connection closed behind it.
Fail ==
    /\ outcome' = "failed"
    /\ left' = RetryBackoff
    /\ IF mode = "once" THEN ExitWith("error") ELSE pc' = "decide" /\ UNCHANGED exit
    /\ UNCHANGED <<env, shouldStop, slept, lag>>

-----------------------------------------------------------------------------
(* A cycle.                                                                *)

Connect ==
    /\ pc = "connect"
    /\ connected' = TRUE
    /\ pc' = "dhcp"
    /\ UNCHANGED <<env, shouldStop, outcome, left, exit, slept, lag>>

\* Mutant: a failed login leaves its socket behind.
ConnectFailsOpen ==
    /\ pc = "connect"
    /\ connected' = TRUE
    /\ Fail

\* connect() calls disconnect() before it raises.
ConnectFails ==
    /\ pc = "connect"
    /\ connected' = FALSE
    /\ Fail

Fetch(from, to) ==
    /\ pc = from
    /\ pc' = to
    /\ UNCHANGED <<env, shouldStop, connected, outcome, left, exit, slept, lag>>

\* An error, an answer that is not a list, and an empty list of leases; at the
\* last one an exception of build_devices, which runs before the connection is
\* closed.
FetchFails ==
    /\ pc \in Fetching
    /\ connected' = FALSE
    /\ Fail

\* get_interface_macs skips a resource that fails; build_devices follows and
\* the with block closes the connection.
FetchInterfaces ==
    /\ pc = "interfaces"
    /\ connected' = FALSE
    /\ pc' = "save"
    /\ UNCHANGED <<env, shouldStop, outcome, left, exit, slept, lag>>

\* save_snapshot, unless persistence is off.
Save ==
    /\ pc = "save"
    /\ pc' = "print"
    /\ UNCHANGED <<env, shouldStop, connected, outcome, left, exit, slept, lag>>

SaveFails ==
    /\ pc = "save"
    /\ config.persistence_enabled
    /\ Fail
    /\ UNCHANGED connected

PrintResult ==
    /\ pc = "print"
    /\ Succeed
    /\ UNCHANGED connected

\* The other end of stdout is gone: the cycle has failed, though it saved.
PrintFails ==
    /\ pc = "print"
    /\ config.print_result_to_stdout
    /\ Fail
    /\ UNCHANGED connected

-----------------------------------------------------------------------------
(* The loop.                                                               *)

\* Mutant: the flag is made anew for every cycle.
GuardForgets ==
    /\ pc = "guard"
    /\ slept' = 0
    /\ lag' = 0
    /\ shouldStop' = FALSE
    /\ pc' = "connect"
    /\ UNCHANGED <<env, connected, outcome, left, exit>>

\* The condition of the while loop.
Guard ==
    /\ pc = "guard"
    /\ slept' = 0
    /\ IF shouldStop THEN ExitWith("ok") ELSE pc' = "connect" /\ UNCHANGED exit
    /\ UNCHANGED <<env, shouldStop, connected, outcome, left, lag>>

Decide ==
    /\ pc = "decide"
    /\ IF shouldStop THEN ExitWith("ok") ELSE pc' = "pause" /\ UNCHANGED exit
    /\ UNCHANGED <<env, shouldStop, connected, outcome, left, slept, lag>>

\* Mutant: the pause is slept through before the flag is looked at again.
PauseThrough ==
    /\ pc = "pause"
    /\ pc' = IF left = 0 THEN "guard" ELSE "sleep"
    /\ UNCHANGED <<env, shouldStop, connected, outcome, left, exit, slept, lag>>

\* Mutant: the pause never ends.
PauseForever ==
    /\ pc = "pause"
    /\ pc' = IF shouldStop THEN "guard" ELSE "sleep"
    /\ UNCHANGED <<env, shouldStop, connected, outcome, left, exit, slept, lag>>

Pause ==
    /\ pc = "pause"
    /\ pc' = IF left = 0 \/ shouldStop THEN "guard" ELSE "sleep"
    /\ UNCHANGED <<env, shouldStop, connected, outcome, left, exit, slept, lag>>

Sleep ==
    /\ pc = "sleep"
    /\ left' = left - 1
    /\ slept' = slept + 1
    /\ lag' = IF shouldStop THEN lag + 1 ELSE lag
    /\ pc' = "pause"
    /\ UNCHANGED <<env, shouldStop, connected, outcome, exit>>

\* SIGTERM or SIGINT.  Only the loop installs handlers, after the boot; where
\* there are none the signal ends the process and closes the connection.
Signal ==
    /\ pc # "exit"
    /\ IF mode = "loop" /\ pc # "boot"
       THEN shouldStop' = TRUE /\ UNCHANGED <<pc, connected, exit>>
       ELSE ExitWith("killed") /\ connected' = FALSE /\ UNCHANGED shouldStop
    /\ UNCHANGED <<env, outcome, left, slept, lag>>

MainThread ==
    \/ Boot \/ BootFails
    \/ Connect \/ ConnectFails
    \/ Fetch("dhcp", "arp") \/ Fetch("arp", "bridge")
    \/ Fetch("bridge", "interfaces") \/ FetchInterfaces \/ FetchFails
    \/ Save \/ SaveFails \/ PrintResult \/ PrintFails
    \/ Guard \/ Decide \/ Pause \/ Sleep

Next == MainThread \/ Signal

\* Every call of the main thread returns: the sockets of the RouterOS client
\* time out, files and sleeps end.  No signal need ever come.
Spec == Init /\ [][Next]_vars /\ WF_vars(MainThread)

-----------------------------------------------------------------------------
(* Properties.                                                             *)

TypeOK ==
    /\ env \in Environments
    /\ pc \in Fetching \cup {"boot", "connect", "save", "print", "guard",
                             "decide", "pause", "sleep", "exit"}
    /\ shouldStop \in BOOLEAN
    /\ connected \in BOOLEAN
    /\ outcome \in {"none", "ok", "failed"}
    /\ left \in Nat
    /\ exit \in {"none", "ok", "error", "killed"}
    /\ slept \in Nat
    /\ lag \in Nat

\* A connection is open exactly while resources are fetched: no way out of a
\* cycle, by an error at any call or by the end of it, leaves one behind.
ConnectionScoped == connected <=> pc \in Fetching

\* The process tells the truth when it ends: ok means a cycle that saved, or
\* a loop that was asked to stop; error means a failed cycle of mode once, or
\* no cycle at all, for which the environment is to blame.
ExitIsEarned ==
    /\ exit = "ok" => IF mode = "once" THEN outcome = "ok" ELSE shouldStop
    /\ exit = "error" =>
           \/ outcome = "failed" /\ mode = "once"
           \/ outcome = "none" /\ (~Accepted(env) \/ config.persistence_enabled)

\* The API server, which lives in this process and parses the environment by
\* itself, looks for the snapshots where the main thread writes them and lets
\* a device go offline after as long a time: main starts it only where the two
\* parsers agree.  A path with spaces around it, or a blank one, is excused:
\* there they do not agree.
ReadersAgree ==
    pc \notin {"boot", "exit"} /\ config.api_enabled =>
        /\ ApiIdleTimeout(env) = config.idle_timeout_seconds
        /\ env.PERSISTENCE_PATH \in {"unset", "plain"} =>
               ApiPath(env) = config.persistence_path

\* Once a signal has come, at most the second being slept is slept to its
\* end, whatever the interval.
PromptStop == lag <= 1

PauseAfter(o) ==
    IF o = "ok" THEN interval
    ELSE IF o = "failed" THEN RetryBackoff ELSE 0

\* The pause before a cycle is the backoff after a failure and the interval
\* after a success, to the second.
Paced == [][pc = "guard" /\ pc' = "connect" => slept = PauseAfter(outcome)]_vars

\* A signal stops the loop, wherever it comes.
SignalStops == shouldStop ~> exit = "ok"

\* Failures do not: once booted, the loop collects again and again until it
\* is stopped.
KeepsCollecting ==
    Accepted(env) /\ mode = "loop" =>
        []<>(pc = "connect" \/ shouldStop \/ (exit # "none" /\ outcome = "none"))
=============================================================================
