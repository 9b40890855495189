-------------------------- MODULE SchedulerProofs --------------------------
(***************************************************************************)
(* Proofs about Scheduler, for every set of environments and every         *)
(* backoff.  All of them come from one inductive invariant.  TypeOK is not *)
(* enough for the pause: what is known of slept and lag depends on where   *)
(* the main thread is, and that is what PauseInv and StopInv say.  Of the  *)
(* configuration the argument needs what the parsers guarantee: that it    *)
(* was accepted wherever the thread has got beyond its boot, and what an   *)
(* accepted one is like (lemmas AcceptedDelay and ParsersAgree).           *)
(***************************************************************************)
EXTENDS Scheduler, TLAPS

\* No cycle runs on a configuration that was not accepted.
BootInv == pc \notin {"boot", "exit"} => Accepted(env)

\* How the process ends, and where it is then; only the loop comes to where a
\* signal makes it end well.
ExitInv ==
    /\ exit # "none" <=> pc = "exit"
    /\ pc \in {"guard", "decide", "pause", "sleep"} => mode = "loop"
    /\ ExitIsEarned

\* The pause: what was slept and what is left of it are what the outcome
\* asks for.
PauseInv ==
    /\ pc \in Fetching \cup {"boot", "connect", "save", "print", "decide"} => slept = 0
    /\ pc = "boot" => outcome = "none"
    /\ pc \in {"decide", "pause", "sleep"} => slept + left = PauseAfter(outcome)
    /\ pc = "sleep" => left > 0
    /\ pc = "guard" => slept = PauseAfter(outcome) \/ shouldStop

\* The signal: the second that is under way when it comes is the last one.
StopInv ==
    /\ lag <= 1
    /\ lag # 0 => shouldStop /\ pc \in {"pause", "guard", "exit"}

IInv == TypeOK /\ BootInv /\ ConnectionScoped /\ ExitInv /\ PauseInv /\ StopInv

-----------------------------------------------------------------------------

\* A pause of an accepted configuration is at least one second long.
LEMMA AcceptedDelay ==
    ASSUME NEW e \in Environment, Accepted(e)
    PROVE  /\ LoadConfig(e).collection_interval \in Nat \ {0}
           /\ LoadConfig(e).run_mode \in {"once", "loop"}
<1>1. e.COLLECTION_INTERVAL \in Numbers /\ e.RUN_MODE \in {"unset", "once", "loop", "word"}
    BY DEF Environment
<1>2. e.COLLECTION_INTERVAL.value \in Int
    BY <1>1 DEF Numbers
<1>3. IsPositive(e.COLLECTION_INTERVAL) /\ e.RUN_MODE # "word"
    BY DEF Accepted, IsRunMode
<1>4. IntOf(e.COLLECTION_INTERVAL, 60) \in Nat \ {0}
    BY <1>2, <1>3 DEF IsPositive, IntOf
<1> QED
    BY <1>1, <1>3, <1>4 DEF LoadConfig

\* Where main accepts the environment, the parsers of the API read the same
\* timeout, and the same path if it is plain.
LEMMA ParsersAgree ==
    ASSUME NEW e \in Environment, Accepted(e)
    PROVE  /\ ApiIdleTimeout(e) = LoadConfig(e).idle_timeout_seconds
           /\ e.PERSISTENCE_PATH \in {"unset", "plain"} =>
                  ApiPath(e) = LoadConfig(e).persistence_path
<1>1. e.IDLE_TIMEOUT_SECONDS \in Numbers
    BY DEF Environment
<1>2. /\ e.IDLE_TIMEOUT_SECONDS.value \in Int
      /\ e.IDLE_TIMEOUT_SECONDS.form \in {"unset", "word", "number"}
    BY <1>1 DEF Numbers
<1>3. IsPositive(e.IDLE_TIMEOUT_SECONDS)
    BY DEF Accepted
<1>4. ApiIdleTimeout(e) = IntOf(e.IDLE_TIMEOUT_SECONDS, 900)
    BY <1>2, <1>3 DEF IsPositive, IntOf, ApiIdleTimeout
<1>5. e.PERSISTENCE_PATH \in {"unset", "plain"} =>
          ApiPath(e) = LoadConfig(e).persistence_path
    BY DEF ApiPath, LoadConfig
<1> QED
    BY <1>4, <1>5 DEF LoadConfig

\* The process boots with nothing slept and nothing open.
LEMMA InitIInv == Init => IInv
<1> SUFFICES ASSUME Init PROVE IInv
    OBVIOUS
<1> USE DEF Init, Fetching
<1>1. TypeOK
    BY DEF TypeOK
<1>6. BootInv
    BY DEF BootInv
<1>2. ConnectionScoped
    BY DEF ConnectionScoped
<1>3. ExitInv
    BY DEF ExitInv, ExitIsEarned
<1>4. PauseInv
    BY DEF PauseInv
<1>5. StopInv
    BY DEF StopInv
<1> QED
    BY <1>1, <1>2, <1>3, <1>4, <1>5, <1>6 DEF IInv

\* Every step of the main thread, and the signal, preserves the invariant.
LEMMA NextIInv == IInv /\ [Next]_vars => IInv'
<1> SUFFICES ASSUME IInv, [Next]_vars
             PROVE  IInv'
    OBVIOUS
<1>0. Accepted(env) => interval \in Nat \ {0} /\ mode \in {"once", "loop"}
    BY AcceptedDelay, EnvironmentAssumption
       DEF IInv, TypeOK, interval, mode, config
<1> USE <1>0, DelayAssumption
    DEF IInv, TypeOK, BootInv, ConnectionScoped, ExitInv, ExitIsEarned,
        PauseInv, StopInv, Fetching, PauseAfter, interval, mode, config
<1>1. CASE Boot \/ BootFails
    BY <1>1 DEF Boot, BootFails, ExitWith
<1>2. CASE Connect
    BY <1>2 DEF Connect
<1>3. CASE ConnectFails
    <2>1. TypeOK'
        BY <1>3 DEF ConnectFails, Fail, ExitWith
    <2>2. ConnectionScoped'
        BY <1>3 DEF ConnectFails, Fail, ExitWith
    <2>3. (BootInv /\ ExitInv /\ PauseInv /\ StopInv)'
        BY <1>3 DEF ConnectFails, Fail, ExitWith
    <2> QED
        BY <2>1, <2>2, <2>3
<1>4. CASE \/ Fetch("dhcp", "arp") \/ Fetch("arp", "bridge")
           \/ Fetch("bridge", "interfaces")
    BY <1>4 DEF Fetch
<1>5. CASE FetchInterfaces
    BY <1>5 DEF FetchInterfaces
<1>6. CASE FetchFails
    <2>1. TypeOK'
        BY <1>6 DEF FetchFails, Fail, ExitWith
    <2>2. ConnectionScoped'
        BY <1>6 DEF FetchFails, Fail, ExitWith
    <2>3. (BootInv /\ ExitInv /\ PauseInv /\ StopInv)'
        BY <1>6 DEF FetchFails, Fail, ExitWith
    <2> QED
        BY <2>1, <2>2, <2>3
<1>7. CASE Save
    BY <1>7 DEF Save
<1>8. CASE SaveFails \/ PrintFails
    BY <1>8 DEF SaveFails, PrintFails, Fail, ExitWith
<1>15. CASE PrintResult
    BY <1>15 DEF PrintResult, Succeed, ExitWith
<1>9. CASE Guard
    BY <1>9 DEF Guard, ExitWith
<1>10. CASE Decide
    BY <1>10 DEF Decide, ExitWith
<1>11. CASE Pause
    BY <1>11 DEF Pause
<1>12. CASE Sleep
    BY <1>12 DEF Sleep
<1>13. CASE Signal
    BY <1>13 DEF Signal, ExitWith
<1>14. CASE UNCHANGED vars
    BY <1>14 DEF vars
<1> QED
    BY <1>1, <1>2, <1>3, <1>4, <1>5, <1>6, <1>7, <1>8, <1>9, <1>10, <1>11, <1>12,
       <1>13, <1>14, <1>15 DEF Next, MainThread

\* The inductive invariant holds in every state of every run of main.
THEOREM Invariance == Spec => []IInv
BY InitIInv, NextIInv, PTL DEF Spec

\* Every state is typed.
THEOREM TypeCorrect == Spec => []TypeOK
<1>1. IInv => TypeOK
    BY DEF IInv
<1> QED
    BY <1>1, Invariance, PTL

\* Wherever the API server may run, it reads the environment as main does.
THEOREM Readers == Spec => []ReadersAgree
<1>1. IInv => ReadersAgree
    BY ParsersAgree, EnvironmentAssumption
       DEF IInv, TypeOK, BootInv, ReadersAgree, config
<1> QED
    BY <1>1, Invariance, PTL

\* No way out of a cycle leaves a connection to the router open.
THEOREM Connections == Spec => []ConnectionScoped
<1>1. IInv => ConnectionScoped
    BY DEF IInv
<1> QED
    BY <1>1, Invariance, PTL

\* The exit status tells how the run went.
THEOREM Verdicts == Spec => []ExitIsEarned
<1>1. IInv => ExitIsEarned
    BY DEF IInv, ExitInv
<1> QED
    BY <1>1, Invariance, PTL

\* However long the interval is, at most one second of it is slept through
\* after a signal.
THEOREM Promptness == Spec => []PromptStop
<1>1. IInv => PromptStop
    BY DEF IInv, StopInv, PromptStop
<1> QED
    BY <1>1, Invariance, PTL

\* Every pause is exactly the one its outcome asks for.
THEOREM Pacing == Spec => Paced
<1>1. IInv /\ [Next]_vars =>
          [pc = "guard" /\ pc' = "connect" => slept = PauseAfter(outcome)]_vars
    <2> SUFFICES ASSUME IInv, Next, pc = "guard", pc' = "connect"
                 PROVE  slept = PauseAfter(outcome)
        OBVIOUS
    <2>1. Guard
        BY DEF Next, MainThread, Boot, BootFails, Connect, ConnectFails, Fetch, FetchInterfaces,
           FetchFails, Save, SaveFails, PrintResult, PrintFails, Fail, Succeed, Decide, Pause, Sleep, Signal, Fetching,
           ExitWith
    <2>2. ~shouldStop
        BY <2>1 DEF Guard, ExitWith
    <2> QED
        BY <2>2 DEF IInv, PauseInv
<1> QED
    BY <1>1, Invariance, PTL DEF Spec, Paced
=============================================================================
