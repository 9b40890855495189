----------------------------- MODULE MCScheduler -----------------------------
EXTENDS Scheduler

MCRetryBackoff == 10

Unset == [form |-> "unset", value |-> 0]
Word == [form |-> "word", value |-> 0]
Number(n) == [form |-> "number", value |-> n]

\* Two environments main accepts: one as short as it can be, one that sets
\* everything.
Shortest ==
    [MIKROTIK_HOST |-> "given", MIKROTIK_USERNAME |-> "given",
     MIKROTIK_PASSWORD |-> "given", MIKROTIK_PORT |-> Unset,
     RUN_MODE |-> "unset", COLLECTION_INTERVAL |-> Unset,
     PRINT_RESULT_TO_STDOUT |-> "unset", PERSISTENCE_ENABLED |-> "unset",
     PERSISTENCE_PATH |-> "unset", PERSISTENCE_RETENTION_DAYS |-> Unset,
     IDLE_TIMEOUT_SECONDS |-> Unset, API_ENABLED |-> "unset",
     API_PORT |-> Unset, WEB_PORT |-> Unset]

Longest ==
    [Shortest EXCEPT !.MIKROTIK_PORT = Number(0), !.RUN_MODE = "loop",
                     !.COLLECTION_INTERVAL = Number(5),
                     !.PRINT_RESULT_TO_STDOUT = "other",
                     !.PERSISTENCE_ENABLED = "true", !.PERSISTENCE_PATH = "plain",
                     !.PERSISTENCE_RETENTION_DAYS = Number(0),
                     !.IDLE_TIMEOUT_SECONDS = Number(2), !.API_ENABLED = "true",
                     !.API_PORT = Number(1), !.WEB_PORT = Number(1)]

\* Each of them with one variable set otherwise.
Texts(name) ==
    CASE name \in {"MIKROTIK_HOST", "MIKROTIK_USERNAME", "MIKROTIK_PASSWORD"} ->
             {"blank", "given"}
      [] name = "RUN_MODE" -> {"unset", "once", "loop", "word"}
      [] name = "PERSISTENCE_PATH" -> Paths
      [] name \in {"PRINT_RESULT_TO_STDOUT", "PERSISTENCE_ENABLED", "API_ENABLED"} ->
             Flags
      [] OTHER -> {Unset, Word, Number(-1), Number(0), Number(1), Number(5)}

MCEnvironments ==
    UNION {{[base EXCEPT ![name] = text] : text \in Texts(name)} :
               base \in {Shortest, Longest}, name \in DOMAIN Shortest}
=============================================================================
