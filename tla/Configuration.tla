---------------------------- MODULE Configuration ----------------------------
(***************************************************************************)
(* What the processes make of their environment.  app/config.py reads it   *)
(* once, before anything else runs, and refuses what it cannot use.  The   *)
(* API server (app/api/main.py) reads two of the variables for itself, at  *)
(* every request, and refuses nothing.                                     *)
(*                                                                         *)
(* A text is reduced to what the parsers tell apart: a number is a record  *)
(* of its form and value, a path is unset, blank, plain or padded (with    *)
(* spaces around it), a flag is unset, one of the words for true, or any   *)
(* other word.                                                             *)
(***************************************************************************)
EXTENDS Integers

Flags == {"unset", "true", "other"}
Paths == {"unset", "blank", "plain", "padded"}
Numbers == [form : {"unset", "word", "number"}, value : Int]

Environment ==
    [MIKROTIK_HOST : {"blank", "given"},
     MIKROTIK_USERNAME : {"blank", "given"},
     MIKROTIK_PASSWORD : {"blank", "given"},
     MIKROTIK_PORT : Numbers,
     RUN_MODE : {"unset", "once", "loop", "word"},
     COLLECTION_INTERVAL : Numbers,
     PRINT_RESULT_TO_STDOUT : Flags,
     PERSISTENCE_ENABLED : Flags,
     PERSISTENCE_PATH : Paths,
     PERSISTENCE_RETENTION_DAYS : Numbers,
     IDLE_TIMEOUT_SECONDS : Numbers,
     API_ENABLED : Flags,
     API_PORT : Numbers,
     WEB_PORT : Numbers]

-----------------------------------------------------------------------------
(* The parsers.                                                            *)

\* int(os.getenv(..., default)), where it does not raise.
IntOf(text, default) == IF text.form = "unset" THEN default ELSE text.value

\* Mutant: zero is let through.
IsPositiveOrZero(text) == text.form # "word" /\ IntOf(text, 1) >= 0

\* _parse_positive_int and _parse_non_negative_int do not raise.
IsPositive(text) == text.form # "word" /\ IntOf(text, 1) > 0
IsNonNegative(text) == text.form # "word" /\ IntOf(text, 1) >= 0

\* str_to_bool: whatever is not a word for true is false.
IsTrue(flag, default) == IF flag = "unset" THEN default ELSE flag = "true"

\* _parse_run_mode
IsRunMode(text) == text # "word"

-----------------------------------------------------------------------------
(* load_config.                                                            *)

Accepted(env) ==
    /\ env.MIKROTIK_HOST = "given"
    /\ env.MIKROTIK_USERNAME = "given"
    /\ env.MIKROTIK_PASSWORD = "given"
    /\ env.MIKROTIK_PORT.form # "word"
    /\ IsRunMode(env.RUN_MODE)
    /\ IsPositive(env.COLLECTION_INTERVAL)
    /\ IsNonNegative(env.PERSISTENCE_RETENTION_DAYS)
    /\ IsPositive(env.IDLE_TIMEOUT_SECONDS)
    /\ IsPositive(env.API_PORT)
    /\ IsPositive(env.WEB_PORT)

\* The Config, as far as it has an influence on what follows; of the path,
\* which directory it names.
LoadConfig(env) ==
    [run_mode |-> IF env.RUN_MODE = "unset" THEN "once" ELSE env.RUN_MODE,
     collection_interval |-> IntOf(env.COLLECTION_INTERVAL, 60),
     print_result_to_stdout |-> IsTrue(env.PRINT_RESULT_TO_STDOUT, TRUE),
     persistence_enabled |-> IsTrue(env.PERSISTENCE_ENABLED, TRUE),
     persistence_path |-> IF env.PERSISTENCE_PATH \in {"unset", "blank"}
                          THEN "/data/snapshots" ELSE "the one given",
     idle_timeout_seconds |-> IntOf(env.IDLE_TIMEOUT_SECONDS, 900),
     api_enabled |-> IsTrue(env.API_ENABLED, TRUE)]

-----------------------------------------------------------------------------
(* What the API server reads.                                              *)

\* _idle_timeout_seconds
ApiIdleTimeout(env) ==
    LET text == env.IDLE_TIMEOUT_SECONDS IN
    IF text.form = "number" /\ text.value > 0 THEN text.value ELSE 900

\* _persistence_path: nothing is stripped, and a blank text is the directory
\* the process runs in.
ApiPath(env) ==
    CASE env.PERSISTENCE_PATH = "unset" -> "/data/snapshots"
      [] env.PERSISTENCE_PATH = "plain" -> "the one given"
      [] OTHER -> "another"
=============================================================================
