------------------------------- MODULE Config -------------------------------
(***************************************************************************)
(* The configuration of the three programs (internal/config/config.go):    *)
(* what Load makes of the environment, and what Validate lets through.     *)
(*                                                                         *)
(* The value of an environment variable is [form, value]: blank, a number  *)
(* of seconds or of things (int), a duration (in units of which a second   *)
(* has Second), a truth value (bool), a comma separated list with the set  *)
(* of its entries that are not blank (list), or any other text. int64 is   *)
(* scaled to -MaxInt64-1..MaxInt64, and the longest channel that make can  *)
(* allocate to Allocatable.                                                *)
(***************************************************************************)
EXTENDS Integers

Second == 10
MaxInt64 == 49
Allocatable == 40

Durations == {"PollInterval", "RequestTimeout", "ShutdownTimeout",
              "IdempotencyTTL", "WindowSize", "WindowTTL"}
Sizes == {"PersistenceQueueSize", "PersistenceWorkers", "TrendingLimit"}
Limits == {"ReplayRateLimit", "ReplayMaxMessages"}
Numbers == Sizes \union Limits \union {"RedisDB"}
Texts == {"KafkaTopic", "GitHubAPIURL", "RedisAddr", "PostgresDSN",
          "KafkaGroupID"}
Flags == {"PostgresEnabled", "ReplayMode"}
Names == Durations \union Numbers \union Texts \union Flags
             \union {"KafkaBrokers"}

\* The defaults of Load, by size and not by value.
Default ==
    [v \in Names |->
        CASE v \in Durations       -> Second
          [] v \in Sizes           -> 1
          [] v \in Texts           -> "default"
          [] v = "PostgresEnabled" -> TRUE
          [] v = "ReplayMode"      -> FALSE
          [] v = "KafkaBrokers"    -> {"default"}
          [] OTHER                 -> 0]

\* The product of two int64 in Go.
Wrapped(n) == ((n + MaxInt64 + 1) % (2 * (MaxInt64 + 1))) - (MaxInt64 + 1)

getEnv(raw, fallback) ==
    IF raw.form = "blank" THEN fallback ELSE raw.value

\* An entry that is blank is dropped, so the list may be empty.
getCSVEnv(raw, fallback) ==
    CASE raw.form = "blank" -> fallback
      [] raw.form = "list"  -> raw.value
      [] OTHER              -> {raw.value}

\* ParseDuration, or else Atoi in seconds.
getDurationEnv(raw, fallback) ==
    CASE raw.form = "duration" -> raw.value
      [] raw.form = "int"      -> Wrapped(raw.value * Second)
      [] OTHER                 -> fallback

getIntEnv(raw, fallback) ==
    IF raw.form = "int" THEN raw.value ELSE fallback

\* ParseBool also takes 0 and 1.
getBoolEnv(raw, fallback) ==
    CASE raw.form = "bool"                           -> raw.value
      [] raw.form = "int" /\ raw.value \in {0, 1}    -> raw.value = 1
      [] OTHER                                       -> fallback

Load(env) ==
    [v \in Names |->
        CASE v \in Durations -> getDurationEnv(env[v], Default[v])
          [] v \in Numbers   -> getIntEnv(env[v], Default[v])
          [] v \in Flags     -> getBoolEnv(env[v], Default[v])
          [] v \in Texts     -> getEnv(env[v], Default[v])
          [] OTHER           -> getCSVEnv(env[v], Default[v])]

\* Mutant of Validate: < in place of <=.
ValidateNotNegative(c) ==
    /\ c["KafkaBrokers"] # {}
    /\ \A v \in {"KafkaTopic", "GitHubAPIURL", "RedisAddr"} : c[v] # ""
    /\ \A v \in Durations \union Sizes \union Limits : c[v] >= 0
    /\ c["PostgresEnabled"] => c["PostgresDSN"] # ""

Validate(c) ==
    /\ c["KafkaBrokers"] # {}
    /\ \A v \in {"KafkaTopic", "GitHubAPIURL", "RedisAddr"} : c[v] # ""
    /\ \A v \in Durations \union Sizes : c[v] > 0
    /\ \A v \in Limits : c[v] >= 0
    /\ c["PostgresEnabled"] => c["PostgresDSN"] # ""
=============================================================================
