------------------------------ MODULE Service ------------------------------
(***************************************************************************)
(* The life of a process of cmd/consumer or cmd/ingestor: main, the        *)
(* listener, the handlers of the API (internal/consumer/server.go,         *)
(* internal/server/health.go) and the workers that share the pool of       *)
(* PostgreSQL connections with them. What the consumer and the poll loop   *)
(* do with messages is in Consumer and Ingestor; here the loop runs or has *)
(* ended, and a worker may be handed a record at any time.                 *)
(***************************************************************************)
EXTENDS Config, FiniteSets

CONSTANTS Environments, \* the environments the process may be started in
          Workers,      \* goroutines of runPersistenceWorker, 1, 2, ...
          Requests,     \* connections of clients at a time
          PoolSize,     \* max_conns of the pool
          MaxServed     \* bound of the model: requests of a process

ASSUME ServiceAssumption ==
    /\ Workers \subseteq Nat
    /\ Workers \intersect Requests = {}
    /\ IsFiniteSet(Workers) /\ IsFiniteSet(Requests)
    /\ PoolSize \in Nat \ {0}
    /\ MaxServed \in Nat

VARIABLES service,   \* "consumer" or "ingestor": which main
          main,      \* where main is
          cfg,       \* what Load has returned
          signalled, \* SIGTERM: ctx is done
          http,      \* the goroutine of ListenAndServe
          loop,      \* the goroutine of runConsumer or runPollLoop
          ready,     \* Server.ready
          history,   \* Server.history is not nil
          pool,      \* the pool of connections
          at,        \* worker or request -> its next step
          code,      \* request -> the status its handler has written
          metrics,   \* the counters of the handlers
          served     \* requests accepted

mainVars == <<service, main, cfg, signalled, http, loop, ready, history, pool>>

clientVars == <<at, code, metrics, served>>

\* What a step of main leaves alone that only moves main.
besideMain == <<service, cfg, signalled, http, loop, ready, history, pool,
                clientVars>>

vars == <<mainVars, clientVars>>

Clients == Workers \union Requests

Counters == {"replayOperations", "apiRequests", "apiErrors", "historyQueries",
             "historyFailures", "sseConnections", "sseActive"}

Init ==
    /\ service \in {"consumer", "ingestor"}
    /\ main = "load"
    /\ cfg = Default
    /\ signalled = FALSE
    /\ http = "off"
    /\ loop = "off"
    /\ ready = FALSE
    /\ history = FALSE
    /\ pool = "none"
    /\ at = [c \in Clients |-> "absent"]
    /\ code = [r \in Requests |-> 200]
    /\ metrics = [c \in Counters |-> 0]
    /\ served = 0

\* A process is there, past the configuration.
Alive == main \notin {"load", "exited", "panicked"}

Holders == {c \in Clients : at[c] = "holding"}

-----------------------------------------------------------------------------
(* main.                                                                   *)

\* config.Load, or exit status 1. Only the consumer connects to PostgreSQL.
LoadConfig ==
    /\ main = "load"
    /\ \E env \in Environments :
           IF Validate(Load(env))
           THEN /\ cfg' = Load(env)
                /\ main' = IF service = "consumer" THEN "connect" ELSE "serve"
           ELSE main' = "exited" /\ UNCHANGED cfg
    /\ UNCHANGED <<service, signalled, http, loop, ready, history, pool,
                   clientVars>>

RecordReplayOperation ==
    metrics' = [metrics EXCEPT !["replayOperations"] =
                                   IF cfg["ReplayMode"] THEN @ + 1 ELSE @]

\* Mutant of SchemaFails: the store is closed and stays.
SchemaFailsKeepsStore ==
    /\ pool' = "closed"
    /\ history' = TRUE
    /\ UNCHANGED at

SchemaFails ==
    /\ pool' = "closed"
    /\ UNCHANGED <<history, at>>

\* Workers start with the store.
Connected ==
    /\ ~signalled
    /\ pool' = "open"
    /\ history' = TRUE
    /\ at' = [c \in Clients |->
                 IF c \in Workers /\ c <= cfg["PersistenceWorkers"]
                 THEN "idle" ELSE at[c]]

\* make(chan, PersistenceQueueSize) panics on a size it cannot allocate.
QueueFits == cfg["PersistenceQueueSize"] \in 0..Allocatable

\* Connect and InitSchema, once: without PostgreSQL, or without its schema,
\* the consumer goes on with Redis alone. Then the queue is made; a panic
\* closes what was opened.
Connect ==
    /\ main = "connect"
    /\ RecordReplayOperation
    /\ IF QueueFits
       THEN /\ \/ UNCHANGED <<pool, history, at>>
               \/ cfg["PostgresEnabled"] /\ (SchemaFails \/ Connected)
            /\ main' = "serve"
       ELSE main' = "panicked" /\ UNCHANGED <<pool, history, at>>
    /\ UNCHANGED <<service, cfg, signalled, http, loop, ready, code, served>>

\* go ListenAndServe()
Serve ==
    /\ main = "serve"
    /\ http' = "opening"
    /\ main' = "start"
    /\ UNCHANGED <<service, cfg, signalled, loop, ready, history, pool,
                   clientVars>>

\* kafka.NewReader panics without brokers or a topic.
ReaderConfigured ==
    service = "consumer" => cfg["KafkaBrokers"] # {} /\ cfg["KafkaTopic"] # ""

\* The reader or the producer, SetReady(true).
Start ==
    /\ main = "start"
    /\ IF ReaderConfigured
       THEN ready' = TRUE /\ main' = "launch"
       ELSE main' = "panicked" /\ UNCHANGED ready
    /\ UNCHANGED <<service, cfg, signalled, http, loop, history, pool,
                   clientVars>>

\* go runConsumer() or runPollLoop()
Launch ==
    /\ main = "launch"
    /\ loop' = "starting"
    /\ main' = "running"
    /\ UNCHANGED <<service, cfg, signalled, http, ready, history, pool,
                   clientVars>>

\* The select of main ends; until SetReady(false) the service says it is ready.
LeaveSelect ==
    /\ main = "running"
    /\ signalled \/ http = "failed" \/ loop = "ended"
    /\ main' = "leaving"
    /\ UNCHANGED besideMain

\* Mutant of Stop: SetReady(false) is left out.
StopStillReady ==
    /\ main = "leaving"
    /\ main' = "stopping"
    /\ UNCHANGED besideMain

\* SetReady(false).
Stop ==
    /\ main = "leaving"
    /\ ready' = FALSE
    /\ main' = "stopping"
    /\ UNCHANGED <<service, cfg, signalled, http, loop, history, pool,
                   clientVars>>

\* Shutdown closes the listener first; ListenAndServe returns.
Shutdown ==
    /\ main = "stopping"
    /\ http' = "closed"
    /\ main' = "waiting"
    /\ UNCHANGED <<service, cfg, signalled, loop, ready, history, pool,
                   clientVars>>

\* Mutant of ShutdownReturns: a context without a timeout.
ShutdownWaits ==
    /\ main = "waiting"
    /\ \A r \in Requests : at[r] = "absent"
    /\ main' = "closing"
    /\ UNCHANGED besideMain

\* Shutdown returns when no connection is left or after SHUTDOWN_TIMEOUT,
\* whichever comes first, and leaves the others to themselves.
ShutdownReturns ==
    /\ main = "waiting"
    /\ \/ \A r \in Requests : at[r] = "absent"
       \/ cfg["ShutdownTimeout"] > 0
    /\ main' = "closing"
    /\ UNCHANGED besideMain

\* The deferred calls, the last one first. The reader or the producer closes
\* when its goroutines have ended.
CloseKafka ==
    /\ main = "closing"
    /\ main' = "disconnecting"
    /\ UNCHANGED besideMain

\* Close of the pool takes no more requests for a connection ...
ClosePool ==
    /\ main = "disconnecting"
    /\ pool' = IF pool = "open" THEN "closed" ELSE pool
    /\ main' = "draining"
    /\ UNCHANGED <<service, cfg, signalled, http, loop, ready, history,
                   clientVars>>

\* Mutant of PoolDrained: Close does not wait.
PoolAbandoned ==
    /\ main = "draining"
    /\ main' = "ending"
    /\ UNCHANGED besideMain

\* ... and waits for those that are out.
PoolDrained ==
    /\ main = "draining"
    /\ Holders = {}
    /\ main' = "ending"
    /\ UNCHANGED besideMain

\* The Redis client closes, main returns, and with it every goroutine.
Exit ==
    /\ main = "ending"
    /\ main' = "exited"
    /\ UNCHANGED besideMain

Main == LoadConfig \/ Connect \/ Serve \/ Start \/ Launch \/ LeaveSelect
            \/ Stop \/ Shutdown \/ ShutdownReturns \/ CloseKafka \/ ClosePool
            \/ PoolDrained \/ Exit

-----------------------------------------------------------------------------
(* Around main.                                                            *)

\* SIGTERM; a second one changes nothing.
Signal ==
    /\ Alive
    /\ signalled' = TRUE
    /\ UNCHANGED <<service, main, cfg, http, loop, ready, history, pool,
                   clientVars>>

\* The port is free or not; a listener may fail later.
Listen ==
    /\ Alive
    /\ \/ http = "opening" /\ http' = "listening"
       \/ http \in {"opening", "listening"} /\ http' = "failed"
    /\ UNCHANGED <<service, main, cfg, signalled, loop, ready, history, pool,
                   clientVars>>

\* runPollLoop begins with time.NewTicker, which panics unless its interval
\* is positive.
LoopBegins ==
    /\ Alive
    /\ loop = "starting"
    /\ IF service = "ingestor" => cfg["PollInterval"] > 0
       THEN loop' = "running" /\ UNCHANGED main
       ELSE main' = "panicked" /\ UNCHANGED loop
    /\ UNCHANGED <<service, cfg, signalled, http, ready, history, pool,
                   clientVars>>

\* runPollLoop ends with ctx only; runConsumer also with an error of Kafka,
\* such as that of a closed reader.
LoopEnds ==
    /\ Alive
    /\ loop = "running"
    /\ signalled \/ service = "consumer"
    /\ loop' = "ended"
    /\ UNCHANGED <<service, main, cfg, signalled, http, ready, history, pool,
                   clientVars>>

-----------------------------------------------------------------------------
(* The pool of connections, for workers and handlers.                      *)

Goto(c, next) == at' = [at EXCEPT ![c] = next]

\* A record from the queue, or ctx: select takes either.
Work(w) ==
    /\ Alive
    /\ at[w] = "idle"
    /\ \/ loop \in {"running", "ended"} /\ Goto(w, "asking")
       \/ signalled /\ Goto(w, "absent")
    /\ UNCHANGED <<mainVars, code, metrics, served>>

Acquire(c) ==
    /\ Alive
    /\ at[c] = "asking"
    /\ pool = "open"
    /\ Cardinality(Holders) < PoolSize
    /\ Goto(c, "holding")
    /\ UNCHANGED <<mainVars, code, metrics, served>>

\* A worker logs the failure of its record and takes the next one.
WorkerReturns(w) ==
    /\ Alive
    /\ at[w] \in {"asking", "holding"}
    /\ Goto(w, "idle")
    /\ UNCHANGED <<mainVars, code, metrics, served>>

-----------------------------------------------------------------------------
(* The handlers. A handler ends by writing its status; requestLogger then  *)
(* counts the request.                                                     *)

Add(c) == metrics' = [metrics EXCEPT ![c] = @ + 1]

Answer(r, status) ==
    /\ Goto(r, "answered")
    /\ code' = [code EXCEPT ![r] = status]

\* A request on a connection of its own. Shutdown does not end a connection
\* whose request is still being read.
Accept(r) ==
    /\ Alive
    /\ http = "listening"
    /\ at[r] = "absent"
    /\ served < MaxServed
    /\ served' = served + 1
    /\ Goto(r, "accepted")
    /\ UNCHANGED <<mainVars, code, metrics>>

\* /live, and /metrics without the counters of Telemetry.
handleLive(r) == Answer(r, 200) /\ UNCHANGED metrics

handleReady(r) ==
    /\ UNCHANGED metrics
    /\ IF ready THEN Goto(r, "ready") /\ UNCHANGED code ELSE Answer(r, 503)

\* The limit a query runs with, 0 when it is refused. Of the parameter the
\* sign and the order relative to the fallback matter.
parseLimit(raw, fallback) ==
    CASE raw = "none"    -> fallback
      [] raw = "invalid" -> 0
      [] raw = "smaller" -> IF fallback > 1 THEN fallback - 1 ELSE fallback
      [] raw = "larger"  -> fallback

Parameters == {"none", "invalid", "smaller", "larger"}

\* handleTrendingRepos, handleRecentEvents: one query of Redis, or 400.
handleRealtime(r) ==
    /\ UNCHANGED metrics
    /\ \E raw \in Parameters :
           IF parseLimit(raw, cfg["TrendingLimit"]) > 0
           THEN Goto(r, "reading") /\ UNCHANGED code
           ELSE Answer(r, 400)

\* handleTrendingReposStream, handleRecentEventsStream.
handleStream(r) ==
    \E raw \in Parameters :
        IF parseLimit(raw, cfg["TrendingLimit"]) > 0
        THEN /\ metrics' = [metrics EXCEPT !["sseConnections"] = @ + 1,
                                           !["sseActive"] = @ + 1]
             /\ Goto(r, "streaming")
             /\ UNCHANGED code
        ELSE Answer(r, 400) /\ UNCHANGED metrics

\* handleRepoHistory, handleHistoricalTrendingRepos, handleHistoryWindows;
\* a path without owner and repository is refused as an invalid limit is.
handleHistory(r) ==
    IF ~history THEN Answer(r, 503) /\ UNCHANGED metrics
    ELSE \E raw \in Parameters :
             IF parseLimit(raw, cfg["TrendingLimit"]) > 0
             THEN /\ Add("historyQueries")
                  /\ Goto(r, "asking")
                  /\ UNCHANGED code
             ELSE Answer(r, 400) /\ UNCHANGED metrics

\* The request is read and dispatched.
Handle(r) ==
    /\ Alive
    /\ at[r] = "accepted"
    /\ \/ handleLive(r)
       \/ handleReady(r)
       \/ service = "consumer" /\ (handleRealtime(r) \/ handleStream(r)
                                    \/ handleHistory(r))
    /\ UNCHANGED <<mainVars, served>>

\* The ingestor is ready; the consumer asks Redis first.
ReadyReturns(r) ==
    /\ Alive
    /\ at[r] = "ready"
    /\ \/ Answer(r, 200)
       \/ service = "consumer" /\ Answer(r, 503)
    /\ UNCHANGED <<mainVars, metrics, served>>

RealtimeReturns(r) ==
    /\ Alive
    /\ at[r] = "reading"
    /\ \E status \in {200, 500} : Answer(r, status)
    /\ UNCHANGED <<mainVars, metrics, served>>

\* Mutant of StreamEnds: RecordSSEDisconnected in the select only.
StreamEndsUncounted(r) ==
    /\ Alive
    /\ at[r] = "streaming"
    /\ \/ metrics' = [metrics EXCEPT !["sseActive"] = @ - 1]
       \/ UNCHANGED metrics
    /\ Answer(r, 200)
    /\ UNCHANGED <<mainVars, served>>

\* Mutant of StreamEnds: the end of ?once=true is counted, and the deferred call.
StreamEndsTwice(r) ==
    /\ Alive
    /\ at[r] = "streaming"
    /\ \E ends \in {1, 2} :
           metrics' = [metrics EXCEPT !["sseActive"] = @ - ends]
    /\ Answer(r, 200)
    /\ UNCHANGED <<mainVars, served>>

\* With ?once=true, or when the client leaves: nothing else ends a stream,
\* and an error of Redis is an event in it.
StreamEnds(r) ==
    /\ Alive
    /\ at[r] = "streaming"
    /\ metrics' = [metrics EXCEPT !["sseActive"] = @ - 1]
    /\ Answer(r, 200)
    /\ UNCHANGED <<mainVars, served>>

\* PostgreSQL answers, or the query fails, with or without a connection.
HistoryReturns(r) ==
    /\ Alive
    /\ \/ at[r] = "holding" /\ Answer(r, 200) /\ UNCHANGED metrics
       \/ /\ at[r] \in {"asking", "holding"}
          /\ Answer(r, 500)
          /\ Add("historyFailures")
    /\ UNCHANGED <<mainVars, served>>

\* RecordAPIRequest, which adds twice for a 5xx. The recorder of the next
\* request begins with 200.
RecordAPIRequest(r) ==
    /\ Alive
    /\ at[r] = "answered"
    /\ Add("apiRequests")
    /\ Goto(r, IF code[r] >= 500 THEN "failed" ELSE "absent")
    /\ code' = [code EXCEPT ![r] = 200]
    /\ UNCHANGED <<mainVars, served>>

RecordAPIError(r) ==
    /\ Alive
    /\ at[r] = "failed"
    /\ Add("apiErrors")
    /\ Goto(r, "absent")
    /\ UNCHANGED <<mainVars, code, served>>

-----------------------------------------------------------------------------

\* The process is gone.
Terminated == main \in {"exited", "panicked"} /\ UNCHANGED vars

Next ==
    \/ Main
    \/ Signal \/ Listen \/ LoopBegins \/ LoopEnds
    \/ \E w \in Workers : Work(w) \/ WorkerReturns(w)
    \/ \E c \in Clients : Acquire(c)
    \/ \E r \in Requests :
           \/ Accept(r) \/ Handle(r)
           \/ ReadyReturns(r) \/ RealtimeReturns(r)
           \/ StreamEnds(r) \/ HistoryReturns(r)
           \/ RecordAPIRequest(r) \/ RecordAPIError(r)
    \/ Terminated

Spec == Init /\ [][Next]_vars

\* main runs, the timer of Shutdown ends, the clients of Kafka close within
\* their own timeouts, and whoever has a connection of PostgreSQL gets an
\* answer on it. Nothing makes a client leave or a request come.
FairSpec ==
    /\ Spec
    /\ WF_vars(Main)
    /\ \A w \in Workers : WF_vars(at[w] = "holding" /\ WorkerReturns(w))
    /\ \A r \in Requests : WF_vars(at[r] = "holding" /\ HistoryReturns(r))
=============================================================================
