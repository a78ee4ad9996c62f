-------------------------- MODULE ServiceProperties --------------------------
(***************************************************************************)
(* What a process of the consumer or the ingestor promises from its start  *)
(* to its end: to Kubernetes and clients by its answers, to PostgreSQL by  *)
(* the order in which it closes, to Prometheus by its counters.            *)
(***************************************************************************)
EXTENDS Service

Phases == {"load", "connect", "serve", "start", "launch", "running", "leaving",
           "stopping", "waiting", "closing", "disconnecting", "draining",
           "ending", "exited", "panicked"}

WorkerSteps == {"absent", "idle", "asking", "holding"}

RequestSteps == {"absent", "accepted", "ready", "reading", "streaming",
                 "asking", "holding", "answered", "failed"}

\* Every variable has its type, and the pool never has more connections out
\* than it may have.
ServiceTypeOK ==
    /\ service \in {"consumer", "ingestor"}
    /\ main \in Phases
    /\ signalled \in BOOLEAN /\ ready \in BOOLEAN /\ history \in BOOLEAN
    /\ http \in {"off", "opening", "listening", "failed", "closed"}
    /\ loop \in {"off", "starting", "running", "ended"}
    /\ pool \in {"none", "open", "closed"}
    /\ at \in [Clients -> WorkerSteps \union RequestSteps]
    /\ \A w \in Workers : at[w] \in WorkerSteps
    /\ \A r \in Requests : at[r] \in RequestSteps
    /\ Cardinality(Holders) <= PoolSize
    /\ code \in [Requests -> {200, 400, 500, 503}]
    /\ metrics \in [Counters -> Nat]
    /\ served \in 0..MaxServed

-----------------------------------------------------------------------------
(* The configuration.                                                      *)

\* No text of the environment, however it is written, too long or out of the
\* range of int64, brings a process to a panic that a client could see. Load
\* refuses what time.NewTicker and kafka.NewReader panic on, which run behind
\* the listener; it does not refuse a queue that make cannot allocate, but the
\* queue is made before the listener is there.
PanicsBeforeItListens == main = "panicked" => http = "off"

-----------------------------------------------------------------------------
(* Requests.                                                               *)

\* docs/postgres-analytics.md:49, "Historical APIs return 503 when persistence
\* is disabled and 500 for query errors": whatever went wrong while PostgreSQL
\* was tried at startup, no handler and no worker asks a closed pool for a
\* connection until main, at its end, has closed it.
NoOneAsksAClosedPool ==
    (\E c \in Clients : at[c] \in {"asking", "holding"}) =>
        pool = "open" \/ main \in {"draining", "ending", "exited"}

\* A /ready that finds the service ready, also one that was accepted before,
\* finds it between the start of the listener and Shutdown, with PostgreSQL
\* open if there is history. (It may find it ready after the select of main has
\* ended, until SetReady(false).)
ReadyMeansServing ==
    [][\A r \in Requests :
           (at[r] # "ready" /\ at'[r] = "ready") =>
               http \notin {"off", "closed"} /\ (history => pool = "open")]_vars

\* The counters of the handlers add up whenever no request is at hand, however
\* the handlers ran into each other: every request is counted once, every open
\* stream has been counted down, and each failed query of PostgreSQL is one of
\* the counted errors.
HandlerCountersAddUp ==
    (\A r \in Requests : at[r] = "absent") =>
        /\ metrics["apiRequests"] = served
        /\ metrics["sseActive"] = 0
        /\ metrics["historyFailures"] <= metrics["apiErrors"]
        /\ metrics["historyQueries"] + metrics["sseConnections"] <= served
        /\ metrics["apiErrors"] <= served - metrics["sseConnections"]

-----------------------------------------------------------------------------
(* The end.                                                                *)

\* The process never ends under a transaction or a query: when main returns,
\* every connection is back in the pool and nobody can take one any more.
\* Requests that outlived the timeout of Shutdown included.
ConnectionsReturnedByExit ==
    (main \in {"ending", "exited"}) => Holders = {} /\ pool # "open"

\* A process that is told to stop, whose listener fails or whose loop ends
\* goes: a stream whose client stays, a worker that goes on with the queue
\* and a handler that waits for a connection do not keep it. Under FairSpec.
StopsWhenItShould ==
    (Alive /\ (signalled \/ http = "failed" \/ loop = "ended"))
        ~> (main \in {"exited", "panicked"})
=============================================================================
