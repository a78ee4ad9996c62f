---------------------------- MODULE ServiceProofs ----------------------------
(***************************************************************************)
(* What a process promises at its start, while it runs and at its end,     *)
(* for every number of workers, clients and connections and every set of   *)
(* environments.                                                           *)
(***************************************************************************)
EXTENDS ServiceProperties, FiniteSetTheorems, TLAPS

-----------------------------------------------------------------------------
(* The inductive invariant.                                                *)

Closed == {"draining", "ending", "exited"}

\* Before the listener is asked for, and before anybody connects, nobody runs.
QuietStart ==
    /\ main \in {"load", "connect"} =>
           /\ pool = "none" /\ ~history
           /\ \A w \in Workers : at[w] = "absent"
    /\ main \in {"load", "connect", "serve"} => http = "off"
    /\ http \in {"off", "opening"} => \A r \in Requests : at[r] = "absent"

\* Whoever may ask the pool for a connection finds it open until main has
\* closed it.
PoolInHand ==
    /\ history => pool = "open" \/ main \in Closed
    /\ \A w \in Workers : at[w] # "absent" => pool = "open" \/ main \in Closed
    /\ \A r \in Requests : at[r] \in {"asking", "holding"} => history

\* What main has closed stays closed and empty.
Drained ==
    /\ main \in Closed => pool # "open"
    /\ main \in {"ending", "exited"} => Holders = {}

\* The listener is there from the step in which readiness is announced to
\* the one that takes it back.
ReadyIsRunning ==
    /\ ready => main \in {"launch", "running", "leaving"}
    /\ main \in {"start", "launch", "running", "leaving"} =>
           http \notin {"off", "closed"}

\* What Load has let through.
Validated == Alive => Validate(cfg)

\* The requests that a counter is still to meet.
Uncounted == {r \in Requests : at[r] \notin {"absent", "failed"}}

Accepted == {r \in Requests : at[r] = "accepted"}

Streams == {r \in Requests : at[r] = "streaming"}

Errors == {r \in Requests : at[r] = "failed"
                               \/ (at[r] = "answered" /\ code[r] >= 500)}

MayFail == {r \in Requests : r \in Errors
                \/ at[r] \in {"accepted", "ready", "reading", "asking", "holding"}}

CountersMeet ==
    /\ metrics["apiRequests"] + Cardinality(Uncounted) = served
    /\ metrics["sseActive"] = Cardinality(Streams)
    /\ metrics["historyFailures"] <= metrics["apiErrors"] + Cardinality(Errors)
    /\ metrics["historyQueries"] + metrics["sseConnections"]
           + Cardinality(Accepted) <= served
    /\ metrics["apiErrors"] + metrics["sseConnections"]
           + Cardinality(MayFail) <= served

ServiceInv ==
    ServiceTypeOK /\ Validated /\ PanicsBeforeItListens /\ QuietStart
        /\ PoolInHand /\ Drained /\ ReadyIsRunning /\ CountersMeet

\* Load accepts nothing that time.NewTicker or kafka.NewReader panic on.
LEMMA NoLatePanic ==
  ASSUME Validate(cfg)
  PROVE  ReaderConfigured /\ cfg["PollInterval"] > 0
BY DEF Validate, ReaderConfigured, Durations

-----------------------------------------------------------------------------

LEMMA ClientsFinite == IsFiniteSet(Clients) /\ Workers \cap Requests = {}
  BY ServiceAssumption, FS_Union DEF Clients

\* Whoever gets the last free connection is the last one.
LEMMA OneMoreHolder ==
  ASSUME at \in [Clients -> WorkerSteps \union RequestSteps],
         NEW c \in Clients,
         Cardinality(Holders) < PoolSize,
         at' = [at EXCEPT ![c] = "holding"]
  PROVE  Cardinality(Holders') <= PoolSize
<1>1. IsFiniteSet(Holders)
  BY ClientsFinite, FS_Subset DEF Holders
<1>2. Holders' \subseteq Holders \union {c}
  BY DEF Holders
<1>3. /\ IsFiniteSet(Holders \union {c})
      /\ \/ Cardinality(Holders \union {c}) = Cardinality(Holders)
         \/ Cardinality(Holders \union {c}) = Cardinality(Holders) + 1
  BY <1>1, FS_AddElement
<1>4. IsFiniteSet(Holders') /\ Cardinality(Holders') <= Cardinality(Holders \union {c})
  BY <1>2, <1>3, FS_Subset
<1>5. /\ Cardinality(Holders) \in Nat
      /\ Cardinality(Holders \union {c}) \in Nat
      /\ Cardinality(Holders') \in Nat
  BY <1>1, <1>3, <1>4, FS_CardinalityType
<1> QED
  BY <1>3, <1>4, <1>5, ServiceAssumption

\* Nobody new has a connection.
LEMMA NoMoreHolders ==
  ASSUME Holders' \subseteq Holders, Cardinality(Holders) <= PoolSize
  PROVE  Cardinality(Holders') <= PoolSize
<1>1. IsFiniteSet(Holders)
  BY ClientsFinite, FS_Subset DEF Holders
<1>2. /\ Cardinality(Holders') <= Cardinality(Holders)
      /\ Cardinality(Holders) \in Nat /\ Cardinality(Holders') \in Nat
  BY <1>1, FS_Subset, FS_CardinalityType
<1> QED
  BY <1>2, ServiceAssumption

\* Of two finite sets that agree but for one element.
Moved(S, T, r) ==
    /\ Cardinality(S) \in Nat /\ Cardinality(T) \in Nat
    /\ (r \in S <=> r \in T) => Cardinality(T) = Cardinality(S)
    /\ (r \notin S /\ r \in T) => Cardinality(T) = Cardinality(S) + 1
    /\ (r \in S /\ r \notin T) => Cardinality(S) = Cardinality(T) + 1

LEMMA OneElement ==
  ASSUME NEW S, NEW T, NEW r, IsFiniteSet(S), S \ {r} = T \ {r}
  PROVE  Moved(S, T, r)
<1>1. T \subseteq S \union {r}
  OBVIOUS
<1>2. IsFiniteSet(T)
  BY <1>1, FS_AddElement, FS_Subset
<1>3. Cardinality(S) \in Nat /\ Cardinality(T) \in Nat
  BY <1>2, FS_CardinalityType
<1>4. CASE r \in S <=> r \in T
  <2>1. S = T
    BY <1>4
  <2> QED
    BY <1>3, <1>4, <2>1 DEF Moved
<1>5. CASE r \notin S /\ r \in T
  <2>1. T = S \union {r}
    BY <1>5
  <2> QED
    BY <1>3, <1>5, <2>1, FS_AddElement DEF Moved
<1>6. CASE r \in S /\ r \notin T
  <2>1. S = T \union {r}
    BY <1>6
  <2>2. Cardinality(S) = Cardinality(T) + 1
    BY <1>2, <1>6, <2>1, FS_AddElement
  <2> QED
    BY <1>3, <1>6, <2>2 DEF Moved
<1> QED
  BY <1>4, <1>5, <1>6

\* One request moves: each set gains it, loses it or stays as it is.
LEMMA OneRequestMoves ==
  ASSUME NEW r,
         \A q \in Requests \ {r} : at'[q] = at[q] /\ code'[q] = code[q]
  PROVE  /\ Uncounted \ {r} = Uncounted' \ {r} /\ IsFiniteSet(Uncounted)
         /\ Accepted \ {r} = Accepted' \ {r} /\ IsFiniteSet(Accepted)
         /\ Streams \ {r} = Streams' \ {r} /\ IsFiniteSet(Streams)
         /\ Errors \ {r} = Errors' \ {r} /\ IsFiniteSet(Errors)
         /\ MayFail \ {r} = MayFail' \ {r} /\ IsFiniteSet(MayFail)
<1>1. IsFiniteSet(Requests)
  BY ServiceAssumption
<1>2. /\ IsFiniteSet(Uncounted) /\ IsFiniteSet(Accepted) /\ IsFiniteSet(Streams)
      /\ IsFiniteSet(Errors) /\ IsFiniteSet(MayFail)
  BY <1>1, FS_Subset DEF Uncounted, Accepted, Streams, Errors, MayFail
<1>3. Uncounted \ {r} = Uncounted' \ {r} /\ Accepted \ {r} = Accepted' \ {r}
  BY DEF Uncounted, Accepted
<1>4. Streams \ {r} = Streams' \ {r}
  BY DEF Streams
<1>5. Errors \ {r} = Errors' \ {r}
  BY DEF Errors
<1>6. MayFail \ {r} = MayFail' \ {r}
  BY <1>5 DEF MayFail
<1> QED
  BY <1>2, <1>3, <1>4, <1>5, <1>6

\* The same for the five numbers.
LEMMA CountsMove ==
  ASSUME NEW r,
         \A q \in Requests \ {r} : at'[q] = at[q] /\ code'[q] = code[q]
  PROVE  /\ Moved(Uncounted, Uncounted', r)
         /\ Moved(Accepted, Accepted', r)
         /\ Moved(Streams, Streams', r)
         /\ Moved(Errors, Errors', r)
         /\ Moved(MayFail, MayFail', r)
<1>1. /\ Uncounted \ {r} = Uncounted' \ {r} /\ IsFiniteSet(Uncounted)
      /\ Accepted \ {r} = Accepted' \ {r} /\ IsFiniteSet(Accepted)
      /\ Streams \ {r} = Streams' \ {r} /\ IsFiniteSet(Streams)
      /\ Errors \ {r} = Errors' \ {r} /\ IsFiniteSet(Errors)
      /\ MayFail \ {r} = MayFail' \ {r} /\ IsFiniteSet(MayFail)
  BY OneRequestMoves
<1>2. Moved(Uncounted, Uncounted', r)
  BY <1>1, OneElement
<1>3. Moved(Accepted, Accepted', r)
  BY <1>1, OneElement
<1>4. Moved(Streams, Streams', r)
  BY <1>1, OneElement
<1>5. Moved(Errors, Errors', r)
  BY <1>1, OneElement
<1>6. Moved(MayFail, MayFail', r)
  BY <1>1, OneElement
<1> QED
  BY <1>2, <1>3, <1>4, <1>5, <1>6

\* Steps that leave the requests and their counters alone.
LEMMA CountersKept ==
  ASSUME CountersMeet, metrics \in [Counters -> Nat],
         \A q \in Requests : at'[q] = at[q] /\ code'[q] = code[q],
         served' = served,
         \A c \in Counters \ {"replayOperations"} : metrics'[c] = metrics[c]
  PROVE  CountersMeet'
<1>1. Uncounted' = Uncounted /\ Accepted' = Accepted /\ Streams' = Streams
  BY DEF Uncounted, Accepted, Streams
<1>2. Errors' = Errors
  BY DEF Errors
<1>3. MayFail' = MayFail
  BY <1>2 DEF MayFail
<1>4. /\ metrics'["apiRequests"] = metrics["apiRequests"]
      /\ metrics'["apiErrors"] = metrics["apiErrors"]
      /\ metrics'["historyQueries"] = metrics["historyQueries"]
      /\ metrics'["historyFailures"] = metrics["historyFailures"]
      /\ metrics'["sseConnections"] = metrics["sseConnections"]
      /\ metrics'["sseActive"] = metrics["sseActive"]
  BY DEF Counters
<1> QED
  BY <1>1, <1>2, <1>3, <1>4 DEF CountersMeet

-----------------------------------------------------------------------------
(* The invariant holds at the start and with every step.                   *)

LEMMA ServiceStarts == Init => ServiceInv
<1> SUFFICES ASSUME Init PROVE ServiceInv
  OBVIOUS
<1> USE ServiceAssumption
<1>1. /\ Holders = {} /\ Uncounted = {} /\ Accepted = {} /\ Streams = {}
      /\ Errors = {} /\ MayFail = {}
  BY DEF Init, Holders, Uncounted, Accepted, Streams, Errors, MayFail, Clients
<1>2. Cardinality({}) = 0
  BY FS_EmptySet
<1>3. ServiceTypeOK
  <2>1. signalled \in BOOLEAN /\ ready \in BOOLEAN /\ history \in BOOLEAN
    BY DEF Init
  <2>2. Cardinality(Holders) <= PoolSize
    BY <1>1, <1>2
  <2>3. /\ at \in [Clients -> WorkerSteps \union RequestSteps]
        /\ \A w \in Workers : at[w] \in WorkerSteps
        /\ \A r \in Requests : at[r] \in RequestSteps
    BY DEF Init, Clients, WorkerSteps, RequestSteps
  <2>4. metrics \in [Counters -> Nat] /\ served \in 0..MaxServed
    BY DEF Init
  <2>5. code \in [Requests -> {200, 400, 500, 503}]
    BY DEF Init
  <2> QED
    BY <2>1, <2>2, <2>3, <2>4, <2>5 DEF Init, ServiceTypeOK, Phases
<1>4. /\ Validated /\ PanicsBeforeItListens /\ QuietStart /\ PoolInHand
      /\ ReadyIsRunning
  BY DEF Init, Validated, Alive, PanicsBeforeItListens, QuietStart, PoolInHand,
     ReadyIsRunning, Clients
<1>5. Drained
  BY <1>1 DEF Init, Drained, Closed
<1>6. CountersMeet
  BY <1>1, <1>2 DEF Init, CountersMeet, Counters
<1> QED
  BY <1>3, <1>4, <1>5, <1>6 DEF ServiceInv

\* The steps of main and around it that leave every client alone.
LEMMA ClientsLeftAlone ==
  ASSUME ServiceInv, UNCHANGED clientVars
  PROVE  Holders' = Holders /\ CountersMeet'
<1>1. Holders' = Holders
  BY DEF clientVars, Holders
<1>2. CountersMeet'
  <2>1. CountersMeet /\ metrics \in [Counters -> Nat]
    BY DEF ServiceInv, ServiceTypeOK
  <2> QED
    BY <2>1, CountersKept DEF clientVars
<1> QED
  BY <1>1, <1>2

LEMMA ClientTypesKept ==
  ASSUME ServiceInv, UNCHANGED clientVars
  PROVE  /\ at' \in [Clients -> WorkerSteps \union RequestSteps]
         /\ \A w \in Workers : at'[w] \in WorkerSteps
         /\ \A r \in Requests : at'[r] \in RequestSteps
         /\ Cardinality(Holders') <= PoolSize
         /\ code' \in [Requests -> {200, 400, 500, 503}]
         /\ metrics' \in [Counters -> Nat]
         /\ served' \in 0..MaxServed
<1>1. Holders' = Holders
  BY ClientsLeftAlone
<1> QED
  BY <1>1 DEF ServiceInv, ServiceTypeOK, clientVars

LEMMA LoadPreserves ==
  ASSUME ServiceInv, LoadConfig
  PROVE  ServiceInv'
<1>1. Holders' = Holders /\ CountersMeet'
  BY ClientsLeftAlone DEF LoadConfig
<1>2. ServiceTypeOK' /\ main' \in {"connect", "serve", "exited"}
  BY <1>1 DEF ServiceInv, ServiceTypeOK, LoadConfig, clientVars, Phases
<1>3. Validated' /\ PanicsBeforeItListens'
  BY <1>2 DEF LoadConfig, Validated, Alive, PanicsBeforeItListens
<1>4. QuietStart' /\ PoolInHand' /\ ReadyIsRunning'
  BY <1>2 DEF ServiceInv, LoadConfig, clientVars, QuietStart, PoolInHand,
     ReadyIsRunning
<1>5. Drained'
  <2>1. pool' = "none" /\ Holders = {}
    BY ClientsFinite DEF ServiceInv, LoadConfig, QuietStart, Holders, Clients
  <2> QED
    BY <1>1, <2>1 DEF Drained
<1> QED
  BY <1>1, <1>2, <1>3, <1>4, <1>5 DEF ServiceInv

LEMMA ConnectPreserves ==
  ASSUME ServiceInv, Connect
  PROVE  ServiceInv'
<1>1. \A r \in Requests : at'[r] = at[r] /\ at[r] = "absent"
  BY ClientsFinite DEF ServiceInv, ServiceTypeOK, QuietStart, Connect, Connected,
     SchemaFails, Clients
<1>2. at' \in [Clients -> WorkerSteps \union RequestSteps]
  BY DEF ServiceInv, ServiceTypeOK, Connect, Connected, SchemaFails, WorkerSteps
<1>3. \A w \in Workers : at'[w] \in {"absent", "idle"}
  BY DEF ServiceInv, ServiceTypeOK, QuietStart, Connect, Connected,
     SchemaFails, Clients
<1>4. Holders' = {}
  BY <1>1, <1>3 DEF Holders, Clients
<1>5. metrics' \in [Counters -> Nat]
  BY DEF ServiceInv, ServiceTypeOK, Connect, RecordReplayOperation, Counters
<1>6. ServiceTypeOK'
  <2>1. Cardinality(Holders') <= PoolSize
    BY <1>4, FS_EmptySet, ServiceAssumption
  <2>2. /\ main' \in Phases /\ pool' \in {"none", "open", "closed"}
        /\ http' = http /\ loop' = loop /\ service' = service
        /\ code' = code /\ served' = served
    BY DEF ServiceInv, ServiceTypeOK, Connect, Connected, SchemaFails, Phases
  <2>3. signalled' \in BOOLEAN /\ ready' \in BOOLEAN /\ history' \in BOOLEAN
    BY DEF ServiceInv, ServiceTypeOK, Connect, Connected, SchemaFails
  <2>4. /\ \A w \in Workers : at'[w] \in WorkerSteps
        /\ \A r \in Requests : at'[r] \in RequestSteps
    BY <1>1, <1>3 DEF WorkerSteps, RequestSteps
  <2> QED
    BY <1>2, <1>5, <2>1, <2>2, <2>3, <2>4 DEF ServiceInv, ServiceTypeOK
<1>7. Validated' /\ PanicsBeforeItListens' /\ ReadyIsRunning'
  BY DEF ServiceInv, Connect, Validated, Alive, PanicsBeforeItListens,
     QuietStart, ReadyIsRunning
<1>8. QuietStart'
  BY <1>1 DEF ServiceInv, Connect, QuietStart
<1>9. PoolInHand'
  BY <1>1 DEF ServiceInv, Connect, Connected, SchemaFails, QuietStart, PoolInHand
<1>10. Drained'
  BY DEF Connect, Drained, Closed
<1>11. CountersMeet'
  <2>1. CountersMeet /\ metrics \in [Counters -> Nat]
    BY DEF ServiceInv, ServiceTypeOK
  <2>2. /\ served' = served
        /\ \A r \in Requests : at'[r] = at[r] /\ code'[r] = code[r]
        /\ \A c \in Counters \ {"replayOperations"} : metrics'[c] = metrics[c]
    BY <1>1, <2>1 DEF Connect, RecordReplayOperation
  <2> QED
    BY <2>1, <2>2, CountersKept
<1> QED
  BY <1>6, <1>7, <1>8, <1>9, <1>10, <1>11 DEF ServiceInv

LEMMA ServePreserves ==
  ASSUME ServiceInv,
         Serve \/ Start \/ Launch \/ LeaveSelect \/ Stop \/ Shutdown
               \/ ShutdownReturns \/ CloseKafka
  PROVE  ServiceInv'
<1> USE DEF Serve, Launch, LeaveSelect, Stop, Shutdown, ShutdownReturns,
       CloseKafka, besideMain
<1>0. Start => /\ main = "start" /\ ready' = TRUE /\ main' = "launch"
               /\ UNCHANGED <<service, cfg, signalled, http, loop, history,
                              pool, clientVars>>
  BY NoLatePanic DEF ServiceInv, Validated, Alive, Start
<1>1. Holders' = Holders /\ CountersMeet'
  BY <1>0, ClientsLeftAlone
<1>2. ServiceTypeOK'
  <2>1. signalled' \in BOOLEAN /\ ready' \in BOOLEAN /\ history' \in BOOLEAN
    BY <1>0 DEF ServiceInv, ServiceTypeOK
  <2>2. /\ http' \in {"off", "opening", "listening", "failed", "closed"}
        /\ loop' \in {"off", "starting", "running", "ended"}
        /\ main' \in Phases /\ service' \in {"consumer", "ingestor"}
        /\ pool' \in {"none", "open", "closed"}
    BY <1>0 DEF ServiceInv, ServiceTypeOK, Phases
  <2>3. UNCHANGED clientVars
    BY <1>0
  <2> QED
    BY <2>1, <2>2, <2>3, ClientTypesKept, SMTT(30) DEF ServiceTypeOK
<1>3. /\ main' \in {"start", "launch", "running", "leaving", "stopping",
                    "waiting", "closing", "disconnecting"}
      /\ main \notin {"load", "exited", "panicked"} \union Closed
      /\ UNCHANGED <<cfg, pool, history, at>>
  BY <1>0 DEF clientVars, Closed
<1>4. Validated' /\ PanicsBeforeItListens' /\ PoolInHand' /\ Drained'
  BY <1>3 DEF ServiceInv, Validated, Alive, PanicsBeforeItListens, PoolInHand,
     Drained, Closed
<1>5. QuietStart' /\ ReadyIsRunning'
  BY <1>0, <1>3 DEF ServiceInv, QuietStart, ReadyIsRunning
<1> QED
  BY <1>1, <1>2, <1>4, <1>5 DEF ServiceInv

LEMMA ClosePreserves ==
  ASSUME ServiceInv, ClosePool \/ PoolDrained \/ Exit
  PROVE  ServiceInv'
<1>1. Holders' = Holders /\ CountersMeet'
  BY ClientsLeftAlone DEF ClosePool, PoolDrained, Exit, besideMain
<1>2. ServiceTypeOK'
  BY <1>1 DEF ServiceInv, ServiceTypeOK, ClosePool, PoolDrained, Exit,
     besideMain, clientVars, Phases
<1>3. /\ main' \in Closed /\ main \in {"disconnecting", "draining", "ending"}
      /\ UNCHANGED <<cfg, http, ready, history, at>>
  BY DEF ClosePool, PoolDrained, Exit, besideMain, clientVars, Closed
<1>4. /\ Validated' /\ PanicsBeforeItListens' /\ QuietStart' /\ PoolInHand'
      /\ ReadyIsRunning'
  BY <1>3 DEF ServiceInv, Validated, Alive, PanicsBeforeItListens, QuietStart,
     PoolInHand, ReadyIsRunning, Closed
<1>5. Drained'
  BY <1>1 DEF ServiceInv, Drained, Closed, ClosePool, PoolDrained, Exit, besideMain
<1> QED
  BY <1>1, <1>2, <1>4, <1>5 DEF ServiceInv

LEMMA AroundPreserves ==
  ASSUME ServiceInv, Signal \/ Listen \/ LoopBegins \/ LoopEnds
  PROVE  ServiceInv'
<1> USE DEF Signal, Listen, LoopEnds
<1>0. LoopBegins => /\ Alive /\ loop' = "running"
                    /\ UNCHANGED <<service, main, cfg, signalled, http, ready,
                                   history, pool, clientVars>>
  BY NoLatePanic, SMT DEF ServiceInv, Validated, LoopBegins
<1>1. Holders' = Holders /\ CountersMeet'
  BY <1>0, ClientsLeftAlone
<1>2. ServiceTypeOK'
  <2>1. signalled' \in BOOLEAN /\ ready' \in BOOLEAN /\ history' \in BOOLEAN
    BY <1>0 DEF ServiceInv, ServiceTypeOK
  <2>2. /\ http' \in {"off", "opening", "listening", "failed", "closed"}
        /\ loop' \in {"off", "starting", "running", "ended"}
        /\ service' = service /\ main' = main /\ pool' = pool
    BY <1>0 DEF ServiceInv, ServiceTypeOK
  <2>3. UNCHANGED clientVars
    BY <1>0
  <2> QED
    BY <2>1, <2>2, <2>3, ClientTypesKept, SMTT(30)
    DEF ServiceInv, ServiceTypeOK
<1>3. /\ UNCHANGED <<main, cfg, ready, history, pool, at>> /\ Alive
      /\ http = "off" <=> http' = "off"
      /\ http = "closed" <=> http' = "closed"
      /\ http' = "opening" => http = "opening"
  BY <1>0 DEF clientVars
<1>4. Validated' /\ PanicsBeforeItListens' /\ PoolInHand' /\ ReadyIsRunning'
  BY <1>3 DEF ServiceInv, Validated, Alive, PanicsBeforeItListens, PoolInHand,
     ReadyIsRunning
<1>5. QuietStart'
  BY <1>0, <1>3 DEF ServiceInv, QuietStart
<1>6. Drained'
  BY <1>1, <1>3 DEF ServiceInv, Drained
<1> QED
  BY <1>1, <1>2, <1>4, <1>5, <1>6 DEF ServiceInv

-----------------------------------------------------------------------------
(* The steps of the clients.                                               *)

\* main and its variables stay as they are and nobody gets a connection.
LEMMA MainLeftAlone ==
  ASSUME ServiceInv, UNCHANGED mainVars, Holders' \subseteq Holders
  PROVE  /\ Validated' /\ PanicsBeforeItListens' /\ Drained' /\ ReadyIsRunning'
         /\ Cardinality(Holders') <= PoolSize
<1>1. UNCHANGED <<main, cfg, http, ready, pool>>
  BY DEF mainVars
<1>2. Validated' /\ PanicsBeforeItListens' /\ Drained' /\ ReadyIsRunning'
  BY <1>1 DEF ServiceInv, Validated, Alive, PanicsBeforeItListens, Drained,
     ReadyIsRunning
<1>3. Cardinality(Holders') <= PoolSize
  BY NoMoreHolders DEF ServiceInv, ServiceTypeOK
<1> QED
  BY <1>2, <1>3

\* The types of the variables of main.
LEMMA MainTypesKept ==
  ASSUME ServiceTypeOK, UNCHANGED mainVars,
         at' \in [Clients -> WorkerSteps \union RequestSteps],
         \A w \in Workers : at'[w] \in WorkerSteps,
         \A q \in Requests : at'[q] \in RequestSteps,
         Cardinality(Holders') <= PoolSize,
         code' \in [Requests -> {200, 400, 500, 503}],
         metrics' \in [Counters -> Nat],
         served' \in 0..MaxServed
  PROVE  ServiceTypeOK'
<1>1. signalled' \in BOOLEAN /\ ready' \in BOOLEAN /\ history' \in BOOLEAN
  BY DEF ServiceTypeOK, mainVars
<1>2. /\ main' = main /\ http' = http /\ loop' = loop /\ pool' = pool
      /\ service' = service
  BY DEF mainVars
<1> QED
  BY <1>1, <1>2 DEF ServiceTypeOK

LEMMA WorkerPreserves ==
  ASSUME ServiceInv, NEW w \in Workers, Work(w) \/ WorkerReturns(w)
  PROVE  ServiceInv'
<1>1. /\ UNCHANGED <<mainVars, code, metrics, served>>
      /\ at[w] # "absent"
      /\ \E next \in WorkerSteps \ {"holding"} : at' = [at EXCEPT ![w] = next]
  BY DEF Work, WorkerReturns, Goto, WorkerSteps
<1>2. at \in [Clients -> WorkerSteps \union RequestSteps] /\ w \in Clients
  BY DEF ServiceInv, ServiceTypeOK, Clients
<1>3. /\ at' \in [Clients -> WorkerSteps \union RequestSteps]
      /\ at'[w] \in WorkerSteps \ {"holding"}
      /\ \A c \in Clients \ {w} : at'[c] = at[c]
  BY <1>1, <1>2
<1>4. \A r \in Requests : at'[r] = at[r]
  BY <1>3, ClientsFinite DEF Clients
<1>5. Holders' \subseteq Holders
  BY <1>3 DEF Holders
<1>6. /\ Validated' /\ PanicsBeforeItListens' /\ Drained' /\ ReadyIsRunning'
      /\ Cardinality(Holders') <= PoolSize
  BY <1>1, <1>5, MainLeftAlone
<1>7. ServiceTypeOK'
  <2>1. \A v \in Workers : at'[v] \in WorkerSteps
    BY <1>3 DEF ServiceInv, ServiceTypeOK, Clients
  <2>2. \A r \in Requests : at'[r] \in RequestSteps
    BY <1>4 DEF ServiceInv, ServiceTypeOK
  <2> QED
    BY <1>1, <1>3, <1>6, <2>1, <2>2, MainTypesKept DEF ServiceInv, ServiceTypeOK
<1>8. UNCHANGED <<main, http, history, pool>>
  BY <1>1 DEF mainVars
<1>9. QuietStart'
  BY <1>1, <1>4, <1>8 DEF ServiceInv, QuietStart
<1>10. PoolInHand'
  BY <1>1, <1>3, <1>4, <1>8 DEF ServiceInv, PoolInHand, Clients
<1>11. CountersMeet'
  BY <1>1, <1>4, CountersKept DEF ServiceInv, ServiceTypeOK
<1> QED
  BY <1>6, <1>7, <1>9, <1>10, <1>11 DEF ServiceInv

LEMMA AcquirePreserves ==
  ASSUME ServiceInv, NEW c \in Clients, Acquire(c)
  PROVE  ServiceInv'
<1>1. /\ UNCHANGED <<mainVars, code, metrics, served>>
      /\ at[c] = "asking" /\ at' = [at EXCEPT ![c] = "holding"]
      /\ pool = "open" /\ Cardinality(Holders) < PoolSize
  BY DEF Acquire, Goto
<1>2. at \in [Clients -> WorkerSteps \union RequestSteps]
  BY DEF ServiceInv, ServiceTypeOK
<1>3. /\ at' \in [Clients -> WorkerSteps \union RequestSteps]
      /\ at'[c] = "holding"
      /\ \A d \in Clients \ {c} : at'[d] = at[d]
  BY <1>1, <1>2 DEF WorkerSteps
<1>4. UNCHANGED <<main, http, cfg, ready, history, pool>>
  BY <1>1 DEF mainVars
<1>5. Validated' /\ PanicsBeforeItListens' /\ Drained' /\ ReadyIsRunning'
  BY <1>1, <1>4 DEF ServiceInv, Validated, Alive, PanicsBeforeItListens, Drained,
     ReadyIsRunning, Closed
<1>6. ServiceTypeOK'
  <2>1. Cardinality(Holders') <= PoolSize
    BY <1>1, <1>2, OneMoreHolder
  <2>2. \A w \in Workers : at'[w] \in WorkerSteps
    BY <1>3 DEF ServiceInv, ServiceTypeOK, Clients, WorkerSteps
  <2>3. \A r \in Requests : at'[r] \in RequestSteps
    BY <1>3 DEF ServiceInv, ServiceTypeOK, Clients, RequestSteps
  <2> QED
    BY <1>1, <1>3, <2>1, <2>2, <2>3, MainTypesKept DEF ServiceInv, ServiceTypeOK
<1>7. QuietStart' /\ PoolInHand'
  BY <1>1, <1>3, <1>4 DEF ServiceInv, QuietStart, PoolInHand, Clients
<1>8. CountersMeet'
  <2>1. /\ Uncounted' = Uncounted /\ Accepted' = Accepted /\ Streams' = Streams
        /\ Errors' = Errors
    BY <1>1, <1>3 DEF Uncounted, Accepted, Streams, Errors, Clients
  <2>2. MayFail' = MayFail
    BY <1>1, <1>3, <2>1 DEF MayFail, Clients
  <2> QED
    BY <1>1, <2>1, <2>2 DEF ServiceInv, CountersMeet
<1> QED
  BY <1>5, <1>6, <1>7, <1>8 DEF ServiceInv

\* A request that does not get a connection goes to next. What is left to each
\* action is CountersMeet.
LEMMA RequestMoves ==
  ASSUME ServiceInv, NEW r \in Requests, NEW next,
         next \in RequestSteps \ {"holding"},
         UNCHANGED mainVars, at' = [at EXCEPT ![r] = next],
         next = "asking" => history,
         at[r] # "absent" \/ http = "listening",
         code' \in [Requests -> {200, 400, 500, 503}],
         \A q \in Requests \ {r} : code'[q] = code[q],
         metrics' \in [Counters -> Nat],
         served' \in 0..MaxServed
  PROVE  /\ CountersMeet' => ServiceInv'
         /\ at'[r] = next
         /\ Moved(Uncounted, Uncounted', r) /\ Moved(Accepted, Accepted', r)
         /\ Moved(Streams, Streams', r) /\ Moved(Errors, Errors', r)
         /\ Moved(MayFail, MayFail', r)
<1>1. at \in [Clients -> WorkerSteps \union RequestSteps] /\ r \in Clients
  BY DEF ServiceInv, ServiceTypeOK, Clients
<1>2. /\ at' \in [Clients -> WorkerSteps \union RequestSteps]
      /\ at'[r] = next
      /\ \A c \in Clients \ {r} : at'[c] = at[c]
  BY <1>1
<1>3. \A w \in Workers : at'[w] = at[w]
  BY <1>2, ClientsFinite DEF Clients
<1>4. Holders' \subseteq Holders
  BY <1>2 DEF Holders
<1>5. /\ Validated' /\ PanicsBeforeItListens' /\ Drained' /\ ReadyIsRunning'
      /\ Cardinality(Holders') <= PoolSize
  BY <1>4, MainLeftAlone
<1>6. ServiceTypeOK'
  <2>1. \A w \in Workers : at'[w] \in WorkerSteps
    BY <1>3 DEF ServiceInv, ServiceTypeOK
  <2>2. \A q \in Requests : at'[q] \in RequestSteps
    BY <1>2 DEF ServiceInv, ServiceTypeOK, Clients
  <2> QED
    BY <1>2, <1>5, <2>1, <2>2, MainTypesKept DEF ServiceInv
<1>7. UNCHANGED <<main, http, history, pool>>
  BY DEF mainVars
<1>8. QuietStart'
  BY <1>3, <1>7 DEF ServiceInv, QuietStart
<1>9. PoolInHand'
  BY <1>2, <1>3, <1>7 DEF ServiceInv, PoolInHand, Clients
<1>10. \A q \in Requests \ {r} : at'[q] = at[q] /\ code'[q] = code[q]
  BY <1>2 DEF Clients
<1> QED
  BY <1>2, <1>5, <1>6, <1>8, <1>9, <1>10, CountsMove DEF ServiceInv

\* The types that each of the following steps starts from.
LEMMA RequestTypes ==
  ASSUME ServiceInv, NEW r \in Requests
  PROVE  /\ at[r] \in RequestSteps /\ code[r] \in {200, 400, 500, 503}
         /\ code \in [Requests -> {200, 400, 500, 503}]
         /\ metrics \in [Counters -> Nat] /\ served \in 0..MaxServed
         /\ \A c \in Counters : metrics[c] \in Nat
BY DEF ServiceInv, ServiceTypeOK

LEMMA AcceptPreserves ==
  ASSUME ServiceInv, NEW r \in Requests, Accept(r)
  PROVE  ServiceInv'
<1>1. /\ UNCHANGED <<mainVars, code, metrics>> /\ served' = served + 1
      /\ at[r] = "absent" /\ at' = [at EXCEPT ![r] = "accepted"]
      /\ served' \in 0..MaxServed /\ http = "listening"
  BY RequestTypes, ServiceAssumption DEF Accept, Goto
<1>2. /\ CountersMeet' => ServiceInv'
      /\ at'[r] = "accepted"
      /\ Moved(Uncounted, Uncounted', r) /\ Moved(Accepted, Accepted', r)
      /\ Moved(Streams, Streams', r) /\ Moved(Errors, Errors', r)
      /\ Moved(MayFail, MayFail', r)
  <2>1. "accepted" \in RequestSteps \ {"holding"} /\ "accepted" # "asking"
    BY DEF RequestSteps
  <2>2. /\ code' \in [Requests -> {200, 400, 500, 503}]
        /\ \A q \in Requests \ {r} : code'[q] = code[q]
        /\ metrics' \in [Counters -> Nat]
    BY <1>1, RequestTypes
  <2> QED
    BY <1>1, <2>1, <2>2, RequestMoves
<1>3. /\ r \notin Uncounted /\ r \in Uncounted'
      /\ r \notin Accepted /\ r \in Accepted'
      /\ r \notin Streams /\ r \notin Streams'
      /\ r \notin Errors /\ r \notin Errors'
      /\ r \notin MayFail /\ r \in MayFail'
  BY <1>1, <1>2 DEF Uncounted, Accepted, Streams, Errors, MayFail
<1>4. CountersMeet'
  BY <1>1, <1>2, <1>3, RequestTypes DEF Moved, CountersMeet, ServiceInv, Counters
<1> QED
  BY <1>2, <1>4

\* A handler has its answer: an error is a request that may fail already.
LEMMA AnswerPreserves ==
  ASSUME ServiceInv, NEW r \in Requests, NEW status \in {200, 400, 500, 503},
         UNCHANGED <<mainVars, served>>, Answer(r, status),
         at[r] \in {"accepted", "ready", "reading", "asking", "holding"},
         \/ UNCHANGED metrics
         \/ status = 500 /\ Add("historyFailures")
  PROVE  ServiceInv'
<1>1. /\ at' = [at EXCEPT ![r] = "answered"] /\ code' = [code EXCEPT ![r] = status]
      /\ code' \in [Requests -> {200, 400, 500, 503}] /\ code'[r] = status
      /\ \A q \in Requests \ {r} : code'[q] = code[q]
  BY RequestTypes DEF Answer, Goto
<1>2. /\ metrics' \in [Counters -> Nat]
      /\ \A c \in Counters \ {"historyFailures"} : metrics'[c] = metrics[c]
      /\ \/ metrics'["historyFailures"] = metrics["historyFailures"]
         \/ status = 500 /\ metrics'["historyFailures"] = metrics["historyFailures"] + 1
  BY RequestTypes DEF Add, Counters
<1>3. /\ CountersMeet' => ServiceInv'
      /\ at'[r] = "answered"
      /\ Moved(Uncounted, Uncounted', r) /\ Moved(Accepted, Accepted', r)
      /\ Moved(Streams, Streams', r) /\ Moved(Errors, Errors', r)
      /\ Moved(MayFail, MayFail', r)
  <2>1. "answered" \in RequestSteps \ {"holding"} /\ "answered" # "asking"
    BY DEF RequestSteps
  <2>2. at[r] # "absent" /\ served' \in 0..MaxServed
    BY RequestTypes
  <2> QED
    BY <1>1, <1>2, <2>1, <2>2, RequestMoves, ZenonT(30)
<1>4. /\ r \in Uncounted /\ r \in Uncounted'
      /\ r \notin Accepted'
      /\ r \notin Streams /\ r \notin Streams'
      /\ r \notin Errors /\ (r \in Errors' <=> status >= 500)
      /\ r \in MayFail /\ (r \in MayFail' <=> status >= 500)
  BY <1>1, <1>3 DEF Uncounted, Accepted, Streams, Errors, MayFail
<1>5. CountersMeet'
  BY <1>2, <1>3, <1>4, RequestTypes DEF Moved, CountersMeet, ServiceInv, Counters
<1> QED
  BY <1>3, <1>5

LEMMA HandlePreserves ==
  ASSUME ServiceInv, NEW r \in Requests, Handle(r)
  PROVE  ServiceInv'
<1>1. at[r] = "accepted" /\ UNCHANGED <<mainVars, served>>
  BY DEF Handle
<1>2. \/ \E status \in {200, 400, 500, 503} : Answer(r, status) /\ UNCHANGED metrics
      \/ /\ \E next \in {"ready", "reading"} : Goto(r, next)
         /\ UNCHANGED <<code, metrics>>
      \/ /\ metrics' = [metrics EXCEPT !["sseConnections"] = @ + 1,
                                        !["sseActive"] = @ + 1]
         /\ Goto(r, "streaming") /\ UNCHANGED code
      \/ history /\ Add("historyQueries") /\ Goto(r, "asking") /\ UNCHANGED code
  <2>1. CASE handleLive(r)
    BY <2>1 DEF handleLive
  <2>2. CASE handleReady(r)
    BY <2>2 DEF handleReady
  <2>3. CASE handleRealtime(r)
    BY <2>3 DEF handleRealtime
  <2>4. CASE handleStream(r)
    BY <2>4 DEF handleStream
  <2>5. CASE handleHistory(r)
    BY <2>5 DEF handleHistory
  <2> QED
    BY <2>1, <2>2, <2>3, <2>4, <2>5 DEF Handle
<1>3. CASE \E status \in {200, 400, 500, 503} : Answer(r, status) /\ UNCHANGED metrics
  BY <1>1, <1>3, AnswerPreserves
<1>4. CASE /\ \E next \in {"ready", "reading"} : Goto(r, next)
           /\ UNCHANGED <<code, metrics>>
  <2>1. PICK next \in {"ready", "reading"} : at' = [at EXCEPT ![r] = next]
    BY <1>4 DEF Goto
  <2>2. /\ CountersMeet' => ServiceInv'
        /\ at'[r] = next
        /\ Moved(Uncounted, Uncounted', r) /\ Moved(Accepted, Accepted', r)
        /\ Moved(Streams, Streams', r) /\ Moved(Errors, Errors', r)
        /\ Moved(MayFail, MayFail', r)
    <3>1. next \in RequestSteps \ {"holding"} /\ next # "asking"
      BY DEF RequestSteps
    <3>2. /\ UNCHANGED <<mainVars, code, metrics, served>> /\ at[r] # "absent"
          /\ code' \in [Requests -> {200, 400, 500, 503}]
          /\ metrics' \in [Counters -> Nat] /\ served' \in 0..MaxServed
      BY <1>1, <1>4, RequestTypes
    <3> QED
      BY <2>1, <3>1, <3>2, RequestMoves
  <2>3. /\ r \in Uncounted /\ r \in Uncounted'
        /\ r \in Accepted /\ r \notin Accepted'
        /\ r \notin Streams /\ r \notin Streams'
        /\ r \notin Errors /\ r \notin Errors'
        /\ r \in MayFail /\ r \in MayFail'
    BY <1>1, <2>2 DEF Uncounted, Accepted, Streams, Errors, MayFail
  <2>4. CountersMeet'
    BY <1>1, <1>4, <2>2, <2>3, RequestTypes DEF Moved, CountersMeet, ServiceInv,
       Counters
  <2> QED
    BY <2>2, <2>4
<1>5. CASE /\ metrics' = [metrics EXCEPT !["sseConnections"] = @ + 1,
                                         !["sseActive"] = @ + 1]
           /\ Goto(r, "streaming") /\ UNCHANGED code
  <2>1. /\ metrics' \in [Counters -> Nat]
        /\ metrics'["sseConnections"] = metrics["sseConnections"] + 1
        /\ metrics'["sseActive"] = metrics["sseActive"] + 1
        /\ \A c \in Counters \ {"sseConnections", "sseActive"} : metrics'[c] = metrics[c]
    BY <1>5, RequestTypes DEF Counters
  <2>2. /\ CountersMeet' => ServiceInv'
        /\ at'[r] = "streaming"
        /\ Moved(Uncounted, Uncounted', r) /\ Moved(Accepted, Accepted', r)
        /\ Moved(Streams, Streams', r) /\ Moved(Errors, Errors', r)
        /\ Moved(MayFail, MayFail', r)
    <3>1. "streaming" \in RequestSteps \ {"holding"} /\ "streaming" # "asking"
      BY DEF RequestSteps
    <3>2. /\ at' = [at EXCEPT ![r] = "streaming"] /\ at[r] # "absent"
          /\ UNCHANGED <<mainVars, code, served>>
          /\ code' \in [Requests -> {200, 400, 500, 503}]
          /\ served' \in 0..MaxServed
      BY <1>1, <1>5, RequestTypes DEF Goto
    <3> QED
      BY <2>1, <3>1, <3>2, RequestMoves
  <2>3. /\ r \in Uncounted /\ r \in Uncounted'
        /\ r \in Accepted /\ r \notin Accepted'
        /\ r \notin Streams /\ r \in Streams'
        /\ r \notin Errors /\ r \notin Errors'
        /\ r \in MayFail /\ r \notin MayFail'
    BY <1>1, <2>2 DEF Uncounted, Accepted, Streams, Errors, MayFail
  <2>4. CountersMeet'
    BY <1>1, <2>1, <2>2, <2>3, RequestTypes DEF Moved, CountersMeet, ServiceInv,
       Counters
  <2> QED
    BY <2>2, <2>4
<1>6. CASE history /\ Add("historyQueries") /\ Goto(r, "asking") /\ UNCHANGED code
  <2>1. /\ metrics' \in [Counters -> Nat]
        /\ metrics'["historyQueries"] = metrics["historyQueries"] + 1
        /\ \A c \in Counters \ {"historyQueries"} : metrics'[c] = metrics[c]
    BY <1>6, RequestTypes DEF Add, Counters
  <2>2. /\ CountersMeet' => ServiceInv'
        /\ at'[r] = "asking"
        /\ Moved(Uncounted, Uncounted', r) /\ Moved(Accepted, Accepted', r)
        /\ Moved(Streams, Streams', r) /\ Moved(Errors, Errors', r)
        /\ Moved(MayFail, MayFail', r)
    <3>1. "asking" \in RequestSteps \ {"holding"}
      BY DEF RequestSteps
    <3>2. /\ at' = [at EXCEPT ![r] = "asking"] /\ at[r] # "absent"
          /\ UNCHANGED <<mainVars, code, served>>
          /\ code' \in [Requests -> {200, 400, 500, 503}]
          /\ served' \in 0..MaxServed
      BY <1>1, <1>6, RequestTypes DEF Goto
    <3> QED
      BY <1>6, <2>1, <3>1, <3>2, RequestMoves
  <2>3. /\ r \in Uncounted /\ r \in Uncounted'
        /\ r \in Accepted /\ r \notin Accepted'
        /\ r \notin Streams /\ r \notin Streams'
        /\ r \notin Errors /\ r \notin Errors'
        /\ r \in MayFail /\ r \in MayFail'
    BY <1>1, <2>2 DEF Uncounted, Accepted, Streams, Errors, MayFail
  <2>4. CountersMeet'
    BY <1>1, <2>1, <2>2, <2>3, RequestTypes DEF Moved, CountersMeet, ServiceInv,
       Counters
  <2> QED
    BY <2>2, <2>4
<1> QED
  BY <1>2, <1>3, <1>4, <1>5, <1>6

LEMMA StreamEndPreserves ==
  ASSUME ServiceInv, NEW r \in Requests, StreamEnds(r)
  PROVE  ServiceInv'
<1>1. /\ at[r] = "streaming" /\ UNCHANGED <<mainVars, served>>
      /\ at' = [at EXCEPT ![r] = "answered"] /\ code' = [code EXCEPT ![r] = 200]
      /\ metrics' = [metrics EXCEPT !["sseActive"] = @ - 1]
  BY DEF StreamEnds, Answer, Goto
<1>2. r \in Streams
  BY <1>1 DEF Streams
<1>3. /\ Cardinality(Streams) \in Nat \ {0}
      /\ metrics["sseActive"] = Cardinality(Streams)
  <2>1. IsFiniteSet(Streams)
    BY ServiceAssumption, FS_Subset DEF Streams
  <2> QED
    BY <1>2, <2>1, FS_EmptySet, FS_CardinalityType DEF ServiceInv, CountersMeet
<1>4. /\ metrics' \in [Counters -> Nat]
      /\ metrics'["sseActive"] = metrics["sseActive"] - 1
      /\ \A c \in Counters \ {"sseActive"} : metrics'[c] = metrics[c]
  BY <1>1, <1>3, RequestTypes DEF Counters
<1>5. /\ CountersMeet' => ServiceInv'
      /\ at'[r] = "answered"
      /\ Moved(Uncounted, Uncounted', r) /\ Moved(Accepted, Accepted', r)
      /\ Moved(Streams, Streams', r) /\ Moved(Errors, Errors', r)
      /\ Moved(MayFail, MayFail', r)
  <2>1. "answered" \in RequestSteps \ {"holding"} /\ "answered" # "asking"
    BY DEF RequestSteps
  <2>2. /\ code' \in [Requests -> {200, 400, 500, 503}]
        /\ \A q \in Requests \ {r} : code'[q] = code[q]
        /\ at[r] # "absent" /\ served' \in 0..MaxServed
    BY <1>1, RequestTypes
  <2> QED
    BY <1>1, <1>4, <2>1, <2>2, RequestMoves
<1>6. code'[r] = 200
  BY <1>1, RequestTypes
<1>7. /\ r \in Uncounted /\ r \in Uncounted'
      /\ r \notin Accepted /\ r \notin Accepted'
      /\ r \in Streams /\ r \notin Streams'
      /\ r \notin Errors /\ r \notin Errors'
      /\ r \notin MayFail /\ r \notin MayFail'
  BY <1>1, <1>5, <1>6 DEF Uncounted, Accepted, Streams, Errors, MayFail
<1>8. CountersMeet'
  BY <1>1, <1>4, <1>5, <1>7, RequestTypes DEF Moved, CountersMeet, ServiceInv, Counters
<1> QED
  BY <1>5, <1>8

LEMMA RecordPreserves ==
  ASSUME ServiceInv, NEW r \in Requests, RecordAPIRequest(r)
  PROVE  ServiceInv'
<1> DEFINE next == IF code[r] >= 500 THEN "failed" ELSE "absent"
<1>1. /\ at[r] = "answered" /\ UNCHANGED <<mainVars, served>>
      /\ at' = [at EXCEPT ![r] = next] /\ code' = [code EXCEPT ![r] = 200]
  BY DEF RecordAPIRequest, Goto
<1>2. /\ metrics' \in [Counters -> Nat]
      /\ metrics'["apiRequests"] = metrics["apiRequests"] + 1
      /\ \A c \in Counters \ {"apiRequests"} : metrics'[c] = metrics[c]
  BY RequestTypes DEF RecordAPIRequest, Add, Counters
<1>3. next \in {"failed", "absent"} /\ (next = "failed" <=> code[r] >= 500)
  OBVIOUS
<1> HIDE DEF next
<1>4. /\ CountersMeet' => ServiceInv'
      /\ at'[r] = next
      /\ Moved(Uncounted, Uncounted', r) /\ Moved(Accepted, Accepted', r)
      /\ Moved(Streams, Streams', r) /\ Moved(Errors, Errors', r)
      /\ Moved(MayFail, MayFail', r)
  <2>1. next \in RequestSteps \ {"holding"} /\ next # "asking"
    BY <1>3 DEF RequestSteps
  <2>2. /\ code' \in [Requests -> {200, 400, 500, 503}]
        /\ \A q \in Requests \ {r} : code'[q] = code[q]
        /\ at[r] # "absent" /\ served' \in 0..MaxServed
    BY <1>1, RequestTypes
  <2> QED
    BY <1>1, <1>2, <2>1, <2>2, RequestMoves
<1>5. /\ r \in Uncounted /\ r \notin Uncounted'
      /\ r \notin Accepted /\ r \notin Accepted'
      /\ r \notin Streams /\ r \notin Streams'
      /\ r \in Errors <=> r \in Errors'
      /\ r \in MayFail <=> r \in MayFail'
  BY <1>1, <1>3, <1>4 DEF Uncounted, Accepted, Streams, Errors, MayFail
<1>6. CountersMeet'
  BY <1>1, <1>2, <1>4, <1>5, RequestTypes DEF Moved, CountersMeet, ServiceInv, Counters
<1> QED
  BY <1>4, <1>6

LEMMA RecordErrorPreserves ==
  ASSUME ServiceInv, NEW r \in Requests, RecordAPIError(r)
  PROVE  ServiceInv'
<1>1. /\ at[r] = "failed" /\ UNCHANGED <<mainVars, code, served>>
      /\ at' = [at EXCEPT ![r] = "absent"]
  BY DEF RecordAPIError, Goto
<1>2. /\ metrics' \in [Counters -> Nat]
      /\ metrics'["apiErrors"] = metrics["apiErrors"] + 1
      /\ \A c \in Counters \ {"apiErrors"} : metrics'[c] = metrics[c]
  BY RequestTypes DEF RecordAPIError, Add, Counters
<1>3. /\ CountersMeet' => ServiceInv'
      /\ at'[r] = "absent"
      /\ Moved(Uncounted, Uncounted', r) /\ Moved(Accepted, Accepted', r)
      /\ Moved(Streams, Streams', r) /\ Moved(Errors, Errors', r)
      /\ Moved(MayFail, MayFail', r)
  <2>1. "absent" \in RequestSteps \ {"holding"} /\ "absent" # "asking"
    BY DEF RequestSteps
  <2>2. /\ code' \in [Requests -> {200, 400, 500, 503}]
        /\ \A q \in Requests \ {r} : code'[q] = code[q]
        /\ at[r] # "absent" /\ served' \in 0..MaxServed
    BY <1>1, RequestTypes
  <2> QED
    BY <1>1, <1>2, <2>1, <2>2, RequestMoves
<1>4. /\ r \notin Uncounted /\ r \notin Uncounted'
      /\ r \notin Accepted /\ r \notin Accepted'
      /\ r \notin Streams /\ r \notin Streams'
      /\ r \in Errors /\ r \notin Errors'
      /\ r \in MayFail /\ r \notin MayFail'
  BY <1>1, <1>3 DEF Uncounted, Accepted, Streams, Errors, MayFail
<1>5. CountersMeet'
  BY <1>1, <1>2, <1>3, <1>4, RequestTypes DEF Moved, CountersMeet, ServiceInv, Counters
<1> QED
  BY <1>3, <1>5

LEMMA ReturnPreserves ==
  ASSUME ServiceInv, NEW r \in Requests,
         ReadyReturns(r) \/ RealtimeReturns(r) \/ HistoryReturns(r)
  PROVE  ServiceInv'
<1>1. CASE ReadyReturns(r) \/ RealtimeReturns(r)
  BY <1>1, AnswerPreserves DEF ReadyReturns, RealtimeReturns
<1>2. CASE HistoryReturns(r)
  BY <1>2, AnswerPreserves DEF HistoryReturns
<1> QED
  BY <1>1, <1>2

LEMMA StutterPreserves ==
  ASSUME ServiceInv, UNCHANGED vars
  PROVE  ServiceInv'
<1>1. UNCHANGED mainVars /\ UNCHANGED clientVars
  BY DEF vars
<1>2. Holders' = Holders /\ CountersMeet'
  BY <1>1, ClientsLeftAlone
<1>3. Validated' /\ PanicsBeforeItListens' /\ Drained' /\ ReadyIsRunning'
  BY <1>1, <1>2, MainLeftAlone
<1>4. ServiceTypeOK'
  BY <1>1, <1>2, MainTypesKept DEF ServiceInv, ServiceTypeOK, clientVars
<1>5. QuietStart' /\ PoolInHand'
  BY <1>1 DEF ServiceInv, QuietStart, PoolInHand, mainVars, clientVars
<1> QED
  BY <1>2, <1>3, <1>4, <1>5 DEF ServiceInv

LEMMA ServiceSteps == ServiceInv /\ [Next]_vars => ServiceInv'
<1> SUFFICES ASSUME ServiceInv, [Next]_vars PROVE ServiceInv'
  OBVIOUS
<1>1. CASE Main
  BY <1>1, LoadPreserves, ConnectPreserves, ServePreserves, ClosePreserves DEF Main
<1>2. CASE Signal \/ Listen \/ LoopBegins \/ LoopEnds
  BY <1>2, AroundPreserves
<1>3. CASE \E w \in Workers : Work(w) \/ WorkerReturns(w)
  BY <1>3, WorkerPreserves
<1>4. CASE \E c \in Clients : Acquire(c)
  BY <1>4, AcquirePreserves
<1>5. ASSUME NEW r \in Requests,
             \/ Accept(r) \/ Handle(r)
             \/ ReadyReturns(r) \/ RealtimeReturns(r)
             \/ StreamEnds(r) \/ HistoryReturns(r)
             \/ RecordAPIRequest(r) \/ RecordAPIError(r)
      PROVE  ServiceInv'
  BY <1>5, AcceptPreserves, HandlePreserves, ReturnPreserves, StreamEndPreserves,
     RecordPreserves, RecordErrorPreserves
<1>6. CASE Terminated \/ UNCHANGED vars
  BY <1>6, StutterPreserves DEF Terminated
<1> QED
  BY <1>1, <1>2, <1>3, <1>4, <1>5, <1>6 DEF Next

-----------------------------------------------------------------------------
(* The theorems.                                                           *)

\* The invariant that the rest follows from.
THEOREM ServiceInvariant == Spec => []ServiceInv
BY ServiceStarts, ServiceSteps, PTL DEF Spec

\* Every variable of a process keeps its type, the pool never has more
\* connections out than max_conns and no counter goes below zero.
THEOREM ServiceTypeCorrectness == Spec => []ServiceTypeOK
<1>1. ServiceInv => ServiceTypeOK
  BY DEF ServiceInv
<1> QED
  BY <1>1, ServiceInvariant, PTL

\* Whatever the environment holds: a process that its configuration makes
\* panic is gone before its listener is there.
THEOREM PanicsUnseen == Spec => []PanicsBeforeItListens
<1>1. ServiceInv => PanicsBeforeItListens
  BY DEF ServiceInv
<1> QED
  BY <1>1, ServiceInvariant, PTL

\* Nobody waits on a pool that main has not closed at its end.
THEOREM PoolIsThere == Spec => []NoOneAsksAClosedPool
<1>1. ServiceInv => NoOneAsksAClosedPool
  BY DEF ServiceInv, PoolInHand, NoOneAsksAClosedPool, Clients, Closed
<1> QED
  BY <1>1, ServiceInvariant, PTL

\* The process ends under no query and no transaction.
THEOREM CleanExit == Spec => []ConnectionsReturnedByExit
<1>1. ServiceInv => ConnectionsReturnedByExit
  BY DEF ServiceInv, Drained, Closed, ConnectionsReturnedByExit
<1> QED
  BY <1>1, ServiceInvariant, PTL

\* For any number of clients the counters of the handlers meet when all is
\* answered.
THEOREM HandlersAddUp == Spec => []HandlerCountersAddUp
<1>1. ServiceInv => HandlerCountersAddUp
  <2> SUFFICES ASSUME ServiceInv, \A r \in Requests : at[r] = "absent"
               PROVE  /\ metrics["apiRequests"] = served
                      /\ metrics["sseActive"] = 0
                      /\ metrics["historyFailures"] <= metrics["apiErrors"]
                      /\ metrics["historyQueries"] + metrics["sseConnections"] <= served
                      /\ metrics["apiErrors"] <= served - metrics["sseConnections"]
    BY DEF HandlerCountersAddUp
  <2>1. /\ Uncounted = {} /\ Accepted = {} /\ Streams = {} /\ Errors = {}
        /\ MayFail = {}
    BY DEF Uncounted, Accepted, Streams, Errors, MayFail
  <2>2. /\ Cardinality(Uncounted) = 0 /\ Cardinality(Accepted) = 0
        /\ Cardinality(Streams) = 0 /\ Cardinality(Errors) = 0
        /\ Cardinality(MayFail) = 0
    BY <2>1, FS_EmptySet
  <2>3. /\ metrics["apiRequests"] \in Nat /\ metrics["apiErrors"] \in Nat
        /\ metrics["historyQueries"] \in Nat /\ metrics["historyFailures"] \in Nat
        /\ metrics["sseConnections"] \in Nat /\ served \in Nat
    BY ServiceAssumption DEF ServiceInv, ServiceTypeOK, Counters
  <2> QED
    BY <2>2, <2>3 DEF ServiceInv, CountersMeet
<1> QED
  BY <1>1, ServiceInvariant, PTL

\* A request that finds the service ready finds the listener not yet closed by
\* Shutdown and the pool of its history open.
THEOREM ReadyIsServing == Spec => ReadyMeansServing
<1>1. ASSUME ServiceInv, [Next]_vars, NEW r \in Requests,
             at[r] # "ready", at'[r] = "ready"
      PROVE  http \notin {"off", "closed"} /\ (history => pool = "open")
  <2> SUFFICES ready
    BY <1>1 DEF ServiceInv, ReadyIsRunning, PoolInHand, Closed
  <2>1. \A q \in Requests : at[q] \in RequestSteps /\ q \in Clients
    BY <1>1 DEF ServiceInv, ServiceTypeOK, Clients
  <2>2. at \in [Clients -> WorkerSteps \union RequestSteps] /\ r \in Clients
    BY <1>1, <2>1 DEF ServiceInv, ServiceTypeOK
  <2>3. \A c \in Clients : \A next : (at' = [at EXCEPT ![c] = next]) =>
            (c = r /\ next = "ready")
    BY <1>1, <2>2
  <2>4. CASE Main \/ Signal \/ Listen \/ LoopBegins \/ LoopEnds \/ UNCHANGED vars
    <3>1. at' = at \/ Connected
      BY <2>4 DEF Main, LoadConfig, Connect, SchemaFails, Serve, Start, Launch,
         LeaveSelect, Stop, Shutdown, ShutdownReturns, CloseKafka, ClosePool,
         PoolDrained, Exit, Signal, Listen, LoopBegins, LoopEnds, besideMain,
         clientVars, vars
    <3> QED
      BY <1>1, <2>2, <3>1 DEF Connected
  <2>5. ASSUME NEW w \in Workers, Work(w) \/ WorkerReturns(w)
        PROVE  FALSE
    BY <2>3, <2>5 DEF Work, WorkerReturns, Goto, Clients
  <2>6. ASSUME NEW c \in Clients, Acquire(c)
        PROVE  FALSE
    <3>1. at' = [at EXCEPT ![c] = "holding"]
      BY <2>6 DEF Acquire, Goto
    <3> QED
      BY <1>1, <2>2, <3>1
  <2>7. ASSUME NEW q \in Requests,
               \/ Accept(q) \/ ReadyReturns(q) \/ RealtimeReturns(q)
               \/ StreamEnds(q) \/ HistoryReturns(q)
               \/ RecordAPIRequest(q) \/ RecordAPIError(q)
        PROVE  FALSE
    <3>1. \E next \in {"accepted", "answered", "failed", "absent"} :
              at' = [at EXCEPT ![q] = next]
      BY <2>7 DEF Accept, ReadyReturns, RealtimeReturns, StreamEnds,
         HistoryReturns, RecordAPIRequest, RecordAPIError, Answer, Goto
    <3> QED
      BY <2>1, <2>3, <3>1
  <2>8. ASSUME NEW q \in Requests, Handle(q)
        PROVE  ready
    <3>1. \/ ready
          \/ \E next \in {"answered", "reading", "streaming", "asking"} :
                at' = [at EXCEPT ![q] = next]
      BY <2>8 DEF Handle, handleLive, handleReady, handleRealtime, handleStream,
         handleHistory, Answer, Goto
    <3> QED
      BY <2>1, <2>3, <3>1
  <2> QED
    BY <1>1, <2>4, <2>5, <2>6, <2>7, <2>8 DEF Next, Terminated
<1>2. ServiceInv /\ [Next]_vars =>
          [\A r \in Requests :
               (at[r] # "ready" /\ at'[r] = "ready") =>
                   http \notin {"off", "closed"} /\ (history => pool = "open")]_vars
  BY <1>1
<1> QED
  BY <1>2, ServiceInvariant, PTL DEF Spec, ReadyMeansServing
=============================================================================
