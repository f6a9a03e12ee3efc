# Verification of gRPC Microservices

TLA+ models of the city-information system of this repository, TLC
configurations that check them on small instances, and TLAPS proofs for every
value of the constants. Paths are relative to the repository's root.

## 1. The system

A client asks the **gateway** about a city. The gateway asks the **discovery
master** which addresses implement `cityinformation.CityService`, calls all of
them in parallel (**weather**, **population** and **nearby-cities** services,
each answering one field) and merges their answers. Beside every backend runs a
**discovery agent** that registers the backend with the master, watches its
health, and unregisters it when the watch ends.

    client -> gateway -> discovery master (SQLite table ServiceHandler)
                 |              ^
                 v              | Register / Unregister
              backends <- discovery agent (reflection, health watch)

### 1.1 Inventory

| Component | State | Operations | Talks to |
|---|---|---|---|
| Master (`discovery-service/master`) | table `ServiceHandler` in a SQLite file; one goroutine, and perhaps one transaction, per call | `RegisterServiceHandlers`, `UnregisterService`, `GetServiceHandlers`; crash, restart | SQLite through `database/sql` |
| Agent (`discovery-service/agent`) | goroutines `main`, watcher, two stream receivers; unbuffered channels between them; `service.Services` | reflection, register, watch, unregister, exit | target (streams), master (unary calls) |
| Gateway (`grpc-gateway`) | per request: channel factory `_instances`, list of addresses, one task per address | two lookups, parallel calls, merge | master, backends |
| RPC layer of the discovery service (`grpc_gen`, interceptors) | a call's message, its correlation id, the master's log lines | stub, client interceptor, dispatch and decoding, server interceptor | agent, gateway, master |
| Gateway metrics (`Utils.Grpc/Interceptors`, `Metrics`) | three Prometheus instruments | one record per intercepted call; never reached | – |
| Weather (`weather-service`, Kotlin) | health statuses, server, counters | `getCityInformation`, shutdown hook, interceptors | OpenWeather (HTTP) |
| Population (`population-service`, Python) | health statuses, thread pool of 10, counters | `GetCityInformation`, agents' streams, interceptors | OpenDataSoft (HTTP) |
| Nearby cities (`nearby-cities-service`, TypeScript) | health statuses, counters | `getCityInformation`, interceptors if the proxy applies them | npm package |
| fluentd, charts, compose files, CI | – | – | – |

### 1.2 What is hard here

* **Concurrent calls over one table.** gRPC runs a goroutine per call.
  `Unregister` reads its rows on one connection and writes *every column* of
  them back in a transaction that begins later
  (`usecases/unregister_service.go:18-29`), so a call that commits in between
  could be overwritten. SQLite has one write lock; a statement that waits too
  long for it fails.
* **Partial failure.** Any INSERT, UPDATE or COMMIT may fail after others have
  succeeded; the error of `BeginTx` is dropped and the process panics
  (`service_handler_repository.go:20`); `results.Err()` is never read (`:65`,
  `:85`).
* **Crashes.** The master may die with transactions open or with replies unsent.
* **Unreliable calls.** The agent cannot tell a Register that failed from one
  whose reply was lost. It never retries and it ignores the result of Unregister.
* **Channels.** The stream clients pass a response and an error over two
  unbuffered channels that the receiving method closes when it returns.
* **Only one watch.** The loop over the implemented services returns in its
  first turn.
* **Between stub and handler.** A request may be lost, or fail to decode; the
  connection may end while the handler runs on; overlapping calls share one log;
  four tables (stub, service descriptor, message types, field numbers) must agree.
* **Fan-out.** Backend answers and failures arrive in any order, and a call has no
  deadline.
* **Stale lookups.** The gateway looks the backends up twice and calls them
  later, while agents delist them, list them again, and backends die.
* **Metrics.** Threads increment three instruments one after the other; each
  backend collects at another point of a call (before the answer, after the
  answer), and the population service swallows the exception it counts.
* **The pool.** The population service has ten threads and an HTTP call without a
  timeout; the agents' streams of reflection and health take threads of the same
  pool, a watch for as long as it lasts.
* **Installed interceptors.** The nearby cities service adds its services to the
  server before it makes the proxy that holds the interceptors.
* **Health.** One status that is forgotten or not SERVING makes the agent delist a backend for
  good, so the order of statuses and listening matters.

`PROJECT.json` lists each hazard at its line with the properties about it.

### 1.3 What makes each component correct

* Master: every call takes effect at one moment or not at all; an acknowledged
  Register is stored whole; an acknowledged Unregister has marked everything
  that was there when it arrived; a search misses nothing it must list; stored
  rows are never lost and dead ones never revived; the write lock is never left
  behind; every call is answered.
* Agent: no goroutine sends where nobody receives; it ends when its target
  fails or dies.
* Master and agents together: an agent is absent, then listed with all its
  services, then delisted with all of them, and never anything in between; what
  an agent watches is listed.
* RPC layer: callers see the registry that the use cases implement; the log
  tells what became of a call; an agent's lines can be told from each other.
* Gateway: only addresses that are listed during the request are called; a
  backend that is listed and serves throughout is in the answer; the merged
  answer does not depend on the order of arrival; every request ends unless a
  server it waits for never answers.
* Backends: a server that takes calls reports SERVING; what its metrics count
  agrees with what its clients were answered; calls that hang do not hold up the
  others while a thread is left.

## 2. The modules

| Module | Models |
|---|---|
| `DiscoveryData` | rows, requests and replies shared by the other modules |
| `ServiceRegistry` | abstract specification: the registry that the master's clients may rely on |
| `DiscoveryMaster` | the master: use cases, repository, SQLite's isolation and lock, crash and restart |
| `DiscoveryMasterProofs` | the inductive invariant of the master and its safety theorems |
| `DiscoveryMasterRefinement` | the proof that the master implements `ServiceRegistry` |
| `DiscoveryAgent` | one agent process per member of `Instances`: goroutines, channels, target |
| `DiscoveryAgentProofs` | how far an agent's goroutines can be from each other, and its theorems |
| `Discovery` | several agents and the master, the RPCs and the network between them |
| `DiscoveryProofs` | the invariant that joins the agents' and the master's, and the theorems about lifecycles |
| `DiscoveryMessages` | messages of the discovery service: zero values, field numbers, encoding, the tables of methods and handlers |
| `DiscoveryRpc` | a unary call from stub to stub: both interceptors, dispatch, decoding, the master's log, lost messages |
| `DiscoveryRpcProofs` | its inductive invariant, its theorems, and the proof that callers see `ServiceRegistry` |
| `Gateway` | one request: lookups, fan-out, merge |
| `GatewayProofs` | the invariant of the merge's loop, and which backend's field is answered |
| `CityInformation` | the gateway among the master (`ServiceRegistry`), the backends and their agents |
| `CityInformationProofs` | which addresses are called, and which backends are in the answer |
| `CallMetrics` | the three instruments and the three statements of `collectCallMetrics`, shared by the backends |
| `Backend` | what the backends have in common: phase, health statuses, calls |
| `WeatherServer` | the weather service: start, interceptors, shutdown hook |
| `PopulationService` | the population service: start, thread pool, interceptors |
| `NearbyCitiesService` | the nearby cities service: start, interceptors on the event loop |
| `Backends` | the three backends together |
| `BackendsProofs` | what each instrument counts, and the theorems about metrics, statuses and the pool |
| `MCMaster`, `MCAgent`, `MCDiscovery`, `MCRpc`, `MCGateway`, `MCBackends` | instances for TLC |

`Discovery` extends `DiscoveryMaster` and `DiscoveryAgent` and joins their
actions; `DiscoveryMaster` instantiates `ServiceRegistry` under the refinement
mapping `Stage`. `DiscoveryRpc` instantiates it twice: `Server` is the registry
that its handlers call, `Client` the registry that its callers see. So the three
layers fit together: the master implements the registry, the RPC layer hands that
registry to its callers, and `CityInformation` joins the gateway to it.

Definitions marked "Faulty variant" are not part of any specification. They are
plausible bugs, kept beside the definition they would replace, each of which
makes a property fail (`mutants` in `PROJECT.json`).

### 2.1 DiscoveryMaster and the code

| Variable | Code |
|---|---|
| `table` | committed rows of `ServiceHandler`; a row's position is its `ServiceMethodId` |
| `writer`, `buffer` | the transaction that holds SQLite's write lock, and the table as it sees it |
| `pc[c]` | where the goroutine of call `c` is: `dispatched` (before its first database access), `begin` (before `BeginTx`), `tx` (before a statement or COMMIT), `returned` |
| `req[c]`, `reply[c]` | request and reply |
| `batch[c]` | entities passed to `Insert` or `Update` that are still to be written |
| `seen[c]` | history: the table when the call arrived |

`RegisterExecute`, `UnregisterExecute` and `GetAliveServicesExecute` are the use
cases up to their transaction; the SELECT of `Unregister` is in
`UnregisterExecute`, outside the transaction, as in the code. `ExecContext` is
one turn of the loop in `Insert` or `Update`; `Commit`, `CommitFails` and
`ExecFails` are the ends of a transaction. `BeginFails` takes the process down,
because the nil `*Tx` panics. The order of the statements of one transaction is
left open: nobody can see it, and `PartlyAdded` holds in any order. `QueryFails` is
an error of the query itself. The early returns after `results.Scan`
(`service_handler_repository.go:67-69`, `:87-89`), which leave the rows open, cannot be
taken: every column is written by the program and never NULL, `IsAlive` is 0 or 1, and
no context of a query ends.

SQLite and the gRPC library are external. Of SQLite the model keeps: readers
see committed rows only; `BEGIN` takes no lock; the first write statement does;
`COMMIT` and `ROLLBACK` release it; a wait for it may end in an error; an open
transaction is rolled back when the process dies. Of gRPC: a call without a
listener fails at once, and a call whose server dies fails at its client.

### 2.2 DiscoveryAgent and Discovery

`at[a][g]` is where goroutine `g` of agent `a` is. A send on an unbuffered
channel and its receive are one step of two goroutines (`PassResponse`,
`PassReflectionError`, `PassHealthError`, `Quit`). `got` is what a receiver
read last, `services` what reflection answered, `exit` the state of the
process. The target (`target`, `failing`, `gone`) is external: all three
backends set every service SERVING before they listen
(`population-service/src/app.py:74`, `WeatherServer.kt:39-41`, `server.ts:36`)
and none goes back to SERVING. A restarted agent draws a new uuid
(`agent/cmd/main.go:32`), so it is another member of `Instances`.

In `Discovery` an RPC of an agent occupies a slot of `Calls` from `Send` to
`Receive`. The handlers of the master run under `context.Background()`, so a
handler goes on when its client has gone (`ConnectionLost`, `AgentKilled`), and
its reply reaches nobody (`Orphan`).

### 2.3 DiscoveryMessages and DiscoveryRpc

| Variable | Code |
|---|---|
| `table`, `stage`, `req`, `reply`, `seen` | the registry behind the handlers |
| `path[c]` | `wire` (sent, not decoded), `handler` (inside the interceptor), `erred` (the same, past the error line), `orphan`, `erredOrphan` (as these two, but the caller already has an error), `served` |
| `sent[c]`, `packet[c]`, `result[c]` | what the stub was given, what is on the wire, what goes back |
| `lines[c]` | what `ServerInterceptor` has logged about the call |
| `sentAt[c]` | history: the table when the stub was called |

`Invoke` is a stub with its client interceptor (`Correlate`), `Handle` the
generated `_DiscoveryService_*_Handler` up to the use case, `DecodeFails` its early
return, `Execute` the use case. The rest of `ServerInterceptor` is
`InterceptorLogsError`, its error line, and `InterceptorReturns`, the line with the
duration and the return; the connection or the process may end between the two. A message is a function from field numbers to values:
`Marshal` leaves out what is zero, `Unmarshal` fills in the zero value of the type
that the dispatched handler decodes. A correlation id is a fresh uuid per call, so
the call itself stands for it. `Lose` takes a request, a reply or the connection;
because the use cases run under `context.Background()`, an `orphan` goes on.
`ProcessEnds` and `Start` are the master's process. A panic in a use case is a
`ProcessEnds`: nothing recovers it, and its call keeps its line "called" alone.

The gateway's id travels as `correlation_id` (`GrpcCallExtensions.cs:14`) and the
interceptor reads `correlation-id` (`logging_interceptor.go:27`), so `IdOf` gives
searches no id.

### 2.4 Gateway and CityInformation

Everything is registered `AddScoped`, so a request has a `ChannelFactory` of its
own whose constructor blocks in a first lookup; `GetChannels` makes the second
one. `results` holds the outcome of each task; a failed call stands for an empty
response. The values a backend answers are told apart by its address. `hung`
holds what never ends (position 0 is the lookup): no call has a deadline. Each turn
of the loop in `MergeAllResults` is a step (`TakeResult`), `merged` counts them, and
`ReturnResult` ends it; backends and agents go on meanwhile.

`Gateway` leaves the master's answers open; `CityInformation` takes them from
`ServiceRegistry`, with one slot of `Calls` for the lookups of each request, which
follow each other. There a Register or Unregister is the moment at which it takes
effect (`AgentRegisters`, `AgentUnregisters`), at most once each and in this order
for each id, as `LifecycleOrdered` and `RegisteredOnce` of `Discovery` say. An
agent registers after its backend was seen serving, so the backend may be dead by
then, and a row may stay alive for ever. A backend that comes back has a new agent
with a new id and the same address. `during` and `steady` are history.

### 2.5 The backends

All three set their health statuses, listen, and have calls of
`GetCityInformation` pass a logging and a metrics interceptor; they differ in
the point where a call is counted:

| | Threads | Counted | On an exception |
|---|---|---|---|
| weather | one per call | in `close`, before the call itself is closed (`MetricsFowardingServerCall.kt:16-23`) | counted under the code that is sent |
| population | pool of 10 | in `finally`, before gRPC sends (`metrics_interceptor.py:28-30`) | counted as UNKNOWN; the interceptor returns `None` and gRPC sends INTERNAL |
| nearby cities | event loop | after `await next()`, so after the answer (`metricsInterceptor.ts:19-27`), if the proxy runs the interceptors | not counted, and nothing here answers |

`phase` is where the program is: the calls that set the statuses are a step
before the one that listens, and the server listens because that step has been taken, not because
the statuses are right. `inCall[c]` is where call `c` is; `collecting[c]` is the
statement of `collectCallMetrics` that comes next (one step for all three on Node's
event loop); `answer[c]` is what the client got. A life of the process ends with
`Halt`, `EndProcess` or `NearbyExit`, or in `failed`, where the port is taken but
the HTTP server of the metrics keeps the JVM up (`Prometheus.kt:18`). The counters
do not survive it, so the next life is a new behaviour. The backends share nothing,
so each behaviour of `Backends` is a life of one of them.

*Population.* `queue`, `workers` and `hung` are the pool; `hung` holds the calls that
OpenDataSoft never ends. The agents' streams of reflection and health (`Streams`,
`arrived`) wait in the same queue and keep a thread until they end, if ever
(`SubmitStream`, `EndStream`). They are counted under other methods. The clause
`except grpc.RpcError` (`metrics_interceptor.py:24-25`) is not modelled: nothing in
`city.py` raises one.

*Nearby cities.* `server.ts:33` and `:42` add the services to the raw server, and
`serverProxy` wraps it only at `:44`. Whether calls of services that were added
before go through the interceptors is up to a package outside the repository, so
`proxied` is chosen at the start and both cases are explored. If they do not, nothing
is ever counted, and `NearbyAnswersCounted` says that too. `ctxStatus[c]` is
`ctx.status.code`, undefined until the handler has called back, and `StatusKeys` the
array of names that `metricsInterceptor.ts:24` indexes with it: a code read too
early, or an array in another order, would count calls under codes that no client
got.

Interceptor order, codes sent for exceptions, the order of the pool's queue and the
proxy are those of libraries, and external.

## 3. What TLC checks

| Run | Instance and bounds | Shows |
|---|---|---|
| `master` | 2 calls, 2 instances, 2 handlers, 3 rows, every fault but "rows" | the registry refinement, the acknowledged effects, `RowsOnlyDie`, the lock |
| `master_live` | 3 calls, 1 row, lock timeouts | every dispatched call is answered |
| `master_short_read` | fault "rows" | *violation* of `SearchComplete` (finding) |
| `agent` | 1 agent, one or two services, every fault | channel discipline; the agent ends |
| `rpc` | 2 calls, 2 instances, 2 handlers, 2 rows, lost messages and connections, undecodable requests, ends of the master | callers see the registry; the log and its ids |
| `agent_watches_first` | | *violation* of `AnyFailureEnds` (finding) |
| `discovery` | 2 agents, 2 calls, 2 services, 4 rows, crashes, lock timeouts, dead targets, killed agents, lost messages | whole lifecycles only; an agent that watches is listed |
| `discovery_live` | 2 agents, no faults but dead targets | a listed agent whose target dies is delisted |
| `discovery_busy` | 2 agents, lock timeouts | *violation* of `EndedIsDelisted` (finding) |
| `gateway` | 1 request, 2 backends for one field with 2 lives each, 3 registrations; failing lookups and calls, servers that never answer | only listed addresses are called; a steady backend is in the answer; order independence; every request ends |
| `backends` | a life of each backend, 3 calls; for population 3 threads, 1 hung call and 1 stream of an agent; nearby cities with and without interceptors | statuses and listening; metrics and answers agree; waiting calls are served |
| `backends_started` | a life of each backend, 3 calls; 2 threads, no call hangs, no stream | *violation* of `StartedCountsRunning` (finding) |

**Bounds.** `MaxRows` bounds the table and stands for a full disk; calls are
reused (`Return` frees the slot), so a run has behaviours of any length. Two
calls are enough for every interleaving of a writer with a reader or another
writer; the third call of `master_live` lets two writers alternate while a third
starves. Two instances make `Unregister` of one run beside writes of the other;
two handlers make a Register of two statements, which can fail in the middle.
For the safety properties the proofs of section 4 remove all these bounds.
One gateway request is enough because requests share no state; two backends for
one field are the only ones whose answers can meet in the merge, and the second
life of a backend lets its address be delisted and listed again during a lookup.
`SomeInProgress` stops backends and agents when the last request has ended. In
`rpc` a Register with two handlers fills the table, one without handlers adds
nothing. Symmetry is used in the runs without
liveness properties; in `rpc` it exchanges the handlers too. For the backends, three calls put each of the three
instruments in the hands of another thread; with three threads, one hung call and one stream that may never end, one
thread is left and the other two calls share it. Ten threads behave as three do: what
matters is whether `MaxHung + |Streams| < MaxWorkers`, and with
`MaxHung + |Streams| = MaxWorkers` `QueuedCallsServed` does not hold. So in the code
the watch of one agent leaves nine threads, of which eight may hang.

**Deadlock** is checked for the master. The other configurations switch it off:
agents end, the gateway is done when its requests are answered, and the backends
end. The RPC layer never stops, and deadlock is checked there too.

**Fairness.** `FairSpec`: each goroutine of a call that can take a step takes
one (the Go scheduler; the write lock is included, because a waiting statement
can also fail as busy), replies are taken, and the orchestrator restarts the
master (`restart: always` in `docker-compose.yml`). `FairAgentSpec` adds that
the master's calls end. Nothing obliges a client to call, an agent to start or a
target to fail. `FairCitySpec`: the master answers or fails each lookup
(`CallsReturn`), calls to backends are answered or fail, and the gateway's
continuations run. A server that never ends a call is the fault "hang": the code
sets no deadline (`DiscoveryServiceClient.cs:26` stores a timeout that is never
used), so `RequestEnds` exempts requests that wait for one, and no others.
`FairBackendsSpec` lets the free threads of the population service take calls and
its running threads go on, except in calls that hang. An agent's stream need not end,
and nothing fair is assumed of the other two backends.

## 4. What is proved

`DiscoveryMasterProofs` and `DiscoveryMasterRefinement` prove, for any sets of
calls, urls, instances and handlers, any bound on the rows and any set of
faults (except where "rows" is excluded):

| Theorem | Statement |
|---|---|
| `TypeCorrect` | `Spec => []TypeOK` |
| `InductiveInvariant` | `Spec => []IInv` |
| `LockDiscipline` | `Spec => []LockHeldInTransaction` |
| `RegisterDurable` | `Spec => []AckedRegisterStored` |
| `UnregisterEffective` | `"rows" \notin Faults` implies `Spec => []AckedUnregisterDead` |
| `SearchAnswersComplete` | `"rows" \notin Faults` implies `Spec => []SearchComplete` |
| `RowsNeverRevive` | `Spec => RowsOnlyDie` |
| `MasterImplementsRegistry` | `"rows" \notin Faults` implies `Spec => ImplementsRegistry` |

`DiscoveryAgentProofs` and `DiscoveryProofs`, for any number of agents, targets and
calls:

| Theorem | Statement |
|---|---|
| `AgentTypeCorrect` | `AgentSpec => []AgentTypeOK` |
| `AgentInvariant` | `AgentSpec => []AgentIInv` |
| `ReceiversAreServed` | `AgentSpec => []SendersAreServed` |
| `SystemInvariant` | `SystemSpec => []SystemIInv` |
| `SystemImplementsParts` | `SystemSpec => Spec /\ AgentSpec` |
| `SystemImplementsRegistry` | `"rows" \notin Faults` implies `SystemSpec => ImplementsRegistry`, from the one above |
| `SystemTypeCorrect` | `SystemSpec => []SystemTypeOK` |
| `NeverRegisteredTwice` | `SystemSpec => []RegisteredOnce` |
| `WatchedStaysListed` | `SystemSpec => []WatchedIsListed` |
| `AckedDelistedForGood` | `"rows" \notin Faults` implies `SystemSpec => []AckedStaysDelisted` |
| `LifecycleIsOrdered` | `"rows" \notin Faults` implies `SystemSpec => LifecycleOrdered` |

`DiscoveryRpcProofs`, for any number of calls and any faults:

| Theorem | Statement |
|---|---|
| `RequestArrivesAsSent` | decoding what the stub encoded gives the stub's request, at the handler its method names |
| `RpcTypeCorrect` | `RpcSpec => []RpcTypeOK` |
| `LogIsTrue` | `RpcSpec => []LogTellsOutcome` |
| `AgentCallsAreTraceable` | `RpcSpec => []AgentCallsTraceable` |
| `CallersSeeTheRegistry` | `RpcSpec => CallersSeeRegistry` |

`GatewayProofs` and `CityInformationProofs`, for any number of requests, any finite
set of backends and any number of lives and registrations:

| Theorem | Statement |
|---|---|
| `GatewayInvariant` | `GatewaySpec => []GatewayIInv` |
| `LastOfListWins` | `GatewaySpec => []LastInListWins` |
| `CityImplementsGateway` | `CitySpec => GatewaySpec` |
| `LastOfListWinsInCity` | `CitySpec => []LastInListWins`, from the two above |
| `CityIInvariant` | `CitySpec => []CityIInv` |
| `CityTypeCorrect` | `CitySpec => []CityTypeOK` |
| `CalledAddressesWereListed` | `CitySpec => []CalledWasListed` |
| `SteadyAreAnswered` | `CitySpec => []SteadyIsAnswered` |

`BackendsProofs`, for any finite sets of calls and of agents' streams, any number of
threads and of calls that hang:

| Theorem | Statement |
|---|---|
| `BackendsInvariant` | `BackendsSpec => []BackendsIInv` |
| `BackendsTypeCorrect` | `BackendsSpec => []BackendsTypeOK` |
| `ListeningMeansServing` | `BackendsSpec => []ServingWhileListening` |
| `MetricsAgreeWithAnswers` | `BackendsSpec => []MetricsMatchAnswers` |

These are all the invariants and action properties that the runs check. The
assumptions are those of the modules: the handlers of a request are handlers, an
agent sends the set of the services that reflection listed (`ListsAreSentAssumption`),
`NoCall` is not a call, `Faults` are fault kinds, `MaxRows`, `MaxLives`, `MaxWorkers`
and `MaxHung` are naturals, a backend's address is not the empty string (`Unset`),
backends and the calls of one life of a process are finitely many, and so are its
streams, none of which is a call (`StreamsAssumption`).

**The master.** The properties speak of answered calls, and none is inductive:
that an acknowledged Register is stored follows only from what is true of its
transaction before the COMMIT. `IInv` says, for each call,

* `RequestInv`: a call in progress has a request and a running process, and only
  Register and Unregister get to a transaction;
* `OnlyDie(seen, table)`: what the call saw when it arrived is still there,
  unchanged or dead;
* `RegisterInv`: the buffer of a Register is the table followed by exactly one
  row for each handler whose entity is no longer in the batch (`PartlyAdded`);
* `UnregisterInv`: each entity to write back agrees with the *committed* row in
  every column but `IsAlive` (`MarkedEntity`), the buffer is the table with some
  rows of the instance dead (`PartlyMarked`), and each row of the instance that
  the call saw is dead or still in the batch (`Covered`);
* `AnswerInv`: the answers' promises.

`MarkedEntity` is why the read outside the transaction is harmless: a
committed row never changes but to die, so the stale entity can differ from the
row only in `IsAlive`, which the entity sets to dead anyway. `MarkedEntity` in
turn needs `OnlyDie(table, table')` of every step, which for COMMIT follows
from `PartlyAdded` and `PartlyMarked`.

Each action has a lemma, in three parts: what the step does to its own call, to
the lock, and (`Frame`, once for all actions) to the other calls. The refinement
maps COMMIT to `Register` or `Unregister` of the registry, the SELECT of a search
to `Search`, failures to `Fail` of one call, the end of the process to `Fail` of
all calls in progress, and leaves all other steps invisible.

**The RPC layer.** `RpcInv` says of each call where its two sides can be
(`PositionInv`), that what is on the wire and at the server is what the caller
sent (`CarriedInv`), which log lines it has where the interceptor has not
returned yet (`LinesInv`), and how they go with its outcome (`LogInv`). The
refinement needs `CarriedInv` at `Handle`, where the server's request must be the
caller's, and the fact that the table only ages (rows are added or die) between
the caller's step and the server's: an Unregister that spares what was stored
since it *arrived* spares no more than the caller allows, who asked earlier. A
call whose connection ended counts as waiting for its caller's registry until
its handler is done, which is when it takes effect or fails.

**An agent.** `AgentIInv` says for each of the two streams how far its receiver and
the goroutine it serves can be from each other (`ReflectionInv`, `HealthInv`), and
that watcher and main follow each other (`ProcessInv`). The property is a part of it,
and not inductive alone: that a receiver finds its partner in `waitc` when it has
something to send rests on the partner's having got there before, and on its leaving
only for what this receiver sends.

**Agents and master.** Every step of the system is a step of the master and a step
of the agents, or nothing for them, so both invariants hold in it (`Typed`). What
joins them are three facts about an agent that are never taken back: its Register may
have been sent (`Asked`), it was answered OK (`Told`), its Unregister may have been
sent (`Leaving`). `OwnerInv` and `ClientInv` say which of them hold while the master
runs a call of the agent, whether or not its client still waits, and that it runs one
Register of the agent at most. `ListingInv` says what follows for its rows: all or
none; there if `Told`; alive unless `Leaving`; each within what a running Unregister
has `seen`, so that it marks them all. Most steps touch none of this (`Calm`); the
two that do are the COMMITs, and there the master's `PartlyAdded` and `Covered` say
what is committed. The lifecycle is what `ListingInv` shows before and after a step,
with `OnlyDie` between. With the fault "rows" an Unregister may miss rows, and then
the two theorems that exclude it are false, as `master_short_read` shows for searches.

**The merge.** `GatewayIInv` says that nothing is merged before all calls have ended,
so that no result changes under the loop, and (`FieldMerged`) what each field of the
answer is after each turn: unset if no result taken so far sets it, else the one of
the last that does.

**The gateway among its neighbours.** `CityInv` adds to `CalledWasListed` what is
known during the second lookup: while it waits, everything listed now is noted in
`during`; when it is answered, its addresses are; and nothing is called before.
The search of the registry takes one step, so what it finds is listed at it.
`SteadyInv` follows the steady backends the other way: they are among what is listed
while the lookup waits, so they are in its answer, so they are in the list that is
called (`ListIsComplete`), and each whose call has ended has its own response. With
`FieldMerged` the field of a steady backend is then its own or that of one behind it.

**The backends.** `Counted` says that each instrument is the cardinality of the set of
calls that have passed its statement; a step adds one call to one of the sets. The
invariants of the services say where a call can be in `collectCallMetrics` when it is
answered, and with which code. `CountersTellAnswers` turns that into inequalities
between cardinalities of sets that contain each other, once for both services that
collect statement by statement. The nearby cities service collects in one step, so
there the set that was counted under a code *is* the set of the calls that were
answered with it and have left the interceptors (`NearbyAnsweredAreCounted`). The pool
of the population service is reasoned about over calls and streams alike.

**Only model-checked**: the liveness properties `CallsReturn`, `AgentEnds`,
`FailedIsDelisted`, `RequestEnds` and `QueuedCallsServed`, which need fairness and ENABLED and are out of the prover's reach, and the four violations
of section 5.

## 5. Findings

1. *Short reads are taken for full ones* (`master_short_read`):
   `GetAliveServices` and `GetByServiceId` never read `results.Err()`.
2. *Only the first service is watched* (`agent_watches_first`): the diagram
   says the health check is called for the implemented services.
3. *A busy master keeps dead services listed* (`discovery_busy`): the result of
   `UnRegisterService` is dropped; one lock timeout and the rows stay alive for
   ever.
4. *Started calls are counted when they end* (`backends_started`): the help text
   of `grpc_server_started_total` says it counts RPCs started on the server; all
   four providers increment it together with the counter of handled calls.

Seen while modelling, and not stated as properties:

* The sequence diagram (`docs/discovery_service.sequencediagram.org:26`) says
  "Exit Status 1" after unregistering; `agent/cmd/main.go:73` drops the result of
  `Execute` and the process exits with 0.
* The gateway's searches are logged by the master without an id, because the two
  spell the header differently (2.3).
* `channel.Intercept(...)` returns a new invoker; `ChannelFactory.cs:70` and
  `DiscoveryServiceClient.cs:25` discard it, so no call of the gateway is measured.
* `CallWithRetry` (`GrpcCallExtensions.cs:22`) returns its argument.
* The nearby cities service adds its services before it wraps the server
  (`server.ts:33`, `:42`, `:44`); a proxy that intercepts only what is added through
  it would run neither interceptor, and no call would be logged or counted (2.5).

## 6. Not modelled

* What the backends ask of other services (HTTP calls, the package
  `nearby-cities`), and deployment files: I/O or configuration. The restart
  policies and volumes of the deployment files justify `Restart` and the survival
  of `table`.
* The gateway's metrics interceptor, which no call reaches, and the agent's
  `LoggingInterceptor`, which `main` does not install.
* Of the generated code: reflection, `String` and descriptor boilerplate, the
  bytes of replies, and the Python code of `CityService`. The master's stub
  repository serves its tests only.
* Loss of the database file: a replaced pod starts with an empty `emptyDir`
  volume (`charts/templates/backend/discovery-service.yml`), and no agent
  registers again. The model keeps the file over a crash of the process.
* The agent's log file, flag parsing and dialling, which happen before any
  interaction.

## 7. Plan

Done, in this order: the registry and the master, the agent, their composition,
the gateway, the proofs about the master, the backends with their call metrics,
the RPC layer with its proofs, the gateway among its neighbours, and the proofs about
agents, their composition with the master, the merge, the gateway and the backends.

Next:

1. Theorems: that the lifecycle of an agent in `Discovery` is one that `CityInformation`
   allows, as a refinement of the registrations and unregistrations of the latter.
2. The shutdown of `WeatherServer` as its agent sees it: `DiscoveryAgent` with a
   target that goes through `shutdown`, the terminal status and the halt.
3. Loss of the database in `Discovery`.
