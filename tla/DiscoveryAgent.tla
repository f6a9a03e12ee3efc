---------------------------- MODULE DiscoveryAgent ----------------------------
(***************************************************************************)
(* The discovery agent: one process beside every service process.  It asks *)
(* the service by reflection which gRPC services it implements, registers  *)
(* them with the master, watches the service's health and, when the watch  *)
(* ends, unregisters and exits.                                            *)
(*                                                                         *)
(* An agent is one member of Instances: main draws a fresh uuid at every   *)
(* start.  Its goroutines are "main", the "watcher" that Execute starts,   *)
(* and the receivers that the "reflection" and the "health" client start.  *)
(* All channels are unbuffered, so a send and its receive are one step of  *)
(* two goroutines.  The calls to the master end with a status that this    *)
(* module leaves open; the target service is external.                     *)
(***************************************************************************)
EXTENDS DiscoveryData

CONSTANTS
    ServiceLists,  \* the lists of gRPC services that reflection may answer with
    AgentFaults    \* the failures that may happen, a subset of AgentFaultKinds

AgentFaultKinds == {"stream",  \* a stream cannot be opened or written to
                    "refuse",  \* reflection answers with an ErrorResponse
                    "eof",     \* the target ends a stream without an error
                    "degrade", \* a service of the target stops SERVING
                    "die",     \* the target's process dies
                    "kill"}    \* the agent's process is killed

\* A server that answers reflection has at least the reflection service.
ASSUME ServiceListsAssumption ==
    \A l \in ServiceLists : l \in Seq(Handlers) /\ l # <<>>
ASSUME AgentFaultsAssumption == AgentFaults \subseteq AgentFaultKinds

VARIABLES
    at,        \* where each goroutine of each agent is
    got,       \* what the receiver of each stream read last
    services,  \* service.Services, set from the reflection answer
    exit,      \* the process: "off", "running", or its exit status
    target,    \* external: the list of services the target implements
    failing,   \* external: the services of the target that are not SERVING
    gone       \* external: the target's process is dead

agentVars == <<at, got, services, exit, target, failing, gone>>

Goroutines == {"main", "watcher", "reflection", "health"}
Streams == {"reflection", "health"}

\* "none" and "done": not started, ended.  "waitc" and "errc": receiving from
\* the two channels of a client.  "recv": in Recv of the stream.  "sendResp"
\* and "sendErr": sending on those channels.  "spin": io.EOF again and again.
Places == {"none", "start", "waitc", "errc", "register", "registering", "quit",
           "watch", "unregister", "unregistering", "sendQuit", "done",
           "recv", "sendResp", "sendErr", "spin"}
Readings == {"none", "list", "refused", "NOT_SERVING", "error"}
ExitStatus == {"off", "running", "0", "2", "killed"}

ElementsOf(l) == {l[k] : k \in 1 .. Len(l)}

AgentTypeOK ==
    /\ at \in [Instances -> [Goroutines -> Places]]
    /\ got \in [Instances -> [Streams -> Readings]]
    /\ services \in [Instances -> ServiceLists \cup {<<>>}]
    /\ exit \in [Instances -> ExitStatus]
    /\ target \in [Instances -> ServiceLists]
    /\ failing \in [Instances -> SUBSET Handlers]
    /\ gone \in [Instances -> BOOLEAN]

NoGoroutine == [g \in Goroutines |-> "none"]

AgentInit ==
    /\ at = [a \in Instances |-> NoGoroutine]
    /\ got = [a \in Instances |-> [s \in Streams |-> "none"]]
    /\ services = [a \in Instances |-> <<>>]
    /\ exit = [a \in Instances |-> "off"]
    /\ target \in [Instances -> ServiceLists]
    /\ failing = [a \in Instances |-> {}]
    /\ gone = [a \in Instances |-> FALSE]

Running(a) == exit[a] = "running"

\* The goroutine that receives from the channels of a stream's client.
ClientOf(s) == IF s = "reflection" THEN "main" ELSE "watcher"

Exit(a, status) == exit' = [exit EXCEPT ![a] = status]

(***************************************************************************)
(* The target service (external).  Backends set every service SERVING      *)
(* before they listen and never return to SERVING from a terminal state.   *)
(***************************************************************************)
ServiceFails(a, h) ==
    /\ "degrade" \in AgentFaults
    /\ h \in ElementsOf(target[a]) \ failing[a]
    /\ failing' = [failing EXCEPT ![a] = @ \cup {h}]
    /\ UNCHANGED <<at, got, services, exit, target, gone>>

TargetDies(a) ==
    /\ "die" \in AgentFaults
    /\ ~gone[a]
    /\ gone' = [gone EXCEPT ![a] = TRUE]
    /\ UNCHANGED <<at, got, services, exit, target, failing>>

(***************************************************************************)
(* main and Execute up to RegisterService.                                 *)
(***************************************************************************)

\* main: dialling does not wait for a connection, so it does not fail here.
Start(a) ==
    /\ exit[a] = "off"
    /\ Exit(a, "running")
    /\ at' = [at EXCEPT ![a].main = "start"]
    /\ UNCHANGED <<got, services, target, failing, gone>>

\* GetImplementedServices opens the stream, sends the request and starts the
\* receiver.
OpenReflection(a) ==
    /\ Running(a)
    /\ at[a].main = "start"
    /\ at' = [at EXCEPT ![a].main = "waitc", ![a].reflection = "recv"]
    /\ UNCHANGED <<got, services, exit, target, failing, gone>>

\* ServerReflectionInfo or Send fails: Execute returns the error, which main
\* drops.
OpenReflectionFails(a) ==
    /\ Running(a)
    /\ at[a].main = "start"
    /\ "stream" \in AgentFaults \/ gone[a]
    /\ Exit(a, "0")
    /\ UNCHANGED <<at, got, services, target, failing, gone>>

\* Recv returns something else than io.EOF.
ReflectionRecv(a) ==
    /\ Running(a)
    /\ at[a].reflection = "recv"
    /\ \E r \in {"list", "refused", "error"} :
          /\ r = "list" => ~gone[a]
          /\ r = "refused" => ~gone[a] /\ "refuse" \in AgentFaults
          /\ r = "error" => gone[a] \/ "stream" \in AgentFaults
          /\ got' = [got EXCEPT ![a].reflection = r]
    /\ at' = [at EXCEPT ![a].reflection = "sendResp"]
    /\ UNCHANGED <<services, exit, target, failing, gone>>

\* Faulty variant: an error of the stream is ignored like io.EOF.
HealthRecvStatusOnly(a) ==
    /\ Running(a)
    /\ at[a].health = "recv"
    /\ ~gone[a]
    /\ Head(services[a]) \in failing[a]
    /\ got' = [got EXCEPT ![a].health = "NOT_SERVING"]
    /\ at' = [at EXCEPT ![a].health = "sendResp"]
    /\ UNCHANGED <<services, exit, target, failing, gone>>

\* HealthCheckClient's receiver: SERVING is ignored, another status or an error
\* ends the loop.
HealthRecv(a) ==
    /\ Running(a)
    /\ at[a].health = "recv"
    /\ \E r \in {"NOT_SERVING", "error"} :
          /\ r = "NOT_SERVING" => ~gone[a] /\ Head(services[a]) \in failing[a]
          /\ r = "error" => gone[a] \/ "stream" \in AgentFaults
          /\ got' = [got EXCEPT ![a].health = r]
    /\ at' = [at EXCEPT ![a].health = "sendResp"]
    /\ UNCHANGED <<services, exit, target, failing, gone>>

\* io.EOF: Recv is called again and returns io.EOF again, for ever.
RecvEOF(a, s) ==
    /\ Running(a)
    /\ at[a][s] = "recv"
    /\ "eof" \in AgentFaults
    /\ ~gone[a]
    /\ at' = [at EXCEPT ![a][s] = "spin"]
    /\ UNCHANGED <<got, services, exit, target, failing, gone>>

\* Faulty variant: WatchService returns without receiving from errorStream.
PassResponseOnly(a, s) ==
    /\ Running(a)
    /\ at[a][s] = "sendResp"
    /\ at[a][ClientOf(s)] = "waitc"
    /\ at' = [at EXCEPT ![a][s] = "sendErr",
                        ![a][ClientOf(s)] = IF s = "health" THEN "unregister" ELSE "errc"]
    /\ UNCHANGED <<got, services, exit, target, failing, gone>>

\* waitc <- response, received by the client's method.
PassResponse(a, s) ==
    /\ Running(a)
    /\ at[a][s] = "sendResp"
    /\ at[a][ClientOf(s)] = "waitc"
    /\ at' = [at EXCEPT ![a][s] = "sendErr", ![a][ClientOf(s)] = "errc"]
    /\ UNCHANGED <<got, services, exit, target, failing, gone>>

\* Faulty variant: the loop over the answer skips its first service.
PassReflectionTail(a) ==
    /\ Running(a)
    /\ at[a].reflection = "sendErr"
    /\ at[a].main = "errc"
    /\ got[a].reflection = "list"
    /\ services' = [services EXCEPT ![a] = Tail(target[a])]
    /\ at' = [at EXCEPT ![a].reflection = "done", ![a].main = "register"]
    /\ UNCHANGED <<got, exit, target, failing, gone>>

\* streamErrorC <- err, received; GetImplementedServices then returns the names
\* (SetServices), returns the error (Execute and main end), or dereferences the
\* list that an ErrorResponse does not have (the process panics).
PassReflectionError(a) ==
    /\ Running(a)
    /\ at[a].reflection = "sendErr"
    /\ at[a].main = "errc"
    /\ \/ /\ got[a].reflection = "list"
          /\ services' = [services EXCEPT ![a] = target[a]]
          /\ at' = [at EXCEPT ![a].reflection = "done", ![a].main = "register"]
          /\ UNCHANGED exit
       \/ /\ got[a].reflection = "error"
          /\ Exit(a, "0")
          /\ at' = [at EXCEPT ![a].reflection = "done", ![a].main = "done"]
          /\ UNCHANGED services
       \/ /\ got[a].reflection = "refused"
          /\ Exit(a, "2")
          /\ at' = [at EXCEPT ![a].reflection = "done", ![a].main = "done"]
          /\ UNCHANGED services
    /\ UNCHANGED <<got, target, failing, gone>>

(***************************************************************************)
(* Execute from RegisterService on.                                        *)
(***************************************************************************)
RegisterService(a) ==
    /\ Running(a)
    /\ at[a].main = "register"
    /\ at' = [at EXCEPT ![a].main = "registering"]
    /\ UNCHANGED <<got, services, exit, target, failing, gone>>

\* The master answered OK: Execute starts the watcher and waits for quit.
RegisterSucceeds(a) ==
    /\ Running(a)
    /\ at[a].main = "registering"
    /\ at' = [at EXCEPT ![a].main = "quit", ![a].watcher = "watch"]
    /\ UNCHANGED <<got, services, exit, target, failing, gone>>

\* Faulty variants: Register is tried again; what may have been registered is
\* unregistered; the error is logged and the services are watched all the same.
RegisterRetried(a) ==
    /\ Running(a)
    /\ at[a].main = "registering"
    /\ at' = [at EXCEPT ![a].main = "register"]
    /\ UNCHANGED <<got, services, exit, target, failing, gone>>
RegisterUndone(a) ==
    /\ Running(a)
    /\ at[a].main = "registering"
    /\ at' = [at EXCEPT ![a].main = "quit", ![a].watcher = "unregister"]
    /\ UNCHANGED <<got, services, exit, target, failing, gone>>
RegisterErrorLogged(a) ==
    /\ Running(a)
    /\ at[a].main = "registering"
    /\ at' = [at EXCEPT ![a].main = "quit", ![a].watcher = "watch"]
    /\ UNCHANGED <<got, services, exit, target, failing, gone>>

\* The call failed: Execute returns the error, main drops it and ends.
RegisterFails(a) ==
    /\ Running(a)
    /\ at[a].main = "registering"
    /\ at' = [at EXCEPT ![a].main = "done"]
    /\ Exit(a, "0")
    /\ UNCHANGED <<got, services, target, failing, gone>>

\* The loop over service.Services returns in its first turn, so WatchService is
\* called for the first service alone.
WatchService(a) ==
    /\ Running(a)
    /\ at[a].watcher = "watch"
    /\ at' = [at EXCEPT ![a].watcher = "waitc", ![a].health = "recv"]
    /\ UNCHANGED <<got, services, exit, target, failing, gone>>

\* Watch fails: the error is logged and the service unregistered.
WatchServiceFails(a) ==
    /\ Running(a)
    /\ at[a].watcher = "watch"
    /\ "stream" \in AgentFaults \/ gone[a]
    /\ at' = [at EXCEPT ![a].watcher = "unregister"]
    /\ UNCHANGED <<got, services, exit, target, failing, gone>>

\* errorStream <- err, received: WatchService returns.
PassHealthError(a) ==
    /\ Running(a)
    /\ at[a].health = "sendErr"
    /\ at[a].watcher = "errc"
    /\ at' = [at EXCEPT ![a].health = "done", ![a].watcher = "unregister"]
    /\ UNCHANGED <<got, services, exit, target, failing, gone>>

UnRegisterService(a) ==
    /\ Running(a)
    /\ at[a].watcher = "unregister"
    /\ at' = [at EXCEPT ![a].watcher = "unregistering"]
    /\ UNCHANGED <<got, services, exit, target, failing, gone>>

\* The call ended, with OK or an error: the result is not looked at.
UnRegisterReturns(a) ==
    /\ Running(a)
    /\ at[a].watcher = "unregistering"
    /\ at' = [at EXCEPT ![a].watcher = "sendQuit"]
    /\ UNCHANGED <<got, services, exit, target, failing, gone>>

\* quit <- true, received: Execute returns nil and main ends.
Quit(a) ==
    /\ Running(a)
    /\ at[a].watcher = "sendQuit"
    /\ at[a].main = "quit"
    /\ at' = [at EXCEPT ![a].watcher = "done", ![a].main = "done"]
    /\ Exit(a, "0")
    /\ UNCHANGED <<got, services, target, failing, gone>>

Kill(a) ==
    /\ "kill" \in AgentFaults
    /\ Running(a)
    /\ Exit(a, "killed")
    /\ UNCHANGED <<at, got, services, target, failing, gone>>

\* Steps of the agent's own goroutines that involve nobody else.
AgentStep(a) ==
    \/ OpenReflection(a) \/ OpenReflectionFails(a)
    \/ ReflectionRecv(a) \/ HealthRecv(a)
    \/ \E s \in Streams : RecvEOF(a, s) \/ PassResponse(a, s)
    \/ PassReflectionError(a) \/ PassHealthError(a)
    \/ WatchService(a) \/ WatchServiceFails(a)
    \/ Quit(a)

\* Steps that call the master or take its answer.
MasterCall(a) ==
    \/ RegisterService(a) \/ RegisterSucceeds(a) \/ RegisterFails(a)
    \/ UnRegisterService(a) \/ UnRegisterReturns(a)

TargetStep(a) == TargetDies(a) \/ \E h \in Handlers : ServiceFails(a, h)

AgentNext ==
    \E a \in Instances :
        Start(a) \/ AgentStep(a) \/ MasterCall(a) \/ TargetStep(a) \/ Kill(a)

AgentSpec == AgentInit /\ [][AgentNext]_agentVars

\* Goroutines that can run do run, and the master answers every call.  The
\* target need not fail.
AgentFairness ==
    \A a \in Instances : WF_agentVars(AgentStep(a)) /\ WF_agentVars(MasterCall(a))

FairAgentSpec == AgentSpec /\ AgentFairness

-----------------------------------------------------------------------------
(***************************************************************************)
(* Properties.                                                             *)
(***************************************************************************)

\* A receiver that is sending on a channel has a partner that will take what
\* it sends, and no receiver outlives the method that reads its channels: none
\* blocks for ever and none sends on a channel that the method has closed.
SendersAreServed ==
    \A a \in Instances, s \in Streams :
        Running(a) =>
            /\ at[a][s] = "sendResp" => at[a][ClientOf(s)] = "waitc"
            /\ at[a][s] = "sendErr" => at[a][ClientOf(s)] = "errc"
            /\ at[a][ClientOf(s)] \in {"waitc", "errc"} => at[a][s] \notin {"none", "done"}

\* An agent whose watched service stops serving, or whose target dies, ends,
\* whatever it was doing at that moment.  The exception is a receiver that has
\* seen io.EOF, which its loop asks for again for ever.
AgentEnds ==
    \A a \in Instances :
        (Running(a) /\ (gone[a] \/ Head(target[a]) \in failing[a]))
            ~> ~Running(a) \/ \E s \in Streams : at[a][s] = "spin"

\* docs/discovery_service.sequencediagram.org: the health check is called "for
\* implemented services", so that any of them that stops serving ends the
\* agent.
AnyFailureEnds ==
    \A a \in Instances : (Running(a) /\ failing[a] # {}) ~> ~Running(a)
=============================================================================
