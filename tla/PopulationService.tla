--------------------------- MODULE PopulationService ---------------------------
(***************************************************************************)
(* The population service: start, and calls of GetCityInformation on a     *)
(* pool of threads, through the logging and the metrics interceptor.  The  *)
(* streams of the agents, for reflection and for their watch, are served   *)
(* by the same pool: their handlers go through the interceptors too, and   *)
(* keep a thread as long as the stream lasts.  They are counted under      *)
(* other methods.                                                          *)
(*                                                                         *)
(* The first interceptor is the outermost.  The metrics interceptor counts *)
(* an exception as UNKNOWN and swallows it; the call then has no response, *)
(* and gRPC answers INTERNAL because it cannot serialize None.             *)
(* OpenDataSoft and gRPC are external.                                     *)
(***************************************************************************)
EXTENDS Backend

CONSTANTS
    MaxWorkers,  \* threads of the pool (10 in the code)
    MaxHung,     \* the calls to OpenDataSoft that may never end
    Streams      \* the streams that agents open during one life of the process

ASSUME PoolAssumption == MaxWorkers \in Nat \ {0} /\ MaxHung \in Nat
ASSUME StreamsAssumption == IsFiniteSet(Streams) /\ Streams \cap Rpcs = {}

\* Faulty variant: the services of the package's descriptor alone.
DescribedServices == {"cityinformation.CityService"}

\* The services whose health status serve sets.
PopulationServices == {"cityinformation.CityService",
                       "grpc.reflection.v1alpha.ServerReflection",
                       "grpc.health.v1.Health"}

VARIABLES
    arrived,  \* the streams that have reached the server
    queue,    \* the pool's work queue
    workers,  \* the calls and streams that have a thread of the pool
    hung,     \* the calls whose requests.get never returns
    raised    \* the calls whose handler raised

poolVars == <<arrived, queue, workers, hung, raised>>
populationVars == <<backendVars, poolVars>>

PopulationTypeOK ==
    /\ phase \in {"created", "exporting", "statusesSet", "listening", "ended"}
    /\ serving \subseteq HealthServices
    /\ arrived \subseteq Streams
    /\ queue \in Seq(Rpcs \cup arrived) /\ IsInjective(queue)
    /\ workers \subseteq Rpcs \cup arrived /\ Cardinality(workers) <= MaxWorkers
    /\ ToSet(queue) \cap workers = {}
    /\ inCall \in [Rpcs -> {"none", "queued", "handling", "collecting", "answered", "dropped"}]
    /\ \A c \in Rpcs : /\ c \in ToSet(queue) <=> inCall[c] = "queued"
                       /\ c \in workers <=> inCall[c] \in {"handling", "collecting"}
    /\ hung \subseteq workers \cap Rpcs
    /\ raised \subseteq Rpcs
    /\ MetricsTypeOK

PoolInit == arrived = {} /\ queue = <<>> /\ workers = {} /\ hung = {} /\ raised = {}

PopulationInit ==
    /\ BackendInit("created")
    /\ PoolInit

\* Prometheus.getInstance makes the instruments and starts their HTTP server.
StartMetrics ==
    /\ phase = "created"
    /\ phase' = "exporting"
    /\ UNCHANGED <<serving, inCall, poolVars, metricsVars>>

\* The loop over the services; nobody can ask yet.
PopulationSetStatus ==
    /\ phase = "exporting"
    /\ phase' = "statusesSet"
    /\ serving' = serving \cup PopulationServices
    /\ UNCHANGED <<inCall, poolVars, metricsVars>>

Listen ==
    /\ phase = "statusesSet"
    /\ phase' = "listening"
    /\ UNCHANGED <<serving, inCall, poolVars, metricsVars>>

\* serve raises (a port is taken) or a signal ends the process; there is no
\* handler for either, and the calls in progress are lost.
EndProcess ==
    /\ phase # "ended"
    /\ phase' = "ended"
    /\ inCall' = [c \in Rpcs |-> IF inCall[c] \in {"queued", "handling", "collecting"}
                                 THEN "dropped" ELSE inCall[c]]
    /\ queue' = <<>> /\ workers' = {} /\ hung' = {}
    /\ UNCHANGED <<serving, arrived, raised, metricsVars>>

\* gRPC hands a call that arrives to the pool, and a stream too.
SubmitCall(c) ==
    /\ phase = "listening"
    /\ inCall[c] = "none"
    /\ inCall' = [inCall EXCEPT ![c] = "queued"]
    /\ queue' = Append(queue, c)
    /\ UNCHANGED <<phase, serving, arrived, workers, hung, raised, metricsVars>>

SubmitStream(s) ==
    /\ phase = "listening"
    /\ s \notin arrived
    /\ arrived' = arrived \cup {s}
    /\ queue' = Append(queue, s)
    /\ UNCHANGED <<phase, serving, workers, inCall, hung, raised, metricsVars>>

\* A thread takes the oldest of those that wait; both interceptors call on.
TakeOldest ==
    /\ queue # <<>>
    /\ workers' = workers \cup {Head(queue)}
    /\ inCall' = [c \in Rpcs |-> IF c = Head(queue) THEN "handling" ELSE inCall[c]]
    /\ queue' = Tail(queue)
    /\ UNCHANGED <<phase, serving, arrived, hung, raised, metricsVars>>

\* Faulty variant: one thread too many.
TakeCallOverLimit == Cardinality(workers) <= MaxWorkers /\ TakeOldest

\* Faulty variant: the last free thread is never used.
TakeCallUnderLimit == Cardinality(workers) + 1 < MaxWorkers /\ TakeOldest

TakeCall == Cardinality(workers) < MaxWorkers /\ TakeOldest

\* Reflection ends when the agent has its answer, a watch when the agent or its
\* connection ends, if ever.
EndStream(s) ==
    /\ s \in workers
    /\ workers' = workers \ {s}
    /\ UNCHANGED <<phase, serving, arrived, queue, inCall, hung, raised, metricsVars>>

Handling(c) == inCall[c] = "handling" /\ c \notin hung

\* requests.get has no timeout.
UpstreamHangs(c) ==
    /\ Handling(c)
    /\ Cardinality(hung) < MaxHung
    /\ hung' = hung \cup {c}
    /\ UNCHANGED <<phase, serving, arrived, queue, workers, inCall, raised, metricsVars>>

HandlerReturns(c) ==
    /\ Handling(c)
    /\ inCall' = [inCall EXCEPT ![c] = "collecting"]
    /\ CollectCallMetrics(c, "OK")
    /\ UNCHANGED <<phase, serving, arrived, queue, workers, hung, raised>>

\* Faulty variant: the status set before the call is kept.
HandlerRaisesOK(c) ==
    /\ Handling(c)
    /\ inCall' = [inCall EXCEPT ![c] = "collecting"]
    /\ raised' = raised \cup {c}
    /\ CollectCallMetrics(c, "OK")
    /\ UNCHANGED <<phase, serving, arrived, queue, workers, hung>>

\* requests.get raises, the answer is not JSON, or it has no records.  None of
\* these is a grpc.RpcError, so the clause before "except Exception" is not taken.
HandlerRaises(c) ==
    /\ Handling(c)
    /\ inCall' = [inCall EXCEPT ![c] = "collecting"]
    /\ raised' = raised \cup {c}
    /\ CollectCallMetrics(c, "UNKNOWN")
    /\ UNCHANGED <<phase, serving, arrived, queue, workers, hung>>

PopulationCollect(c) ==
    /\ inCall[c] = "collecting"
    /\ Collect(c)
    /\ UNCHANGED <<phase, serving, inCall, poolVars>>

\* The interceptors return to gRPC, which answers and frees the thread.
PopulationAnswer(c) ==
    /\ inCall[c] = "collecting"
    /\ collecting[c] = "after"
    /\ inCall' = [inCall EXCEPT ![c] = "answered"]
    /\ workers' = workers \ {c}
    /\ SendStatus(c, IF c \in raised THEN "INTERNAL" ELSE "OK")
    /\ UNCHANGED <<phase, serving, arrived, queue, hung, raised>>

PopulationCall(c) ==
    HandlerReturns(c) \/ HandlerRaises(c) \/ PopulationCollect(c) \/ PopulationAnswer(c)

PopulationNext ==
    \/ StartMetrics \/ PopulationSetStatus \/ Listen \/ EndProcess
    \/ TakeCall
    \/ \E c \in Rpcs : SubmitCall(c) \/ UpstreamHangs(c) \/ PopulationCall(c)
    \/ \E s \in Streams : SubmitStream(s) \/ EndStream(s)

PopulationSpec == PopulationInit /\ [][PopulationNext]_populationVars

-----------------------------------------------------------------------------
(***************************************************************************)
(* Properties.                                                             *)
(***************************************************************************)

\* When a client has an answer, the call is in all three instruments, under OK
\* exactly if the client got a response, and no call is there twice, however
\* the threads that collect interleave.
PopulationAnswersCounted ==
    CountedOnce("OK", {"OK"}) /\ CountedOnce("UNKNOWN", {"UNKNOWN", "INTERNAL"})

\* Calls that OpenDataSoft never answers keep their threads, and so do the agents'
\* streams; as long as they are fewer than the threads, every call that waits is
\* served, unless it hangs itself or the process ends.
QueuedCallsServed ==
    \A c \in Rpcs :
        inCall[c] = "queued" ~> inCall[c] \in {"answered", "dropped"} \/ c \in hung
================================================================================
