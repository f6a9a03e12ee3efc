-------------------------- MODULE NearbyCitiesService --------------------------
(***************************************************************************)
(* The nearby cities service: start, and calls of GetCityInformation       *)
(* through the logger and the metrics interceptor.                         *)
(*                                                                         *)
(* start adds its services to the server and makes the proxy that holds    *)
(* the interceptors afterwards.  The proxy's package is not part of the    *)
(* repository: both are modelled, that calls of services added before go   *)
(* through it (proxied), and that they do not, so that neither interceptor *)
(* ever runs.                                                              *)
(*                                                                         *)
(* Node runs one callback at a time and other calls only where a function  *)
(* awaits, so collectCallMetrics is one step here.  The first interceptor  *)
(* is the outermost.  The handler calls back before next() resolves:       *)
(* unlike in the other backends, a call is answered first and counted      *)
(* later, under the code that the proxy noted in the call's context when   *)
(* the handler called back.  The package nearby-cities, grpc-js and the    *)
(* proxy are external; each await is taken for a point where other calls   *)
(* may run.                                                                *)
(***************************************************************************)
EXTENDS Backend

\* Faulty variant: the names in the order of the alphabet.
SortedStatusKeys ==
    <<"ABORTED", "ALREADY_EXISTS", "CANCELLED", "DATA_LOSS", "DEADLINE_EXCEEDED",
      "FAILED_PRECONDITION", "INTERNAL", "INVALID_ARGUMENT", "NOT_FOUND", "OK",
      "OUT_OF_RANGE", "PERMISSION_DENIED", "RESOURCE_EXHAUSTED", "UNAUTHENTICATED",
      "UNAVAILABLE", "UNIMPLEMENTED", "UNKNOWN">>

\* $enum(status).getKeys(): the names stand in the order of their numbers, from 0.
StatusKeys ==
    <<"OK", "CANCELLED", "UNKNOWN", "INVALID_ARGUMENT", "DEADLINE_EXCEEDED",
      "NOT_FOUND", "ALREADY_EXISTS", "PERMISSION_DENIED", "RESOURCE_EXHAUSTED",
      "FAILED_PRECONDITION", "ABORTED", "OUT_OF_RANGE", "UNIMPLEMENTED",
      "INTERNAL", "UNAVAILABLE", "DATA_LOSS", "UNAUTHENTICATED">>

\* status.OK; ctx.status is undefined until the handler calls back.
OkStatus == 0
NoStatus == -1

VARIABLES
    proxied,   \* calls go through the proxy's interceptors
    ctxStatus  \* ctx.status.code of each call

nearbyVars == <<proxied, ctxStatus>>

NearbyTypeOK ==
    /\ phase \in {"created", "binding", "listening", "ended"}
    /\ serving \subseteq HealthServices
    /\ inCall \in [Rpcs -> {"none", "handling", "responded", "finished", "failed", "dropped"}]
    /\ proxied \in BOOLEAN
    /\ ctxStatus \in [Rpcs -> {OkStatus, NoStatus}]
    /\ MetricsTypeOK

ContextInit ==
    /\ proxied \in BOOLEAN
    /\ ctxStatus = [c \in Rpcs |-> NoStatus]

NearbyInit == BackendInit("created") /\ ContextInit

\* start makes the health service with its statuses and calls bindAsync.
NearbyStart ==
    /\ phase = "created"
    /\ serving' = HealthServices
    /\ phase' = "binding"
    /\ UNCHANGED <<inCall, nearbyVars, metricsVars>>

\* The callback of bindAsync starts the server.
NearbyBound ==
    /\ phase = "binding"
    /\ phase' = "listening"
    /\ UNCHANGED <<serving, inCall, nearbyVars, metricsVars>>

\* The process ends.  After an error that nothing catches (the port is taken, the
\* callback ignores its error and server.start throws), the listener of 'exit'
\* changes the statuses, and nothing runs after it; a signal ends the process
\* without the listener.
NearbyExit ==
    /\ phase # "ended"
    /\ phase' = "ended"
    /\ \/ phase # "created" /\ serving' = {}
       \/ UNCHANGED serving
    /\ inCall' = [c \in Rpcs |-> IF inCall[c] \in {"handling", "responded"} THEN "dropped"
                                 ELSE inCall[c]]
    /\ UNCHANGED <<nearbyVars, metricsVars>>

\* A call arrives.  If it is proxied, both interceptors run up to their next().
NearbyIntercept(c) ==
    /\ phase = "listening"
    /\ inCall[c] = "none"
    /\ inCall' = [inCall EXCEPT ![c] = "handling"]
    /\ UNCHANGED <<phase, serving, nearbyVars, metricsVars>>

\* getCityInformation calls back with the response.
ServiceAnswers(c) ==
    /\ inCall[c] = "handling"
    /\ inCall' = [inCall EXCEPT ![c] = IF proxied THEN "responded" ELSE "finished"]
    /\ ctxStatus' = [ctxStatus EXCEPT ![c] = IF proxied THEN OkStatus ELSE NoStatus]
    /\ SendStatus(c, "OK")
    /\ UNCHANGED <<phase, serving, proxied>>

\* getCityInformation throws before it calls back: next() rejects, the metrics
\* interceptor passes the rejection on and the logger interceptor ends it.  Nothing
\* is counted, and no one calls back.  Without the interceptors the error is
\* caught nowhere in the repository, and the process may end (NearbyExit).
ServiceThrows(c) ==
    /\ inCall[c] = "handling"
    /\ inCall' = [inCall EXCEPT ![c] = "failed"]
    /\ UNCHANGED <<phase, serving, nearbyVars, metricsVars>>

\* collectCallMetrics, which nothing interrupts.
CollectAll(c, code) ==
    /\ collecting' = [collecting EXCEPT ![c] = "after"]
    /\ statusCode' = [statusCode EXCEPT ![c] = code]
    /\ grpcServerStartedTotal' = grpcServerStartedTotal + 1
    /\ grpcServerHandledTotal' = [grpcServerHandledTotal EXCEPT ![code] = @ + 1]
    /\ grpcServerHandlingSeconds' = [grpcServerHandlingSeconds EXCEPT ![code] = @ + 1]
    /\ UNCHANGED answer

\* Faulty variant: the code is read before next() is awaited, while the handler may
\* not have called back: there is none then, and the interceptor throws.
CodeReadEarly(c) ==
    /\ proxied
    /\ inCall[c] = "responded"
    /\ inCall' = [inCall EXCEPT ![c] = "failed"]
    /\ UNCHANGED <<phase, serving, nearbyVars, metricsVars>>

\* The metrics interceptor goes on after its await and reads the context.
ResumeMetrics(c) ==
    /\ proxied
    /\ inCall[c] = "responded"
    /\ inCall' = [inCall EXCEPT ![c] = "finished"]
    /\ CollectAll(c, StatusKeys[ctxStatus[c] + 1])
    /\ UNCHANGED <<phase, serving, nearbyVars>>

NearbyNext ==
    \/ NearbyStart \/ NearbyBound \/ NearbyExit
    \/ \E c \in Rpcs : \/ NearbyIntercept(c) \/ ServiceAnswers(c)
                       \/ ServiceThrows(c) \/ ResumeMetrics(c)

NearbySpec == NearbyInit /\ [][NearbyNext]_<<backendVars, nearbyVars>>

-----------------------------------------------------------------------------
(***************************************************************************)
(* Properties.                                                             *)
(***************************************************************************)

\* What a scrape finds is complete (the three instruments agree at any time), and
\* it is exactly the calls that were answered and have left the interceptors, each
\* under the code that its client got: no call is counted before its answer, and
\* none that was answered gets past the interceptors uncounted.  Without the
\* interceptors nothing is ever counted.
NearbyAnswersCounted ==
    /\ HandledTotal = grpcServerStartedTotal
    /\ grpcServerHandledTotal = grpcServerHandlingSeconds
    /\ \A k \in Codes :
          grpcServerHandledTotal[k] =
              IF proxied
              THEN Cardinality({c \in Rpcs : answer[c] = k
                                             /\ inCall[c] \notin {"responded", "dropped"}})
              ELSE 0
================================================================================
