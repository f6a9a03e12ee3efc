----------------------------- MODULE WeatherServer -----------------------------
(***************************************************************************)
(* The weather service: start, calls of GetCityInformation through the     *)
(* metrics and logging interceptors, and the shutdown hook.                *)
(*                                                                         *)
(* The interceptor added last is the outermost, so a call is closed first  *)
(* by the logging interceptor's wrapper, then by the metrics interceptor's,*)
(* which collects and then closes the call itself.  gRPC runs every call   *)
(* on a thread of its own.  OpenWeather and gRPC are external.             *)
(***************************************************************************)
EXTENDS Backend

\* Faulty variant: the service that the agent watches is forgotten.
GrpcServicesOnly == {"grpc.health.v1.Health", "grpc.reflection.v1alpha.ServerReflection"}

\* The services whose health status start sets.
WeatherServices == {"cityinformation.CityService", "grpc.health.v1.Health",
                    "grpc.reflection.v1alpha.ServerReflection"}

WeatherTypeOK ==
    /\ phase \in {"built", "statusesSet", "failed", "listening", "shutdown", "terminal", "halted"}
    /\ serving \subseteq HealthServices
    /\ inCall \in [Rpcs -> {"none", "handling", "closing", "closed", "dropped"}]
    /\ MetricsTypeOK

\* The constructor has built the server and, for its interceptor, the metrics
\* provider, whose HTTP server runs from now on.
WeatherInit == BackendInit("built")

\* The calls of setStatus at the head of start; nobody can ask yet.
WeatherSetStatus ==
    /\ phase = "built"
    /\ phase' = "statusesSet"
    /\ serving' = serving \cup WeatherServices
    /\ UNCHANGED <<inCall, metricsVars>>

WeatherStart ==
    /\ phase = "statusesSet"
    /\ phase' = "listening"
    /\ UNCHANGED <<serving, inCall, metricsVars>>

\* server.start throws because the port is taken, and main ends before there is a
\* hook.  The HTTP server of the metrics keeps the JVM up, with nothing to do.
WeatherStartFails ==
    /\ phase = "statusesSet"
    /\ phase' = "failed"
    /\ UNCHANGED <<serving, inCall, metricsVars>>

\* A call arrives and passes interceptCall of both interceptors.
WeatherIntercept(c) ==
    /\ phase = "listening"
    /\ inCall[c] = "none"
    /\ inCall' = [inCall EXCEPT ![c] = "handling"]
    /\ UNCHANGED <<phase, serving, metricsVars>>

\* getCityInformation returns, or throws because OpenWeather failed or its
\* answer has no temperature: the call is closed through the wrappers, and the
\* metrics are collected first.
WeatherHandler(c, code) ==
    /\ phase # "halted"
    /\ inCall[c] = "handling"
    /\ inCall' = [inCall EXCEPT ![c] = "closing"]
    /\ CollectCallMetrics(c, code)
    /\ UNCHANGED <<phase, serving>>

\* Faulty variant: the call is closed before its metrics are collected.
CloseFirst(c) ==
    /\ phase # "halted"
    /\ inCall[c] = "closing"
    /\ inCall' = [inCall EXCEPT ![c] = "closed"]
    /\ SendStatus(c, statusCode[c])
    /\ UNCHANGED <<phase, serving>>

\* super.close in MetricsForwardingServerCall.
WeatherClose(c) ==
    /\ phase # "halted"
    /\ inCall[c] = "closing"
    /\ collecting[c] = "after"
    /\ inCall' = [inCall EXCEPT ![c] = "closed"]
    /\ SendStatus(c, statusCode[c])
    /\ UNCHANGED <<phase, serving>>

WeatherCollect(c) ==
    /\ phase # "halted"
    /\ Collect(c)
    /\ UNCHANGED <<phase, serving, inCall>>

\* Faulty variant: the health status changes before the server stops.
TerminalStateFirst ==
    /\ phase = "listening"
    /\ serving # {}
    /\ serving' = {}
    /\ UNCHANGED <<phase, inCall, metricsVars>>

\* The JVM is told to stop.  The hook calls server.shutdown(): no new calls are
\* taken, the ones in progress (the agent's watch too) go on.
WeatherShutdown ==
    /\ phase = "listening"
    /\ phase' = "shutdown"
    /\ UNCHANGED <<serving, inCall, metricsVars>>

\* The hook goes on: every watcher is told NOT_SERVING.
EnterTerminalState ==
    /\ phase = "shutdown"
    /\ phase' = "terminal"
    /\ serving' = {}
    /\ UNCHANGED <<inCall, metricsVars>>

\* The hook has ended and the JVM halts.  Nothing waits for calls in progress.
Halt ==
    /\ phase = "terminal"
    /\ phase' = "halted"
    /\ inCall' = [c \in Rpcs |-> IF inCall[c] \in {"handling", "closing"} THEN "dropped"
                                 ELSE inCall[c]]
    /\ UNCHANGED <<serving, metricsVars>>

WeatherCall(c) ==
    \/ \E code \in {"OK", "UNKNOWN"} : WeatherHandler(c, code)
    \/ WeatherCollect(c)
    \/ WeatherClose(c)

WeatherNext ==
    \/ WeatherSetStatus \/ WeatherStart \/ WeatherStartFails
    \/ WeatherShutdown \/ EnterTerminalState \/ Halt
    \/ \E c \in Rpcs : WeatherIntercept(c) \/ WeatherCall(c)

WeatherSpec == WeatherInit /\ [][WeatherNext]_backendVars

-----------------------------------------------------------------------------
(***************************************************************************)
(* Properties.                                                             *)
(***************************************************************************)

\* When a client has an answer, the call is in all three instruments under the
\* code the client got, and no call is there twice, however the threads that
\* collect interleave.
WeatherAnswersCounted == \A k \in Codes : CountedOnce(k, {k})
================================================================================
