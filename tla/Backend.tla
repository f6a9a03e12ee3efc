-------------------------------- MODULE Backend --------------------------------
(***************************************************************************)
(* What the three backends have in common: the state of a gRPC server with *)
(* a health service, the calls it takes, and their metrics.  A behaviour is*)
(* one life of the process: the counters start at 0 again in the next one. *)
(***************************************************************************)
EXTENDS CallMetrics, Sequences, SequencesExt

\* The services whose health status every backend sets to SERVING.
HealthServices == {"cityinformation.CityService", "grpc.health.v1.Health",
                   "grpc.reflection.v1alpha.ServerReflection"}

VARIABLES
    phase,    \* what the process has done
    serving,  \* the services whose status is SERVING
    inCall    \* where each call is

backendVars == <<phase, serving, inCall, metricsVars>>

BackendInit(firstPhase) ==
    /\ phase = firstPhase
    /\ serving = {}
    /\ inCall = [c \in Rpcs |-> "none"]
    /\ MetricsInit

\* The agent unregisters a backend for good at the first status that is not
\* SERVING, so a server that still takes calls never reports one: the statuses
\* are set before it listens, and changed after it has stopped taking calls.
ServingWhileListening == phase = "listening" => serving = HealthServices
================================================================================
