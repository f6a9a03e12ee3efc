-------------------------------- MODULE Backends --------------------------------
(***************************************************************************)
(* The three backends.  They share no state and do not call each other, so *)
(* a behaviour is one life of one of them; which one is chosen at the      *)
(* start.                                                                  *)
(***************************************************************************)
EXTENDS WeatherServer, PopulationService, NearbyCitiesService

VARIABLE backend  \* the backend whose life this is

allVars == <<backend, backendVars, poolVars, nearbyVars>>

BackendsInit ==
    /\ PoolInit
    /\ ContextInit
    /\ \/ backend = "weather" /\ WeatherInit
       \/ backend = "population" /\ PopulationInit
       \/ backend = "nearbyCities" /\ NearbyInit

BackendsNext ==
    \/ backend = "weather" /\ WeatherNext /\ UNCHANGED <<backend, poolVars, nearbyVars>>
    \/ backend = "population" /\ PopulationNext /\ UNCHANGED <<backend, nearbyVars>>
    \/ backend = "nearbyCities" /\ NearbyNext /\ UNCHANGED <<backend, poolVars>>

BackendsSpec == BackendsInit /\ [][BackendsNext]_allVars

(***************************************************************************)
(* Fairness.  Population: a free thread takes a call that waits, a thread  *)
(* that can go on does, and OpenDataSoft ends every request but those of   *)
(* the calls in hung.  Nothing obliges an agent to end its stream.         *)
(***************************************************************************)
ThreadTakes == backend = "population" /\ TakeCall /\ UNCHANGED <<backend, nearbyVars>>
ThreadRuns(c) == backend = "population" /\ PopulationCall(c) /\ UNCHANGED <<backend, nearbyVars>>

FairBackendsSpec ==
    /\ BackendsSpec
    /\ WF_allVars(ThreadTakes)
    /\ \A c \in Rpcs : WF_allVars(ThreadRuns(c))

-----------------------------------------------------------------------------
(***************************************************************************)
(* Properties.                                                             *)
(***************************************************************************)

BackendsTypeOK ==
    \/ backend = "weather" /\ WeatherTypeOK
    \/ backend = "population" /\ PopulationTypeOK
    \/ backend = "nearbyCities" /\ NearbyTypeOK

\* What a scrape finds agrees with what the clients were answered, in each
\* backend as far as the place where it collects its metrics allows.
MetricsMatchAnswers ==
    /\ backend = "weather" => WeatherAnswersCounted
    /\ backend = "population" => PopulationAnswersCounted
    /\ backend = "nearbyCities" => NearbyAnswersCounted

\* The help text of grpc_server_started_total in all three backends: "Total
\* number of RPCs started on the server."  A call whose handler runs, and one
\* that has been counted as handled, has been started.
StartedCountsRunning ==
    Cardinality({c \in Rpcs : inCall[c] = "handling" \/ collecting[c] = "after"})
        <= grpcServerStartedTotal
=================================================================================
