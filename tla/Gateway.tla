------------------------------- MODULE Gateway -------------------------------
(***************************************************************************)
(* The gateway: GetCityInformation asks the master who implements          *)
(* CityService, calls every address it is given at the same time, and      *)
(* merges the answers.                                                     *)
(*                                                                         *)
(* Everything is registered AddScoped, so each request has a ChannelFactory*)
(* of its own: requests share nothing here, and the factory's constructor  *)
(* looks the service up once before GetChannels looks it up again.  The    *)
(* master and the backends are external to this module: CityInformation    *)
(* joins them to it.                                                       *)
(***************************************************************************)
EXTENDS Integers, Sequences, FiniteSets, SequencesExt

CONSTANTS
    GatewayRequests,  \* the requests of the gateway's clients
    Backends,         \* addresses of the backends
    FieldOf,          \* the field of SearchResponse that each backend fills in
    GatewayFaults     \* the failures that may happen

Fields == {"nearbyCities", "population", "weather"}
GatewayFaultKinds == {"lookup",   \* GetServiceHandlers fails
                      "backend",  \* a backend's call fails
                      "hang"}     \* a lookup or a call never ends: none has a deadline

ASSUME FieldOfAssumption == FieldOf \in [Backends -> Fields]
ASSUME GatewayFaultsAssumption == GatewayFaults \subseteq GatewayFaultKinds
ASSUME BackendsAssumption == IsFiniteSet(Backends)

\* SearchResponse: an unset string field is empty.  The value a backend puts
\* into its field is told apart by the backend's address.
Unset == "unset"
Responses == [Fields -> Backends \cup {Unset}]
EmptyResponse == [f \in Fields |-> Unset]
ASSUME UnsetAssumption == Unset \notin Backends
ResponseOf(b) == [EmptyResponse EXCEPT ![FieldOf[b]] = b]

\* The master answers with DISTINCT addresses, in any order.
HandlerLists == UNION {SetToSeqs(S) : S \in SUBSET Backends}

VARIABLES
    stage,      \* where the request is
    instances,  \* the keys of the request's ChannelFactory._instances
    handlers,   \* the addresses that the second lookup answered
    waiting,    \* the positions in handlers whose call has not ended
    hung,       \* the positions whose call never ends, 0 for the lookup
    results,    \* the result of the task at each position
    merged,     \* how many results the merge has taken
    answer      \* the merged response

gatewayVars == <<stage, instances, handlers, waiting, hung, results, merged, answer>>

Stages == {"none", "initializing", "lookingUp", "calling", "answered", "failed"}

GatewayTypeOK ==
    /\ stage \in [GatewayRequests -> Stages]
    /\ instances \in [GatewayRequests -> SUBSET Backends]
    /\ handlers \in [GatewayRequests -> HandlerLists]
    /\ waiting \in [GatewayRequests -> SUBSET Nat]
    /\ hung \in [GatewayRequests -> SUBSET Nat]
    /\ results \in [GatewayRequests -> Seq(Responses)]
    /\ \A r \in GatewayRequests :
          /\ waiting[r] \subseteq DOMAIN handlers[r]
          /\ hung[r] \subseteq waiting[r] \cup {0}
          /\ Len(results[r]) = Len(handlers[r])
          /\ merged[r] <= Len(handlers[r])
    /\ merged \in [GatewayRequests -> Nat]
    /\ answer \in [GatewayRequests -> Responses]

GatewayInit ==
    /\ stage = [r \in GatewayRequests |-> "none"]
    /\ instances = [r \in GatewayRequests |-> {}]
    /\ handlers = [r \in GatewayRequests |-> <<>>]
    /\ waiting = [r \in GatewayRequests |-> {}]
    /\ hung = [r \in GatewayRequests |-> {}]
    /\ results = [r \in GatewayRequests |-> <<>>]
    /\ merged = [r \in GatewayRequests |-> 0]
    /\ answer = [r \in GatewayRequests |-> EmptyResponse]

\* A request arrives: its scope is built, and the constructor of ChannelFactory
\* blocks in Initialize, which looks up the only client, CityServiceClient.
Arrive(r) ==
    /\ stage[r] = "none"
    /\ stage' = [stage EXCEPT ![r] = "initializing"]
    /\ UNCHANGED <<instances, handlers, waiting, hung, results, merged, answer>>

\* Initialize gets its answer and RegisterHandlers makes a channel for every
\* address; GetChannels then sends the second lookup.
Initialize(r, list) ==
    /\ stage[r] = "initializing"
    /\ hung[r] = {}
    /\ instances' = [instances EXCEPT ![r] = @ \cup ToSet(list)]
    /\ stage' = [stage EXCEPT ![r] = "lookingUp"]
    /\ UNCHANGED <<handlers, waiting, hung, results, merged, answer>>

\* Faulty variant: the channels come from the factory, one for each key.
GetAllChannels(r, list) ==
    /\ stage[r] = "lookingUp"
    /\ hung[r] = {}
    /\ handlers' = [handlers EXCEPT ![r] = list]
    /\ instances' = [instances EXCEPT ![r] = @ \cup ToSet(list)]
    /\ waiting' = [waiting EXCEPT ![r] = 1 .. Cardinality(instances[r] \cup ToSet(list))]
    /\ results' = [results EXCEPT ![r] = [i \in DOMAIN list |-> EmptyResponse]]
    /\ stage' = [stage EXCEPT ![r] = "calling"]
    /\ UNCHANGED <<hung, merged, answer>>

\* GetChannels gets its answer.  The enumeration by Task.WhenAll makes the
\* channels the factory does not have yet and starts every call.
GetChannels(r, list) ==
    /\ stage[r] = "lookingUp"
    /\ hung[r] = {}
    /\ handlers' = [handlers EXCEPT ![r] = list]
    /\ instances' = [instances EXCEPT ![r] = @ \cup ToSet(list)]
    /\ waiting' = [waiting EXCEPT ![r] = DOMAIN list]
    /\ results' = [results EXCEPT ![r] = [i \in DOMAIN list |-> EmptyResponse]]
    /\ stage' = [stage EXCEPT ![r] = "calling"]
    /\ UNCHANGED <<hung, merged, answer>>

\* Either lookup throws: nothing catches it and the request fails.
LookupFails(r) ==
    /\ "lookup" \in GatewayFaults
    /\ stage[r] \in {"initializing", "lookingUp"}
    /\ hung[r] = {}
    /\ stage' = [stage EXCEPT ![r] = "failed"]
    /\ UNCHANGED <<instances, handlers, waiting, hung, results, merged, answer>>

BackendAnswers(r, i) ==
    /\ i \in waiting[r] \ hung[r]
    /\ waiting' = [waiting EXCEPT ![r] = @ \ {i}]
    /\ results' = [results EXCEPT ![r][i] = ResponseOf(handlers[r][i])]
    /\ UNCHANGED <<stage, instances, handlers, hung, merged, answer>>

\* The call throws, is logged, and stands for an empty response.
BackendFails(r, i) ==
    /\ "backend" \in GatewayFaults
    /\ i \in waiting[r] \ hung[r]
    /\ waiting' = [waiting EXCEPT ![r] = @ \ {i}]
    /\ results' = [results EXCEPT ![r][i] = EmptyResponse]
    /\ UNCHANGED <<stage, instances, handlers, hung, merged, answer>>

\* The server, or the way to it, stops without closing the connection: nothing in
\* the gateway ends the wait.
Hang(r, i) ==
    /\ "hang" \in GatewayFaults
    /\ \/ i = 0 /\ stage[r] \in {"initializing", "lookingUp"}
       \/ i \in waiting[r]
    /\ i \notin hung[r]
    /\ hung' = [hung EXCEPT ![r] = @ \cup {i}]
    /\ UNCHANGED <<stage, instances, handlers, waiting, results, merged, answer>>

\* Faulty variant: the result is assigned, not merged.
MergeAssign(result, res) == res

\* IMessage.MergeFrom: a field that is set in the other message replaces ours.
MergeFrom(result, res) ==
    [f \in Fields |-> IF res[f] # Unset THEN res[f] ELSE result[f]]

\* One turn of MergeAllResults' loop: the result at position i is merged.
TakeResult(r, i) ==
    /\ i \in DOMAIN results[r]
    /\ answer' = [answer EXCEPT ![r] = MergeFrom(@, results[r][i])]
    /\ merged' = [merged EXCEPT ![r] = @ + 1]
    /\ UNCHANGED <<stage, instances, handlers, waiting, hung, results>>

\* The loop has ended and the request is answered.
ReturnResult(r) ==
    /\ merged[r] = Len(results[r])
    /\ stage' = [stage EXCEPT ![r] = "answered"]
    /\ UNCHANGED <<instances, handlers, waiting, hung, results, merged, answer>>

\* Faulty variant: the merge waits for a response of every backend.
MergeWhenComplete(r) ==
    /\ stage[r] = "calling"
    /\ \A i \in DOMAIN results[r] : results[r][i] # EmptyResponse
    /\ TakeResult(r, merged[r] + 1) \/ ReturnResult(r)

\* Faulty variant: the loop runs from the last result to the first.
MergeReversed(r) ==
    /\ stage[r] = "calling"
    /\ waiting[r] = {}
    /\ TakeResult(r, Len(results[r]) - merged[r]) \/ ReturnResult(r)

\* MergeAllResults: when all tasks have ended, their results are merged one after
\* the other in the order of the list, and the request is answered.
MergeAllResults(r) ==
    /\ stage[r] = "calling"
    /\ waiting[r] = {}
    /\ TakeResult(r, merged[r] + 1) \/ ReturnResult(r)

GatewayNext ==
    \E r \in GatewayRequests :
        \/ Arrive(r)
        \/ \E list \in HandlerLists : Initialize(r, list) \/ GetChannels(r, list)
        \/ LookupFails(r)
        \/ \E i \in waiting[r] : BackendAnswers(r, i) \/ BackendFails(r, i)
        \/ \E i \in 0 .. Len(handlers[r]) : Hang(r, i)
        \/ MergeAllResults(r)

GatewaySpec == GatewayInit /\ [][GatewayNext]_gatewayVars

-----------------------------------------------------------------------------
(***************************************************************************)
(* Properties.                                                             *)
(***************************************************************************)

\* The answer depends on which backends answered and on the order of the
\* master's list, never on the order in which the answers came in: each field
\* is the one of the last backend in the list that set it.
LastInListWins ==
    \A r \in GatewayRequests : stage[r] = "answered" =>
        \A f \in Fields :
            LET setters == {i \in DOMAIN handlers[r] : results[r][i][f] # Unset}
            IN  IF setters = {} THEN answer[r][f] = Unset
                ELSE answer[r][f] = handlers[r][CHOOSE i \in setters :
                                                   \A j \in setters : j <= i]

\* Every request ends, unless a server that it waits for never ends a call: all
\* tasks are awaited together, and one that failed does not leave the others
\* unawaited.
RequestEnds ==
    \A r \in GatewayRequests :
        stage[r] = "initializing" ~> stage[r] \in {"answered", "failed"} \/ hung[r] # {}
=============================================================================
