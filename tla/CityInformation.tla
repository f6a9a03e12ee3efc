---------------------------- MODULE CityInformation ----------------------------
(***************************************************************************)
(* The system as a client of the gateway meets it: the gateway looks the   *)
(* backends up while agents register and unregister them, and calls them   *)
(* while they die and come back.                                           *)
(*                                                                         *)
(* The master is ServiceRegistry, which it implements and which callers    *)
(* see through their stubs (CallersSeeRegistry).  The gateway's lookups    *)
(* are its calls; an agent's Register and Unregister are the moments at    *)
(* which they take effect, once each and in this order (LifecycleOrdered). *)
(***************************************************************************)
EXTENDS Gateway

CONSTANTS
    MaxLives,   \* how often the process at each address is started
    MaxRows     \* the registrations that are ever made

ASSUME LivesAssumption == MaxLives \in Nat \ {0} /\ MaxRows \in Nat

CityService == "cityinformation.CityService"

\* Each start of a backend has an agent with an id of its own.
Agents == Backends \X (1 .. MaxLives)

VARIABLES
    table, lookup, asked, reply, seen,   \* the registry, see ServiceRegistry
    up,      \* the backends that serve
    life,    \* how often each has been started
    during,  \* history: the addresses that were listed at some moment while the
             \* request's second lookup was under way
    steady   \* history: the backends that were listed when it was sent and have
             \* neither been delisted, nor died, nor failed the request since

Registry == INSTANCE ServiceRegistry
            WITH Urls <- Backends, Instances <- Agents, Handlers <- {CityService},
                 HandlerSets <- {{CityService}}, Calls <- GatewayRequests,
                 stage <- lookup, req <- asked

registryVars == <<table, lookup, asked, reply, seen>>
backendVars == <<up, life>>
cityVars == <<gatewayVars, registryVars, backendVars, during, steady>>

Listed(t) == {t[i].Service : i \in {j \in 1 .. Len(t) : t[j].IsAlive = 1}}

CityTypeOK ==
    /\ GatewayTypeOK
    /\ table \in Seq(Registry!Rows)
    /\ lookup \in [GatewayRequests -> {"idle", "waiting", "answered"}]
    /\ asked \in [GatewayRequests -> Registry!SearchRequests \cup {Registry!NoRequest}]
    /\ reply \in [GatewayRequests -> Registry!Replies]
    /\ seen \in [GatewayRequests -> Seq(Registry!Rows)]
    /\ up \subseteq Backends
    /\ life \in [Backends -> 0 .. MaxLives]
    /\ during \in [GatewayRequests -> SUBSET Backends]
    /\ steady \in [GatewayRequests -> SUBSET Backends]

CityInit ==
    /\ GatewayInit
    /\ Registry!Init
    /\ up = {}
    /\ life = [b \in Backends |-> 0]
    /\ during = [r \in GatewayRequests |-> {}]
    /\ steady = [r \in GatewayRequests |-> {}]

(***************************************************************************)
(* Backends and their agents.                                              *)
(***************************************************************************)

\* Bound: the world is followed until every request has ended.
SomeInProgress == \E r \in GatewayRequests : stage[r] \notin {"answered", "failed"}

BackendStarts(b) ==
    /\ SomeInProgress
    /\ b \notin up
    /\ life[b] < MaxLives
    /\ up' = up \cup {b}
    /\ life' = [life EXCEPT ![b] = @ + 1]
    /\ UNCHANGED <<gatewayVars, registryVars, during, steady>>

BackendDies(b) ==
    /\ SomeInProgress
    /\ b \in up
    /\ up' = up \ {b}
    /\ steady' = [r \in GatewayRequests |-> steady[r] \ {b}]
    /\ UNCHANGED <<gatewayVars, registryVars, life, during>>

\* The rows change under the lookups that are under way.
TableChanges ==
    /\ SomeInProgress
    /\ during' = [r \in GatewayRequests |->
                     IF stage[r] = "lookingUp" /\ lookup[r] = "waiting" THEN during[r] \cup Listed(table')
                     ELSE during[r]]
    /\ steady' = [r \in GatewayRequests |-> steady[r] \cap Listed(table')]
    /\ UNCHANGED <<gatewayVars, lookup, asked, reply, seen, backendVars>>

\* An agent registers once, after it has seen its backend serve; by then the
\* backend may have died, and another life of it may have begun.
AgentRegisters(b, k) ==
    LET request == [op |-> "Register", Service |-> b, ServiceId |-> <<b, k>>,
                    Handlers |-> {CityService}]
    IN  /\ k <= life[b]
        /\ Len(table) < MaxRows
        /\ \A i \in 1 .. Len(table) : table[i].InstanceId # <<b, k>>
        /\ table' = Append(table, Registry!RowFor(request, CityService))
        /\ TableChanges

\* An agent unregisters when the watch ends, for whatever reason.  An agent that
\* is killed, or whose Unregister fails, leaves its row alive for ever.
AgentUnregisters(i) ==
    /\ table[i].IsAlive = 1
    /\ table' = [table EXCEPT ![i].IsAlive = 0]
    /\ TableChanges

(***************************************************************************)
(* The master answers lookups.                                             *)
(***************************************************************************)
MasterAnswers(r) ==
    /\ Registry!Search(r)
    /\ UNCHANGED <<gatewayVars, backendVars, during, steady>>

MasterFails ==
    /\ "lookup" \in GatewayFaults
    /\ \E C \in SUBSET {r \in GatewayRequests : lookup[r] = "waiting"} \ {{}} : Registry!Fail(C)
    /\ UNCHANGED <<gatewayVars, backendVars, during, steady>>

(***************************************************************************)
(* The gateway.  The two lookups of a request are one after the other.     *)
(***************************************************************************)
Lookup(r) ==
    Registry!Ask(r, [op |-> "Search", ServiceDefinition |-> CityService])

Answered(r, status) == lookup[r] = "answered" /\ reply[r].status = status

CityArrive(r) ==
    /\ Arrive(r)
    /\ Lookup(r)
    /\ UNCHANGED <<backendVars, during, steady>>

CityInitialize(r) ==
    /\ Answered(r, "OK")
    /\ \E list \in SetToSeqs(reply[r].Services) : Initialize(r, list)
    /\ Registry!Hangup(r)
    /\ UNCHANGED <<backendVars, during, steady>>

\* GetChannels looks the service up again.
CityLookupAgain(r) ==
    /\ stage[r] = "lookingUp"
    /\ hung[r] = {}
    /\ Lookup(r)
    /\ during' = [during EXCEPT ![r] = Listed(table)]
    /\ steady' = [steady EXCEPT ![r] = Listed(table) \cap up]
    /\ UNCHANGED <<gatewayVars, backendVars>>

\* Faulty variant: the addresses the factory knows already are called.
CityGetKnownChannels(r) ==
    /\ Answered(r, "OK")
    /\ \E list \in SetToSeqs(instances[r]) : GetChannels(r, list)
    /\ Registry!Hangup(r)
    /\ UNCHANGED <<backendVars, during, steady>>

CityGetChannels(r) ==
    /\ Answered(r, "OK")
    /\ \E list \in SetToSeqs(reply[r].Services) : GetChannels(r, list)
    /\ Registry!Hangup(r)
    /\ UNCHANGED <<backendVars, during, steady>>

CityLookupFails(r) ==
    /\ Answered(r, "ERR")
    /\ LookupFails(r)
    /\ Registry!Hangup(r)
    /\ UNCHANGED <<backendVars, during, steady>>

CityBackendAnswers(r, i) ==
    /\ BackendAnswers(r, i)
    /\ handlers[r][i] \in up
    /\ UNCHANGED <<registryVars, backendVars, during, steady>>

CityBackendFails(r, i) ==
    /\ BackendFails(r, i)
    /\ steady' = [steady EXCEPT ![r] = @ \ {handlers[r][i]}]
    /\ UNCHANGED <<registryVars, backendVars, during>>

CityHang(r, i) ==
    /\ Hang(r, i)
    /\ UNCHANGED <<registryVars, backendVars, during, steady>>

CityMerge(r) ==
    /\ MergeAllResults(r)
    /\ UNCHANGED <<registryVars, backendVars, during, steady>>

LookupStep(r) ==
    CityInitialize(r) \/ CityLookupAgain(r) \/ CityGetChannels(r) \/ CityLookupFails(r)
CallStep(r) == \E i \in waiting[r] : CityBackendAnswers(r, i) \/ CityBackendFails(r, i)

CityNext ==
    \/ \E b \in Backends :
          \/ BackendStarts(b) \/ BackendDies(b)
          \/ \E k \in 1 .. MaxLives : AgentRegisters(b, k)
    \/ \E i \in 1 .. Len(table) : AgentUnregisters(i)
    \/ MasterFails
    \/ \E r \in GatewayRequests :
          \/ CityArrive(r) \/ MasterAnswers(r) \/ LookupStep(r) \/ CallStep(r)
          \/ \E i \in 0 .. Len(handlers[r]) : CityHang(r, i)
          \/ CityMerge(r)

CitySpec == CityInit /\ [][CityNext]_cityVars

\* The master answers each lookup or fails it (CallsReturn), a call to a backend
\* is answered or fails, and the gateway's thread pool runs what can run.  That a
\* server may never end a call is the fault "hang".
FairCitySpec ==
    /\ CitySpec
    /\ \A r \in GatewayRequests :
          /\ WF_cityVars(MasterAnswers(r))
          /\ WF_cityVars(LookupStep(r))
          /\ WF_cityVars(CallStep(r))
          /\ WF_cityVars(CityMerge(r))

-----------------------------------------------------------------------------
(***************************************************************************)
(* Properties.                                                             *)
(***************************************************************************)

\* Every address that the gateway calls was listed while the request's second
\* lookup was under way, whatever the factory learned before.
CalledWasListed ==
    \A r \in GatewayRequests : ToSet(handlers[r]) \subseteq during[r]

\* A backend that is registered and serves from the second lookup to the answer,
\* and does not fail the request, has its part in the answer, unless one that
\* comes after it in the list sets the same field: no registration, death or
\* failure of another backend can leave it out.
SteadyIsAnswered ==
    \A r \in GatewayRequests : stage[r] = "answered" =>
        \A b \in steady[r] : \E i \in DOMAIN handlers[r] :
            /\ handlers[r][i] = b
            /\ \E j \in i .. Len(handlers[r]) : answer[r][FieldOf[b]] = handlers[r][j]
=============================================================================
