------------------------ MODULE CityInformationProofs ------------------------
(***************************************************************************)
(* Proofs about the gateway among its backends, their agents and the       *)
(* master, for any number of requests, backends, lives and registrations.  *)
(***************************************************************************)
EXTENDS CityInformation, GatewayProofs

-----------------------------------------------------------------------------
(* Lists of addresses. *)

\* Any order of a set of addresses is a list the master may answer with.
LEMMA OrderedAddresses ==
    ASSUME NEW S \in SUBSET Backends, NEW list \in SetToSeqs(S)
    PROVE  list \in HandlerLists /\ ToSet(list) \subseteq S
  <1>1. list \in [1 .. Cardinality(S) -> S]
    BY DEF SetToSeqs
  <1> QED
    BY <1>1 DEF HandlerLists, ToSet

\* Listed addresses are addresses, and a search finds no other.
LEMMA SearchFindsListed ==
    ASSUME table \in Seq(Registry!Rows)
    PROVE  /\ Listed(table) \subseteq Backends
           /\ \A handler : Registry!AliveServices(handler) \subseteq Listed(table)
  <1>1. \A i \in 1 .. Len(table) : table[i] \in Registry!Rows
    OBVIOUS
  <1> QED
    BY <1>1 DEF Listed, Registry!AliveServices, Registry!Rows

-----------------------------------------------------------------------------
(***************************************************************************)
(* The inductive invariant.  CalledWasListed speaks of the list after the  *)
(* second lookup; what makes it hold is what is known of the lookup while  *)
(* it is under way and when it has been answered.                          *)
(***************************************************************************)
BeforeCalls == {"none", "initializing", "lookingUp"}

RequestInv(r) ==
    /\ stage[r] \in BeforeCalls => handlers[r] = <<>>
    /\ stage[r] = "lookingUp" /\ lookup[r] = "waiting" => Listed(table) \subseteq during[r]
    /\ stage[r] = "lookingUp" /\ lookup[r] = "answered" /\ reply[r].status = "OK" =>
          reply[r].Services \subseteq during[r]
    /\ ToSet(handlers[r]) \subseteq during[r]

CityTypes ==
    /\ stage \in [GatewayRequests -> Stages]
    /\ handlers \in [GatewayRequests -> HandlerLists]
    /\ table \in Seq(Registry!Rows)
    /\ lookup \in [GatewayRequests -> {"idle", "waiting", "answered"}]
    /\ reply \in [GatewayRequests -> Registry!Replies]
    /\ during \in [GatewayRequests -> SUBSET Backends]

CityInv == CityTypes /\ \A r \in GatewayRequests : RequestInv(r)

LEMMA CityInvInit ==
    ASSUME CityInit
    PROVE  CityInv
  <1>1. <<>> \in HandlerLists /\ ToSet(<<>>) = {}
    <2>1. {} \in SUBSET Backends
      OBVIOUS
    <2>2. <<>> \in SetToSeqs({})
      <3>1. Cardinality({}) = 0
        BY FS_EmptySet
      <3>2. <<>> \in [1 .. 0 -> {}]
        OBVIOUS
      <3> QED
        BY <3>1, <3>2 DEF SetToSeqs
    <2> QED
      BY <2>1, <2>2 DEF HandlerLists, ToSet
  <1>2. Registry!NoReply \in Registry!Replies
    BY DEF Registry!NoReply, Registry!Replies
  <1>3. CityTypes
    BY <1>1, <1>2 DEF CityInit, GatewayInit, Registry!Init, CityTypes, Stages
  <1>4. \A r \in GatewayRequests : RequestInv(r)
    BY <1>1 DEF CityInit, GatewayInit, Registry!Init, RequestInv, BeforeCalls
  <1> QED
    BY <1>3, <1>4 DEF CityInv

-----------------------------------------------------------------------------
(* One lemma for each kind of step. *)

\* Rows come and go: what is listed after the step is noted for the lookups
\* that are under way, and no other part of a request changes.
LEMMA TableChangePreserves ==
    ASSUME CityInv, table' \in Seq(Registry!Rows), TableChanges
    PROVE  CityInv'
  <1> USE DEF CityInv, TableChanges, gatewayVars
  <1>1. Listed(table') \subseteq Backends
    <2>1. \A i \in 1 .. Len(table') : table'[i] \in Registry!Rows
      OBVIOUS
    <2> QED
      BY <2>1 DEF Listed, Registry!Rows
  <1>2. during' \in [GatewayRequests -> SUBSET Backends]
    BY <1>1 DEF CityTypes
  <1>3. CityTypes'
    BY <1>2 DEF CityTypes
  <1>4. ASSUME NEW r \in GatewayRequests
        PROVE  RequestInv(r)'
    <2>1. /\ during[r] \subseteq during'[r]
          /\ stage[r] = "lookingUp" /\ lookup[r] = "waiting" => Listed(table') \subseteq during'[r]
      BY DEF CityTypes
    <2>2. Listed(table)' = Listed(table')
      BY DEF Listed
    <2> QED
      BY <2>1, <2>2 DEF RequestInv
  <1> QED
    BY <1>3, <1>4

LEMMA AgentRegistersPreserves ==
    ASSUME CityInv, NEW b \in Backends, NEW k \in 1 .. MaxLives, AgentRegisters(b, k)
    PROVE  CityInv'
  <1> DEFINE request == [op |-> "Register", Service |-> b, ServiceId |-> <<b, k>>,
                         Handlers |-> {CityService}]
  <1>1. Registry!RowFor(request, CityService) \in Registry!Rows
    BY DEF Registry!RowFor, Registry!Rows, Agents
  <1>2. table' = Append(table, Registry!RowFor(request, CityService)) /\ TableChanges
    BY DEF AgentRegisters
  <1>3. table' \in Seq(Registry!Rows)
    BY <1>1, <1>2 DEF CityInv, CityTypes
  <1> QED
    BY <1>2, <1>3, TableChangePreserves

LEMMA AgentUnregistersPreserves ==
    ASSUME CityInv, NEW i \in 1 .. Len(table), AgentUnregisters(i)
    PROVE  CityInv'
  <1>1. table[i] \in Registry!Rows /\ table \in Seq(Registry!Rows)
    BY DEF CityInv, CityTypes
  <1>2. [table[i] EXCEPT !.IsAlive = 0] \in Registry!Rows
    BY <1>1 DEF Registry!Rows
  <1>3. table' = [table EXCEPT ![i] = [table[i] EXCEPT !.IsAlive = 0]]
    BY <1>1 DEF AgentUnregisters
  <1>4. table' \in Seq(Registry!Rows)
    BY <1>1, <1>2, <1>3
  <1> QED
    BY <1>4, TableChangePreserves DEF AgentUnregisters

\* The master answers with what is listed at this step.
LEMMA MasterAnswersPreserves ==
    ASSUME CityInv, NEW r \in GatewayRequests, MasterAnswers(r)
    PROVE  CityInv'
  <1> DEFINE found == Registry!AliveServices(asked[r].ServiceDefinition)
  <1>1. /\ lookup[r] = "waiting"
        /\ lookup' = [lookup EXCEPT ![r] = "answered"]
        /\ reply' = [reply EXCEPT ![r] = [status |-> "OK", Services |-> found]]
        /\ UNCHANGED <<stage, handlers, table, during>>
    BY DEF MasterAnswers, Registry!Search, Registry!Answer, gatewayVars
  <1>2. found \subseteq Listed(table) /\ found \subseteq Backends
    BY SearchFindsListed DEF CityInv, CityTypes
  <1> HIDE DEF found
  <1>3. [status |-> "OK", Services |-> found] \in Registry!Replies
    BY <1>2 DEF Registry!Replies
  <1>4. CityTypes'
    BY <1>1, <1>3 DEF CityInv, CityTypes
  <1>5. ASSUME NEW q \in GatewayRequests
        PROVE  RequestInv(q)'
    <2>1. CASE q = r
      <3>1. lookup'[r] = "answered" /\ reply'[r].Services = found
        BY <1>1 DEF CityInv, CityTypes
      <3> QED
        BY <1>1, <1>2, <2>1, <3>1 DEF CityInv, RequestInv
    <2>2. CASE q # r
      BY <1>1, <2>2 DEF CityInv, CityTypes, RequestInv, Listed
    <2> QED
      BY <2>1, <2>2
  <1> QED
    BY <1>4, <1>5 DEF CityInv

LEMMA MasterFailsPreserves ==
    ASSUME CityInv, MasterFails
    PROVE  CityInv'
  <1>1. PICK C \in SUBSET GatewayRequests : Registry!Fail(C)
    BY DEF MasterFails
  <1>2. /\ lookup' = [c \in GatewayRequests |-> IF c \in C THEN "answered" ELSE lookup[c]]
        /\ reply' = [c \in GatewayRequests |-> IF c \in C
                         THEN [status |-> "ERR", Services |-> {}] ELSE reply[c]]
        /\ UNCHANGED <<stage, handlers, table, during>>
    BY <1>1 DEF MasterFails, Registry!Fail, gatewayVars
  <1>3. [status |-> "ERR", Services |-> {}] \in Registry!Replies
    BY DEF Registry!Replies
  <1>4. CityTypes'
    BY <1>2, <1>3 DEF CityInv, CityTypes
  <1>5. ASSUME NEW q \in GatewayRequests
        PROVE  RequestInv(q)'
    BY <1>2 DEF CityInv, CityTypes, RequestInv, Listed
  <1> QED
    BY <1>4, <1>5 DEF CityInv

\* A step of the gateway that leaves the list of addresses to call alone, and is
\* not in the second lookup when it ends.
LEMMA OutsideLookupPreserves ==
    ASSUME CityInv, NEW r \in GatewayRequests, NEW s \in Stages \ {"lookingUp"},
           stage' = [stage EXCEPT ![r] = s] \/ stage' = stage,
           lookup' \in [GatewayRequests -> {"idle", "waiting", "answered"}],
           reply' \in [GatewayRequests -> Registry!Replies],
           stage'[r] \in BeforeCalls => stage[r] \in BeforeCalls,
           stage'[r] # "lookingUp" \/ (lookup'[r] = lookup[r] /\ reply'[r] = reply[r]),
           \A q \in GatewayRequests \ {r} : lookup'[q] = lookup[q] /\ reply'[q] = reply[q],
           UNCHANGED <<handlers, table, during>>
    PROVE  CityInv'
  <1>1. stage' \in [GatewayRequests -> Stages]
    BY DEF CityInv, CityTypes
  <1>2. \A q \in GatewayRequests : stage'[q] = "lookingUp" => stage[q] = "lookingUp"
    BY DEF CityInv, CityTypes
  <1>3. CityTypes'
    BY <1>1 DEF CityInv, CityTypes
  <1>4. ASSUME NEW q \in GatewayRequests
        PROVE  RequestInv(q)'
    <2>1. stage'[q] = "lookingUp" =>
            stage[q] = "lookingUp" /\ lookup'[q] = lookup[q] /\ reply'[q] = reply[q]
      BY <1>2
    <2>2. Listed(table)' = Listed(table)
      BY DEF Listed
    <2>3. stage'[q] \in BeforeCalls => stage[q] \in BeforeCalls
      BY DEF CityInv, CityTypes
    <2> QED
      BY <2>1, <2>2, <2>3 DEF CityInv, RequestInv
  <1> QED
    BY <1>3, <1>4 DEF CityInv

LEMMA AloneStepPreserves ==
    ASSUME CityInv, NEW r \in GatewayRequests,
           \/ CityArrive(r) \/ CityLookupFails(r) \/ CityMerge(r)
           \/ \E i \in waiting[r] : CityBackendAnswers(r, i) \/ CityBackendFails(r, i)
           \/ \E i \in 0 .. Len(handlers[r]) : CityHang(r, i)
    PROVE  CityInv'
  <1> USE DEF gatewayVars, registryVars, backendVars
  <1>1. CASE CityArrive(r)
    <2>1. /\ stage[r] = "none"
          /\ stage' = [stage EXCEPT ![r] = "initializing"]
          /\ lookup' = [lookup EXCEPT ![r] = "waiting"]
          /\ UNCHANGED <<handlers, table, during, reply>>
      BY <1>1 DEF CityArrive, Arrive, Lookup, Registry!Ask
    <2> QED
      BY <2>1, OutsideLookupPreserves DEF CityInv, CityTypes, Stages, BeforeCalls
  <1>2. CASE CityLookupFails(r)
    <2>1. /\ stage' = [stage EXCEPT ![r] = "failed"]
          /\ lookup' = [lookup EXCEPT ![r] = "idle"]
          /\ reply' = [reply EXCEPT ![r] = Registry!NoReply]
          /\ UNCHANGED <<handlers, table, during>>
      BY <1>2 DEF CityLookupFails, LookupFails, Registry!Hangup
    <2>2. Registry!NoReply \in Registry!Replies
      BY DEF Registry!NoReply, Registry!Replies
    <2> QED
      BY <2>1, <2>2, OutsideLookupPreserves DEF CityInv, CityTypes, Stages, BeforeCalls
  <1>3. CASE CityMerge(r)
    <2>1. /\ stage[r] = "calling"
          /\ stage' = stage \/ stage' = [stage EXCEPT ![r] = "answered"]
          /\ UNCHANGED <<handlers, table, during, lookup, reply>>
      BY <1>3 DEF CityMerge, MergeAllResults, TakeResult, ReturnResult
    <2> QED
      BY <2>1, OutsideLookupPreserves DEF CityInv, CityTypes, Stages, BeforeCalls
  <1>4. CASE \/ \E i \in waiting[r] : CityBackendAnswers(r, i) \/ CityBackendFails(r, i)
             \/ \E i \in 0 .. Len(handlers[r]) : CityHang(r, i)
    <2>1. UNCHANGED <<stage, handlers, table, during, lookup, reply>>
      BY <1>4 DEF CityBackendAnswers, BackendAnswers, CityBackendFails, BackendFails,
                  CityHang, Hang
    <2> QED
      BY <2>1 DEF CityInv, CityTypes, RequestInv, Listed
  <1> QED
    BY <1>1, <1>2, <1>3, <1>4

\* The first lookup ends and the second begins: what the factory has learned
\* says nothing about the addresses to call.
LEMMA LookupPreserves ==
    ASSUME CityInv, NEW r \in GatewayRequests, CityInitialize(r) \/ CityLookupAgain(r)
    PROVE  CityInv'
  <1> USE DEF gatewayVars, backendVars
  <1>1. CASE CityInitialize(r)
    <2>1. /\ stage[r] = "initializing"
          /\ stage' = [stage EXCEPT ![r] = "lookingUp"]
          /\ lookup' = [lookup EXCEPT ![r] = "idle"]
          /\ reply' = [reply EXCEPT ![r] = Registry!NoReply]
          /\ UNCHANGED <<handlers, table, during>>
      BY <1>1 DEF CityInitialize, Initialize, Registry!Hangup
    <2>2. Registry!NoReply \in Registry!Replies
      BY DEF Registry!NoReply, Registry!Replies
    <2>3. CityTypes'
      BY <2>1, <2>2 DEF CityInv, CityTypes, Stages
    <2>4. ASSUME NEW q \in GatewayRequests
          PROVE  RequestInv(q)'
      BY <2>1 DEF CityInv, CityTypes, RequestInv, BeforeCalls, Listed
    <2> QED
      BY <2>3, <2>4 DEF CityInv
  <1>2. CASE CityLookupAgain(r)
    <2>1. /\ lookup[r] = "idle"
          /\ lookup' = [lookup EXCEPT ![r] = "waiting"]
          /\ during' = [during EXCEPT ![r] = Listed(table)]
          /\ stage[r] = "lookingUp"
          /\ UNCHANGED <<stage, handlers, table, reply>>
      BY <1>2 DEF CityLookupAgain, Lookup, Registry!Ask
    <2>2. Listed(table) \subseteq Backends /\ Listed(table)' = Listed(table)
      BY <2>1, SearchFindsListed DEF CityInv, CityTypes, Listed
    <2>3. CityTypes'
      BY <2>1, <2>2 DEF CityInv, CityTypes
    <2>4. ASSUME NEW q \in GatewayRequests
          PROVE  RequestInv(q)'
      BY <2>1, <2>2 DEF CityInv, CityTypes, RequestInv, BeforeCalls, ToSet
    <2> QED
      BY <2>3, <2>4 DEF CityInv
  <1> QED
    BY <1>1, <1>2

\* The second lookup's answer is the list to call.
LEMMA GetChannelsPreserves ==
    ASSUME CityInv, NEW r \in GatewayRequests, CityGetChannels(r)
    PROVE  CityInv'
  <1>1. PICK list \in SetToSeqs(reply[r].Services) : GetChannels(r, list)
    BY DEF CityGetChannels
  <1>2. /\ stage[r] = "lookingUp" /\ lookup[r] = "answered" /\ reply[r].status = "OK"
        /\ stage' = [stage EXCEPT ![r] = "calling"]
        /\ handlers' = [handlers EXCEPT ![r] = list]
        /\ lookup' = [lookup EXCEPT ![r] = "idle"]
        /\ reply' = [reply EXCEPT ![r] = Registry!NoReply]
        /\ UNCHANGED <<table, during>>
    BY <1>1 DEF CityGetChannels, GetChannels, Answered, Registry!Hangup
  <1>3. reply[r].Services \in SUBSET Backends /\ reply[r].Services \subseteq during[r]
    BY <1>2 DEF CityInv, CityTypes, RequestInv, Registry!Replies
  <1>4. list \in HandlerLists /\ ToSet(list) \subseteq during[r]
    BY <1>3, OrderedAddresses
  <1>5. Registry!NoReply \in Registry!Replies
    BY DEF Registry!NoReply, Registry!Replies
  <1>6. CityTypes'
    BY <1>2, <1>4, <1>5 DEF CityInv, CityTypes, Stages
  <1>7. ASSUME NEW q \in GatewayRequests
        PROVE  RequestInv(q)'
    <2>1. CASE q = r
      BY <1>2, <1>4, <2>1 DEF CityInv, CityTypes, RequestInv, BeforeCalls
    <2>2. CASE q # r
      BY <1>2, <2>2 DEF CityInv, CityTypes, RequestInv, Listed
    <2> QED
      BY <2>1, <2>2
  <1> QED
    BY <1>6, <1>7 DEF CityInv

LEMMA BackendStepPreserves ==
    ASSUME CityInv, NEW b \in Backends, BackendStarts(b) \/ BackendDies(b)
    PROVE  CityInv'
  <1>1. UNCHANGED <<stage, handlers, table, during, lookup, reply>>
    BY DEF BackendStarts, BackendDies, gatewayVars, registryVars
  <1> QED
    BY <1>1 DEF CityInv, CityTypes, RequestInv, Listed

LEMMA CityInvStep ==
    ASSUME CityInv, [CityNext]_cityVars
    PROVE  CityInv'
  <1>1. CASE \E b \in Backends : BackendStarts(b) \/ BackendDies(b)
    BY <1>1, BackendStepPreserves
  <1>2. CASE \E b \in Backends : \E k \in 1 .. MaxLives : AgentRegisters(b, k)
    BY <1>2, AgentRegistersPreserves
  <1>3. CASE \E i \in 1 .. Len(table) : AgentUnregisters(i)
    BY <1>3, AgentUnregistersPreserves
  <1>4. CASE MasterFails
    BY <1>4, MasterFailsPreserves
  <1>5. ASSUME NEW r \in GatewayRequests,
               \/ CityArrive(r) \/ MasterAnswers(r) \/ LookupStep(r) \/ CallStep(r)
               \/ \E i \in 0 .. Len(handlers[r]) : CityHang(r, i)
               \/ CityMerge(r)
        PROVE  CityInv'
    <2>1. CASE MasterAnswers(r)
      BY <2>1, MasterAnswersPreserves
    <2>2. CASE CityInitialize(r) \/ CityLookupAgain(r)
      BY <2>2, LookupPreserves
    <2>3. CASE CityGetChannels(r)
      BY <2>3, GetChannelsPreserves
    <2>4. CASE \/ CityArrive(r) \/ CityLookupFails(r) \/ CityMerge(r) \/ CallStep(r)
               \/ \E i \in 0 .. Len(handlers[r]) : CityHang(r, i)
      BY <2>4, AloneStepPreserves DEF CallStep
    <2> QED
      BY <1>5, <2>1, <2>2, <2>3, <2>4 DEF LookupStep
  <1>6. CASE UNCHANGED cityVars
    BY <1>6 DEF cityVars, gatewayVars, registryVars, CityInv, CityTypes, RequestInv, Listed
  <1> QED
    BY <1>1, <1>2, <1>3, <1>4, <1>5, <1>6 DEF CityNext

\* Every answer of the master that the gateway meets is a list of Gateway, and no
\* step of a backend, an agent or the master touches a request.
LEMMA CityStepIsGatewayStep ==
    ASSUME CityInv, [CityNext]_cityVars
    PROVE  [GatewayNext]_gatewayVars
  <1> USE DEF registryVars, backendVars
  <1>1. ASSUME NEW r \in GatewayRequests, CityInitialize(r) \/ CityGetChannels(r)
        PROVE  GatewayNext
    <2>1. reply[r].Services \in SUBSET Backends
      BY DEF CityInv, CityTypes, Registry!Replies
    <2>2. PICK list \in SetToSeqs(reply[r].Services) :
              Initialize(r, list) \/ GetChannels(r, list)
      BY <1>1 DEF CityInitialize, CityGetChannels
    <2>3. list \in HandlerLists
      BY <2>1, OrderedAddresses
    <2> QED
      BY <2>2, <2>3 DEF GatewayNext
  <1>2. ASSUME NEW r \in GatewayRequests,
               \/ CityArrive(r) \/ CityLookupFails(r) \/ CityMerge(r) \/ CallStep(r)
               \/ \E i \in 0 .. Len(handlers[r]) : CityHang(r, i)
        PROVE  GatewayNext
    BY <1>2 DEF CityArrive, CityLookupFails, CityMerge, CallStep, CityBackendAnswers,
                CityBackendFails, CityHang, GatewayNext
  <1>3. CASE \/ MasterFails
             \/ \E r \in GatewayRequests : MasterAnswers(r) \/ CityLookupAgain(r)
             \/ \E b \in Backends :
                   \/ BackendStarts(b) \/ BackendDies(b)
                   \/ \E k \in 1 .. MaxLives : AgentRegisters(b, k)
             \/ \E i \in 1 .. Len(table) : AgentUnregisters(i)
             \/ UNCHANGED cityVars
    BY <1>3 DEF MasterFails, MasterAnswers, CityLookupAgain, BackendStarts, BackendDies,
                AgentRegisters, AgentUnregisters, TableChanges, cityVars
  <1> QED
    BY <1>1, <1>2, <1>3 DEF CityNext, LookupStep

-----------------------------------------------------------------------------
(***************************************************************************)
(* The second invariant.  SteadyIsAnswered speaks of the end of a request; *)
(* what makes it hold is where the steady backends are on the way there:   *)
(* among those that are listed while the second lookup is under way, in    *)
(* its answer, and then in the list, where each of them whose call has     *)
(* ended has its own response.                                             *)
(***************************************************************************)
WorldTypes ==
    /\ asked \in [GatewayRequests -> Registry!SearchRequests \cup {Registry!NoRequest}]
    /\ seen \in [GatewayRequests -> Seq(Registry!Rows)]
    /\ up \subseteq Backends
    /\ life \in [Backends -> 0 .. MaxLives]
    /\ steady \in [GatewayRequests -> SUBSET Backends]

SteadyInv(r) ==
    /\ stage[r] = "lookingUp" /\ lookup[r] = "waiting" => steady[r] \subseteq Listed(table)
    /\ stage[r] = "lookingUp" /\ lookup[r] = "answered" /\ reply[r].status = "OK" =>
          steady[r] \subseteq reply[r].Services
    /\ stage[r] \in {"calling", "answered"} =>
          /\ \A b \in steady[r] : \E i \in DOMAIN handlers[r] : handlers[r][i] = b
          /\ \A i \in DOMAIN handlers[r] \ waiting[r] :
                handlers[r][i] \in steady[r] => results[r][i] = ResponseOf(handlers[r][i])

CityIInv ==
    /\ GatewayIInv
    /\ CityInv
    /\ WorldTypes
    /\ \A r \in GatewayRequests : SteadyInv(r)

\* A search for CityService finds all that is listed: a city's backends register
\* nothing else, and the gateway asks for nothing else.
LEMMA SearchFindsAllListed ==
    ASSUME CityIInv, NEW r \in GatewayRequests, asked[r].op = "Search"
    PROVE  Registry!AliveServices(asked[r].ServiceDefinition) = Listed(table)
  <1>1. asked[r].ServiceDefinition = CityService
    BY DEF CityIInv, WorldTypes, Registry!SearchRequests, Registry!NoRequest
  <1>2. \A i \in 1 .. Len(table) : table[i].Handler = CityService
    <2>1. \A i \in 1 .. Len(table) : table[i] \in Registry!Rows
      BY DEF CityIInv, CityInv, CityTypes
    <2> QED
      BY <2>1 DEF Registry!Rows
  <1> QED
    BY <1>1, <1>2 DEF Registry!AliveServices, Listed

\* The master's list leaves out none of the addresses it has found.
LEMMA ListIsComplete ==
    ASSUME NEW S \in SUBSET Backends, NEW list \in SetToSeqs(S)
    PROVE  \A b \in S : \E i \in DOMAIN list : list[i] = b
  <1>1. IsFiniteSet(S) /\ Cardinality(S) \in Nat
    BY BackendsAssumption, FS_Subset, FS_CardinalityType
  <1> DEFINE D == 1 .. Cardinality(S)
  <1>2. list \in Injection(D, S)
    BY DEF SetToSeqs, Injection, IsInjective
  <1>3. Cardinality(D) = Cardinality(S)
    BY <1>1, FS_Interval
  <1>4. list \in Surjection(D, S)
    BY <1>1, <1>2, <1>3, FS_Injection
  <1> QED
    BY <1>4 DEF Surjection

LEMMA CityIInvInit ==
    ASSUME CityInit
    PROVE  CityIInv
  <1>1. GatewayIInv /\ CityInv
    BY GatewayInvInit, CityInvInit DEF CityInit
  <1>2. WorldTypes
    BY LivesAssumption DEF CityInit, Registry!Init, WorldTypes
  <1>3. \A r \in GatewayRequests : SteadyInv(r)
    BY DEF CityInit, GatewayInit, SteadyInv
  <1> QED
    BY <1>1, <1>2, <1>3 DEF CityIInv

\* The registry's and the backends' variables keep their types.
LEMMA WorldTypesStep ==
    ASSUME CityIInv, [CityNext]_cityVars
    PROVE  WorldTypes'
  <1> USE DEF CityIInv, WorldTypes, registryVars, backendVars
  <1>1. ASSUME NEW b \in Backends, BackendStarts(b) \/ BackendDies(b)
        PROVE  WorldTypes'
    <2>1. CASE BackendStarts(b)
      <3>1. life[b] + 1 \in 0 .. MaxLives
        BY <2>1, LivesAssumption DEF BackendStarts
      <3> QED
        BY <2>1, <3>1 DEF BackendStarts
    <2>2. CASE BackendDies(b)
      BY <2>2 DEF BackendDies
    <2> QED
      BY <1>1, <2>1, <2>2
  <1>2. CASE TableChanges
    BY <1>2 DEF TableChanges
  <1>3. ASSUME NEW r \in GatewayRequests, Lookup(r), UNCHANGED backendVars,
               steady' \in [GatewayRequests -> SUBSET Backends]
        PROVE  WorldTypes'
    <2>1. [op |-> "Search", ServiceDefinition |-> CityService] \in Registry!SearchRequests
      BY DEF Registry!SearchRequests
    <2>2. table \in Seq(Registry!Rows)
      BY DEF CityInv, CityTypes
    <2> QED
      BY <1>3, <2>1, <2>2 DEF Lookup, Registry!Ask
  <1>4. ASSUME NEW r \in GatewayRequests, Registry!Hangup(r), UNCHANGED <<backendVars, steady>>
        PROVE  WorldTypes'
    BY <1>4 DEF Registry!Hangup
  <1>5. CASE MasterFails \/ \E r \in GatewayRequests : MasterAnswers(r)
    BY <1>5 DEF MasterFails, MasterAnswers, Registry!Fail, Registry!Search
  <1>6. ASSUME NEW r \in GatewayRequests, CityLookupAgain(r)
        PROVE  WorldTypes'
    BY <1>3, <1>6 DEF CityLookupAgain
  <1>7. ASSUME NEW r \in GatewayRequests, CallStep(r) \/ CityMerge(r)
        PROVE  WorldTypes'
    BY <1>7 DEF CallStep, CityBackendAnswers, CityBackendFails, CityMerge
  <1>8. ASSUME NEW r \in GatewayRequests, \E i \in 0 .. Len(handlers[r]) : CityHang(r, i)
        PROVE  WorldTypes'
    BY <1>8 DEF CityHang
  <1>9. ASSUME NEW r \in GatewayRequests, CityArrive(r)
        PROVE  WorldTypes'
    BY <1>3, <1>9 DEF CityArrive
  <1>10. ASSUME NEW r \in GatewayRequests,
                CityInitialize(r) \/ CityGetChannels(r) \/ CityLookupFails(r)
         PROVE  WorldTypes'
    BY <1>4, <1>10 DEF CityInitialize, CityGetChannels, CityLookupFails
  <1>11. CASE UNCHANGED cityVars
    BY <1>11 DEF cityVars
  <1> QED
    BY <1>1, <1>2, <1>5, <1>6, <1>7, <1>8, <1>9, <1>10, <1>11
    DEF CityNext, LookupStep, AgentRegisters, AgentUnregisters

\* A request that a step does not touch loses steady backends at most.
LEMMA UntouchedStaysSteady ==
    ASSUME NEW q \in GatewayRequests, SteadyInv(q),
           stage'[q] = stage[q], handlers'[q] = handlers[q], waiting'[q] = waiting[q],
           results'[q] = results[q], lookup'[q] = lookup[q], reply'[q] = reply[q],
           steady'[q] \subseteq steady[q],
           stage[q] = "lookingUp" /\ lookup[q] = "waiting" => steady'[q] \subseteq Listed(table')
    PROVE  SteadyInv(q)'
  BY DEF SteadyInv, Listed

\* A step of request r alone, the rows and the backends staying as they are.
LEMMA OthersStaySteady ==
    ASSUME CityIInv, NEW r \in GatewayRequests, SteadyInv(r)', table' = table,
           \A q \in GatewayRequests \ {r} :
              /\ stage'[q] = stage[q] /\ handlers'[q] = handlers[q]
              /\ waiting'[q] = waiting[q] /\ results'[q] = results[q]
              /\ lookup'[q] = lookup[q] /\ reply'[q] = reply[q] /\ steady'[q] = steady[q]
    PROVE  \A q \in GatewayRequests : SteadyInv(q)'
  <1>1. ASSUME NEW q \in GatewayRequests \ {r}
        PROVE  SteadyInv(q)'
    <2>1. stage[q] = "lookingUp" /\ lookup[q] = "waiting" => steady'[q] \subseteq Listed(table')
      BY DEF CityIInv, SteadyInv
    <2> QED
      BY <2>1, UntouchedStaysSteady DEF CityIInv
  <1> QED
    BY <1>1

\* The world changes around the requests.
LEMMA WorldKeepsSteady ==
    ASSUME CityIInv,
           TableChanges \/ \E b \in Backends : BackendStarts(b) \/ BackendDies(b)
    PROVE  \A q \in GatewayRequests : SteadyInv(q)'
  <1> SUFFICES ASSUME NEW q \in GatewayRequests
               PROVE  SteadyInv(q)'
    OBVIOUS
  <1>1. UNCHANGED <<stage, handlers, waiting, results, lookup, reply>>
    BY DEF TableChanges, BackendStarts, BackendDies, gatewayVars, registryVars
  <1>2. CASE TableChanges
    <2>1. steady'[q] = steady[q] \cap Listed(table')
      BY <1>2 DEF TableChanges
    <2> QED
      BY <1>1, <2>1, UntouchedStaysSteady DEF CityIInv
  <1>3. ASSUME NEW b \in Backends, BackendStarts(b) \/ BackendDies(b)
        PROVE  SteadyInv(q)'
    <2>1. steady'[q] \subseteq steady[q] /\ table' = table
      BY <1>3 DEF BackendStarts, BackendDies, registryVars
    <2>2. stage[q] = "lookingUp" /\ lookup[q] = "waiting" => steady'[q] \subseteq Listed(table')
      BY <2>1 DEF CityIInv, SteadyInv
    <2> QED
      BY <1>1, <2>1, <2>2, UntouchedStaysSteady DEF CityIInv
  <1> QED
    BY <1>2, <1>3

\* The master answers with every backend that is steady.
LEMMA MasterKeepsSteady ==
    ASSUME CityIInv, MasterFails \/ \E r \in GatewayRequests : MasterAnswers(r)
    PROVE  \A q \in GatewayRequests : SteadyInv(q)'
  <1>1. UNCHANGED <<stage, handlers, waiting, results, table, steady>>
    BY DEF MasterFails, MasterAnswers, Registry!Fail, Registry!Search, gatewayVars
  <1>2. ASSUME NEW r \in GatewayRequests, MasterAnswers(r)
        PROVE  \A q \in GatewayRequests : SteadyInv(q)'
    <2> DEFINE found == Registry!AliveServices(asked[r].ServiceDefinition)
    <2>1. /\ lookup[r] = "waiting" /\ asked[r].op = "Search"
          /\ lookup' = [lookup EXCEPT ![r] = "answered"]
          /\ reply' = [reply EXCEPT ![r] = [status |-> "OK", Services |-> found]]
      BY <1>2 DEF MasterAnswers, Registry!Search, Registry!Answer
    <2>2. found = Listed(table)
      BY <2>1, SearchFindsAllListed
    <2> HIDE DEF found
    <2>3. lookup'[r] = "answered" /\ reply'[r].Services = Listed(table)
      BY <2>1, <2>2 DEF CityIInv, CityInv, CityTypes
    <2>4. SteadyInv(r)'
      BY <1>1, <2>1, <2>3 DEF CityIInv, SteadyInv
    <2>5. \A q \in GatewayRequests \ {r} : lookup'[q] = lookup[q] /\ reply'[q] = reply[q]
      BY <2>1 DEF CityIInv, CityInv, CityTypes
    <2> QED
      BY <1>1, <2>4, <2>5, OthersStaySteady
  <1>3. CASE MasterFails
    <2>1. PICK C \in SUBSET GatewayRequests : Registry!Fail(C)
      BY <1>3 DEF MasterFails
    <2>2. /\ lookup' = [c \in GatewayRequests |-> IF c \in C THEN "answered" ELSE lookup[c]]
          /\ reply' = [c \in GatewayRequests |-> IF c \in C
                           THEN [status |-> "ERR", Services |-> {}] ELSE reply[c]]
      BY <2>1 DEF Registry!Fail
    <2> QED
      BY <1>1, <2>2 DEF CityIInv, SteadyInv, Listed
  <1> QED
    BY <1>2, <1>3

\* A request goes on, without calling anyone.
LEMMA LookupsKeepSteady ==
    ASSUME CityIInv, NEW r \in GatewayRequests,
           CityArrive(r) \/ CityInitialize(r) \/ CityLookupAgain(r) \/ CityLookupFails(r)
    PROVE  \A q \in GatewayRequests : SteadyInv(q)'
  <1> USE DEF CityIInv, CityInv, CityTypes, WorldTypes, backendVars
  <1>1. CASE CityArrive(r)
    <2>1. /\ stage' = [stage EXCEPT ![r] = "initializing"]
          /\ lookup' = [lookup EXCEPT ![r] = "waiting"]
          /\ UNCHANGED <<handlers, waiting, results, reply, steady, table>>
      BY <1>1 DEF CityArrive, Arrive, Lookup, Registry!Ask
    <2>2. SteadyInv(r)'
      BY <2>1 DEF SteadyInv
    <2> QED
      BY <2>1, <2>2, OthersStaySteady
  <1>2. CASE CityInitialize(r)
    <2>1. /\ stage' = [stage EXCEPT ![r] = "lookingUp"]
          /\ lookup' = [lookup EXCEPT ![r] = "idle"]
          /\ reply' = [reply EXCEPT ![r] = Registry!NoReply]
          /\ UNCHANGED <<handlers, waiting, results, steady, table>>
      BY <1>2 DEF CityInitialize, Initialize, Registry!Hangup
    <2>2. SteadyInv(r)'
      BY <2>1 DEF SteadyInv
    <2> QED
      BY <2>1, <2>2, OthersStaySteady
  <1>3. CASE CityLookupAgain(r)
    <2>1. /\ stage[r] = "lookingUp"
          /\ lookup' = [lookup EXCEPT ![r] = "waiting"]
          /\ steady' = [steady EXCEPT ![r] = Listed(table) \cap up]
          /\ UNCHANGED <<stage, handlers, waiting, results, reply, table>>
      BY <1>3 DEF CityLookupAgain, Lookup, Registry!Ask, gatewayVars
    <2>2. SteadyInv(r)'
      BY <2>1 DEF SteadyInv, Listed
    <2> QED
      BY <2>1, <2>2, OthersStaySteady
  <1>4. CASE CityLookupFails(r)
    <2>1. /\ stage' = [stage EXCEPT ![r] = "failed"]
          /\ lookup' = [lookup EXCEPT ![r] = "idle"]
          /\ reply' = [reply EXCEPT ![r] = Registry!NoReply]
          /\ UNCHANGED <<handlers, waiting, results, steady, table>>
      BY <1>4 DEF CityLookupFails, LookupFails, Registry!Hangup
    <2>2. SteadyInv(r)'
      BY <2>1 DEF SteadyInv
    <2> QED
      BY <2>1, <2>2, OthersStaySteady
  <1> QED
    BY <1>1, <1>2, <1>3, <1>4

\* Every steady backend is in the list, and none of the calls has ended.
LEMMA GetChannelsKeepsSteady ==
    ASSUME CityIInv, NEW r \in GatewayRequests, CityGetChannels(r)
    PROVE  \A q \in GatewayRequests : SteadyInv(q)'
  <1> USE DEF CityIInv, CityInv, CityTypes
  <1>1. PICK list \in SetToSeqs(reply[r].Services) : GetChannels(r, list)
    BY DEF CityGetChannels
  <1> DEFINE empty == [i \in DOMAIN list |-> EmptyResponse]
  <1>2. /\ stage[r] = "lookingUp" /\ lookup[r] = "answered" /\ reply[r].status = "OK"
        /\ stage' = [stage EXCEPT ![r] = "calling"]
        /\ handlers' = [handlers EXCEPT ![r] = list]
        /\ waiting' = [waiting EXCEPT ![r] = DOMAIN list]
        /\ results' = [results EXCEPT ![r] = empty]
        /\ lookup' = [lookup EXCEPT ![r] = "idle"]
        /\ reply' = [reply EXCEPT ![r] = Registry!NoReply]
        /\ UNCHANGED <<table, steady>>
    BY <1>1 DEF CityGetChannels, GetChannels, Answered, Registry!Hangup
  <1>3. waiting \in [GatewayRequests -> SUBSET Nat] /\ results \in [GatewayRequests -> Seq(Responses)]
    BY DEF GatewayIInv, GatewayTypes
  <1>4. reply[r].Services \in SUBSET Backends
    BY DEF Registry!Replies
  <1>5. \A b \in reply[r].Services : \E i \in DOMAIN list : list[i] = b
    BY <1>4, ListIsComplete
  <1>6. steady[r] \subseteq reply[r].Services
    BY <1>2 DEF SteadyInv
  <1>7. SteadyInv(r)'
    BY <1>2, <1>3, <1>5, <1>6 DEF SteadyInv
  <1>8. \A q \in GatewayRequests \ {r} :
            /\ stage'[q] = stage[q] /\ handlers'[q] = handlers[q]
            /\ waiting'[q] = waiting[q] /\ results'[q] = results[q]
            /\ lookup'[q] = lookup[q] /\ reply'[q] = reply[q] /\ steady'[q] = steady[q]
    BY <1>2, <1>3
  <1> QED
    BY <1>2, <1>7, <1>8, OthersStaySteady

\* A call that ends gives its backend's response, or its backend is not steady.
LEMMA CallsKeepSteady ==
    ASSUME CityIInv, NEW r \in GatewayRequests, NEW i \in waiting[r],
           CityBackendAnswers(r, i) \/ CityBackendFails(r, i)
    PROVE  \A q \in GatewayRequests : SteadyInv(q)'
  <1> USE DEF registryVars, backendVars
  <1>1. PICK res \in Responses :
            /\ results' = [results EXCEPT ![r][i] = res]
            /\ res = ResponseOf(handlers[r][i]) \/ handlers[r][i] \notin steady'[r]
    <2>1. i \in DOMAIN handlers[r] /\ handlers[r][i] \in Backends
      BY ListTypes DEF CityIInv, GatewayIInv, CallsInv
    <2>2. CASE CityBackendAnswers(r, i)
      BY <2>1, <2>2, ResponseSetsOneField DEF CityBackendAnswers, BackendAnswers
    <2>3. CASE CityBackendFails(r, i)
      <3>1. handlers[r][i] \notin steady'[r]
        BY <2>3 DEF CityBackendFails, CityIInv, WorldTypes
      <3> QED
        BY <2>3, <3>1, EmptyIsAResponse DEF CityBackendFails, BackendFails
    <2> QED
      BY <2>2, <2>3
  <1>2. /\ waiting' = [waiting EXCEPT ![r] = @ \ {i}]
        /\ steady'[r] \subseteq steady[r]
        /\ \A q \in GatewayRequests \ {r} : steady'[q] = steady[q]
        /\ UNCHANGED <<stage, handlers, lookup, reply, table>>
    BY DEF CityBackendAnswers, BackendAnswers, CityBackendFails, BackendFails,
           CityIInv, WorldTypes
  <1>3. /\ results'[r] = [results[r] EXCEPT ![i] = res]
        /\ waiting'[r] = waiting[r] \ {i}
        /\ \A q \in GatewayRequests \ {r} : results'[q] = results[q] /\ waiting'[q] = waiting[q]
    BY <1>1, <1>2 DEF CityIInv, GatewayIInv, GatewayTypes
  <1>4. i \in DOMAIN results[r] /\ DOMAIN results[r] = DOMAIN handlers[r]
    BY ListTypes DEF CityIInv, GatewayIInv, CallsInv
  <1>5. \A j \in DOMAIN handlers[r] \ waiting'[r] :
            \/ j = i /\ results'[r][j] = res
            \/ j \notin waiting[r] /\ results'[r][j] = results[r][j]
    BY <1>3, <1>4
  <1>6. SteadyInv(r)'
    BY <1>1, <1>2, <1>5 DEF CityIInv, SteadyInv, Listed
  <1> QED
    BY <1>2, <1>3, <1>6, OthersStaySteady

\* No result changes while they are merged, and a call that hangs has not ended.
LEMMA MergeKeepsSteady ==
    ASSUME CityIInv, NEW r \in GatewayRequests,
           CityMerge(r) \/ \E i \in 0 .. Len(handlers[r]) : CityHang(r, i)
    PROVE  \A q \in GatewayRequests : SteadyInv(q)'
  <1>1. /\ \/ stage' = stage
           \/ stage[r] = "calling" /\ stage' = [stage EXCEPT ![r] = "answered"]
        /\ UNCHANGED <<handlers, waiting, results, lookup, reply, table, steady>>
    <2>1. CASE CityMerge(r)
      BY <2>1 DEF CityMerge, MergeAllResults, TakeResult, ReturnResult, registryVars
    <2>2. CASE \E i \in 0 .. Len(handlers[r]) : CityHang(r, i)
      BY <2>2 DEF CityHang, Hang, registryVars
    <2> QED
      BY <2>1, <2>2
  <1>2. stage'[r] = stage[r] \/ (stage[r] = "calling" /\ stage'[r] = "answered")
    BY <1>1 DEF CityIInv, CityInv, CityTypes
  <1>3. SteadyInv(r)'
    BY <1>1, <1>2 DEF CityIInv, SteadyInv, Listed
  <1>4. \A q \in GatewayRequests \ {r} : stage'[q] = stage[q]
    BY <1>1 DEF CityIInv, CityInv, CityTypes
  <1> QED
    BY <1>1, <1>3, <1>4, OthersStaySteady

LEMMA CityIInvStep ==
    ASSUME CityIInv, [CityNext]_cityVars
    PROVE  CityIInv'
  <1>1. GatewayIInv' /\ CityInv' /\ WorldTypes'
    BY CityStepIsGatewayStep, GatewayInvStep, CityInvStep, WorldTypesStep DEF CityIInv
  <1>2. CASE \/ \E b \in Backends :
                   \/ BackendStarts(b) \/ BackendDies(b)
                   \/ \E k \in 1 .. MaxLives : AgentRegisters(b, k)
             \/ \E i \in 1 .. Len(table) : AgentUnregisters(i)
    BY <1>1, <1>2, WorldKeepsSteady DEF AgentRegisters, AgentUnregisters, CityIInv
  <1>3. CASE MasterFails \/ \E r \in GatewayRequests : MasterAnswers(r)
    BY <1>1, <1>3, MasterKeepsSteady DEF CityIInv
  <1>4. ASSUME NEW r \in GatewayRequests, CityArrive(r) \/ LookupStep(r)
        PROVE  CityIInv'
    BY <1>1, <1>4, LookupsKeepSteady, GetChannelsKeepsSteady DEF LookupStep, CityIInv
  <1>5. ASSUME NEW r \in GatewayRequests, CallStep(r)
        PROVE  CityIInv'
    BY <1>1, <1>5, CallsKeepSteady DEF CallStep, CityIInv
  <1>6. ASSUME NEW r \in GatewayRequests,
               CityMerge(r) \/ \E i \in 0 .. Len(handlers[r]) : CityHang(r, i)
        PROVE  CityIInv'
    BY <1>1, <1>6, MergeKeepsSteady DEF CityIInv
  <1>7. CASE UNCHANGED cityVars
    <2>1. \A r \in GatewayRequests : SteadyInv(r)'
      BY <1>7 DEF cityVars, gatewayVars, registryVars, CityIInv, SteadyInv, Listed
    <2> QED
      BY <1>1, <2>1 DEF CityIInv
  <1> QED
    BY <1>2, <1>3, <1>4, <1>5, <1>6, <1>7 DEF CityNext

-----------------------------------------------------------------------------
(***************************************************************************)
(* Theorems.                                                               *)
(***************************************************************************)

\* CityInv holds in every reachable state.
LEMMA CityInvariant == CitySpec => []CityInv
  <1>1. CityInit => CityInv
    BY CityInvInit
  <1>2. CityInv /\ [CityNext]_cityVars => CityInv'
    BY CityInvStep
  <1> QED
    BY <1>1, <1>2, PTL DEF CitySpec

\* Every address that the gateway calls was listed while the request's second
\* lookup was under way: GetChannels never calls what only Initialize found.
THEOREM CalledAddressesWereListed == CitySpec => []CalledWasListed
  <1>1. CityInv => CalledWasListed
    BY DEF CityInv, RequestInv, CalledWasListed
  <1> QED
    BY <1>1, CityInvariant, PTL

\* Among its neighbours the gateway does nothing that Gateway does not allow
\* it: it is the gateway of Gateway, which may meet any list at any moment.
THEOREM CityImplementsGateway == CitySpec => GatewaySpec
  <1>1. CityInit => GatewayInit
    BY DEF CityInit
  <1> QED
    BY <1>1, CityStepIsGatewayStep, CityInvariant, PTL DEF CitySpec, GatewaySpec

\* CityIInv holds in every reachable state.
THEOREM CityIInvariant == CitySpec => []CityIInv
  BY CityIInvInit, CityIInvStep, PTL DEF CitySpec

\* The gateway's requests, the registry and the backends keep their types, and a
\* request never has more calls, results or merged results than addresses.
THEOREM CityTypeCorrect == CitySpec => []CityTypeOK
  <1>1. CityIInv => CityTypeOK
    BY GatewayInvTypes DEF CityIInv, CityInv, CityTypes, WorldTypes, CityTypeOK
  <1> QED
    BY <1>1, CityIInvariant, PTL

\* The steady backends of a request that is answered have their part in it.
LEMMA SteadyHasItsPart ==
    ASSUME CityIInv
    PROVE  SteadyIsAnswered
  <1> SUFFICES ASSUME NEW r \in GatewayRequests, stage[r] = "answered", NEW b \in steady[r]
               PROVE  \E i \in DOMAIN handlers[r] :
                          /\ handlers[r][i] = b
                          /\ \E j \in i .. Len(handlers[r]) :
                                answer[r][FieldOf[b]] = handlers[r][j]
    BY DEF SteadyIsAnswered
  <1>1. b \in Backends /\ FieldOf[b] \in Fields
    BY FieldOfAssumption DEF CityIInv, WorldTypes
  <1>2. PICK i \in DOMAIN handlers[r] : handlers[r][i] = b
    BY DEF CityIInv, SteadyInv
  <1>3. /\ merged[r] = Len(handlers[r]) /\ FieldMerged(r, FieldOf[b])
        /\ merged[r] # 0 => waiting[r] = {}
    BY <1>1 DEF CityIInv, GatewayIInv, MergeInv
  <1>4. DOMAIN handlers[r] = 1 .. merged[r] /\ merged[r] \in Nat
    BY <1>3, ListTypes DEF CityIInv
  <1>5. results[r][i] = ResponseOf(b)
    BY <1>2, <1>3, <1>4 DEF CityIInv, SteadyInv
  <1>6. results[r][i][FieldOf[b]] # Unset
    BY <1>1, <1>5, ResponseSetsOneField, UnsetAssumption
  <1>7. PICK j \in 1 .. merged[r] :
            /\ answer[r][FieldOf[b]] = handlers[r][j]
            /\ \A k \in j + 1 .. merged[r] : results[r][k][FieldOf[b]] = Unset
    BY <1>2, <1>3, <1>4, <1>6 DEF FieldMerged
  <1>8. j \in i .. Len(handlers[r])
    BY <1>2, <1>3, <1>4, <1>6, <1>7
  <1> QED
    BY <1>2, <1>7, <1>8

\* A backend that is registered and serves from the second lookup to the answer,
\* and does not fail the request, has its part in the answer, unless one that
\* comes after it in the list sets the same field: no registration, death or
\* failure of another backend can leave it out.
THEOREM SteadyAreAnswered == CitySpec => []SteadyIsAnswered
  BY CityIInvariant, SteadyHasItsPart, PTL

\* LastInListWins among the neighbours: it is inherited from Gateway.
THEOREM LastOfListWinsInCity == CitySpec => []LastInListWins
  BY CityImplementsGateway, LastOfListWins, PTL
=============================================================================
