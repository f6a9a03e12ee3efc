---------------------------- MODULE GatewayProofs ----------------------------
(***************************************************************************)
(* Proofs about the gateway, for any number of requests and of backends,   *)
(* any field that each of them fills in, and any faults.                   *)
(***************************************************************************)
EXTENDS Gateway, FiniteSetTheorems, TLAPS

-----------------------------------------------------------------------------
(* Lists of addresses, and responses. *)

\* A list that the master may answer with holds addresses, each of them once.
LEMMA ListOfAddresses ==
    ASSUME NEW list \in HandlerLists
    PROVE  /\ list \in Seq(Backends)
           /\ \A i, j \in DOMAIN list : i # j => list[i] # list[j]
  <1>1. PICK S \in SUBSET Backends : list \in SetToSeqs(S)
    BY DEF HandlerLists
  <1>2. Cardinality(S) \in Nat
    BY <1>1, BackendsAssumption, FS_Subset, FS_CardinalityType
  <1>3. /\ list \in [1 .. Cardinality(S) -> S]
        /\ \A i, j \in 1 .. Cardinality(S) : i # j => list[i] # list[j]
    BY <1>1 DEF SetToSeqs
  <1> QED
    BY <1>2, <1>3

\* The empty list is one of them.
LEMMA NoAddresses == <<>> \in HandlerLists
  <1>1. Cardinality({}) = 0
    BY FS_EmptySet
  <1>2. <<>> \in SetToSeqs({})
    BY <1>1 DEF SetToSeqs
  <1> QED
    BY <1>2 DEF HandlerLists

\* A backend's response sets one field, to a value that tells the backend.
LEMMA ResponseSetsOneField ==
    ASSUME NEW b \in Backends
    PROVE  /\ ResponseOf(b) \in Responses
           /\ \A f \in Fields : ResponseOf(b)[f] = IF f = FieldOf[b] THEN b ELSE Unset
  BY FieldOfAssumption DEF ResponseOf, EmptyResponse, Responses

LEMMA EmptyIsAResponse ==
    EmptyResponse \in Responses /\ \A f \in Fields : EmptyResponse[f] = Unset
  BY DEF EmptyResponse, Responses

LEMMA MergeIsAResponse ==
    ASSUME NEW result \in Responses, NEW res \in Responses
    PROVE  MergeFrom(result, res) \in Responses
  BY DEF MergeFrom, Responses

-----------------------------------------------------------------------------
(***************************************************************************)
(* The inductive invariant.  LastInListWins speaks of the answer; what     *)
(* makes it hold is that no result changes once the merge has begun, and   *)
(* that after every turn of its loop each field is the one of the last     *)
(* result taken so far that sets it.                                       *)
(***************************************************************************)
GatewayTypes ==
    /\ stage \in [GatewayRequests -> Stages]
    /\ instances \in [GatewayRequests -> SUBSET Backends]
    /\ handlers \in [GatewayRequests -> HandlerLists]
    /\ waiting \in [GatewayRequests -> SUBSET Nat]
    /\ hung \in [GatewayRequests -> SUBSET Nat]
    /\ results \in [GatewayRequests -> Seq(Responses)]
    /\ merged \in [GatewayRequests -> Nat]
    /\ answer \in [GatewayRequests -> Responses]

\* The calls of a request, and their results: one for each address.
CallsInv(r) ==
    /\ waiting[r] \subseteq DOMAIN handlers[r]
    /\ hung[r] \subseteq waiting[r] \cup {0}
    /\ Len(results[r]) = Len(handlers[r])
    /\ \A i \in DOMAIN results[r] : \A f \in Fields :
          results[r][i][f] \in {Unset, handlers[r][i]}

\* The field f of the answer, after the results at positions 1 .. merged[r].
FieldMerged(r, f) ==
    \/ /\ answer[r][f] = Unset
       /\ \A i \in 1 .. merged[r] : results[r][i][f] = Unset
    \/ \E i \in 1 .. merged[r] :
          /\ answer[r][f] = handlers[r][i]
          /\ results[r][i][f] # Unset
          /\ \A j \in i + 1 .. merged[r] : results[r][j][f] = Unset

MergeInv(r) ==
    /\ merged[r] <= Len(handlers[r])
    /\ merged[r] # 0 => stage[r] \in {"calling", "answered"} /\ waiting[r] = {}
    /\ stage[r] = "answered" => merged[r] = Len(handlers[r])
    /\ stage[r] \notin {"calling", "answered"} => waiting[r] = {}
    /\ \A f \in Fields : FieldMerged(r, f)

GatewayIInv ==
    /\ GatewayTypes
    /\ \A r \in GatewayRequests : CallsInv(r) /\ MergeInv(r)

LEMMA GatewayInvInit ==
    ASSUME GatewayInit
    PROVE  GatewayIInv
  <1>1. GatewayTypes
    BY NoAddresses, EmptyIsAResponse DEF GatewayInit, GatewayTypes, Stages
  <1>2. ASSUME NEW r \in GatewayRequests
        PROVE  CallsInv(r) /\ MergeInv(r)
    BY EmptyIsAResponse DEF GatewayInit, CallsInv, MergeInv, FieldMerged
  <1> QED
    BY <1>1, <1>2 DEF GatewayIInv

\* What each list in the state is.
LEMMA ListTypes ==
    ASSUME GatewayIInv, NEW r \in GatewayRequests
    PROVE  /\ handlers[r] \in Seq(Backends) /\ results[r] \in Seq(Responses)
           /\ Len(handlers[r]) \in Nat /\ merged[r] \in Nat /\ answer[r] \in Responses
  BY ListOfAddresses DEF GatewayIInv, GatewayTypes

-----------------------------------------------------------------------------
(* One lemma for each kind of step. *)

\* A request that a step leaves alone.
LEMMA AloneKeeps ==
    ASSUME GatewayIInv, NEW q \in GatewayRequests,
           stage'[q] = stage[q], handlers'[q] = handlers[q], waiting'[q] = waiting[q],
           hung'[q] = hung[q], results'[q] = results[q], merged'[q] = merged[q],
           answer'[q] = answer[q]
    PROVE  (CallsInv(q) /\ MergeInv(q))'
  BY DEF GatewayIInv, CallsInv, MergeInv, FieldMerged

\* Before the calls a request goes from stage to stage, or fails.
LEMMA BeforeCallsPreserves ==
    ASSUME GatewayIInv, NEW r \in GatewayRequests,
           \/ Arrive(r) \/ LookupFails(r)
           \/ \E list \in HandlerLists : Initialize(r, list)
    PROVE  GatewayIInv'
  <1>1. /\ stage[r] \notin {"calling", "answered"}
        /\ \E s \in Stages \ {"calling", "answered"} : stage' = [stage EXCEPT ![r] = s]
        /\ \E S \in SUBSET Backends : instances' = [instances EXCEPT ![r] = @ \cup S]
        /\ UNCHANGED <<handlers, waiting, hung, results, merged, answer>>
    <2>1. CASE Arrive(r) \/ LookupFails(r)
      <3>1. instances' = [instances EXCEPT ![r] = @ \cup {}]
        BY <2>1 DEF Arrive, LookupFails, GatewayIInv, GatewayTypes
      <3> QED
        BY <2>1, <3>1 DEF Arrive, LookupFails, Stages
    <2>2. ASSUME NEW list \in HandlerLists, Initialize(r, list)
          PROVE  ToSet(list) \in SUBSET Backends
      BY ListOfAddresses DEF ToSet
    <2> QED
      BY <2>1, <2>2 DEF Initialize, Stages
  <1>2. GatewayTypes'
    BY <1>1 DEF GatewayIInv, GatewayTypes
  <1>3. (CallsInv(r) /\ MergeInv(r))'
    BY <1>1 DEF GatewayIInv, GatewayTypes, CallsInv, MergeInv, FieldMerged
  <1>4. \A q \in GatewayRequests \ {r} : (CallsInv(q) /\ MergeInv(q))'
    BY <1>1, AloneKeeps DEF GatewayIInv, GatewayTypes
  <1> QED
    BY <1>2, <1>3, <1>4 DEF GatewayIInv

\* The calls begin, with no result and nothing merged.
LEMMA GetChannelsKeeps ==
    ASSUME GatewayIInv, NEW r \in GatewayRequests, NEW list \in HandlerLists,
           GetChannels(r, list)
    PROVE  GatewayIInv'
  <1> DEFINE empty == [i \in DOMAIN list |-> EmptyResponse]
  <1>1. /\ stage[r] = "lookingUp" /\ hung[r] = {}
        /\ handlers' = [handlers EXCEPT ![r] = list]
        /\ instances' = [instances EXCEPT ![r] = @ \cup ToSet(list)]
        /\ waiting' = [waiting EXCEPT ![r] = DOMAIN list]
        /\ results' = [results EXCEPT ![r] = empty]
        /\ stage' = [stage EXCEPT ![r] = "calling"]
        /\ UNCHANGED <<hung, merged, answer>>
    BY DEF GetChannels
  <1>2. list \in Seq(Backends) /\ ToSet(list) \in SUBSET Backends
    BY ListOfAddresses DEF ToSet
  <1>3. empty \in Seq(Responses) /\ Len(empty) = Len(list)
    BY <1>2, EmptyIsAResponse
  <1>4. DOMAIN list \in SUBSET Nat
    BY <1>2
  <1> HIDE DEF empty
  <1>5. GatewayTypes'
    BY <1>1, <1>2, <1>3, <1>4 DEF GatewayIInv, GatewayTypes, Stages
  <1>6. merged[r] = 0
    BY <1>1 DEF GatewayIInv, MergeInv
  <1>7. (CallsInv(r) /\ MergeInv(r))'
    <2>1. handlers'[r] = list /\ waiting'[r] = DOMAIN list /\ results'[r] = empty
          /\ stage'[r] = "calling" /\ hung'[r] = {} /\ merged'[r] = 0 /\ answer'[r] = answer[r]
      BY <1>1, <1>6 DEF GatewayIInv, GatewayTypes
    <2>2. \A i \in DOMAIN empty : \A f \in Fields : empty[i][f] = Unset
      BY EmptyIsAResponse DEF empty
    <2>3. CallsInv(r)'
      BY <1>3, <2>1, <2>2 DEF CallsInv
    <2>4. \A f \in Fields : answer[r][f] = Unset
      BY <1>6 DEF GatewayIInv, MergeInv, FieldMerged
    <2>5. \A f \in Fields : FieldMerged(r, f)'
      BY <2>1, <2>4 DEF FieldMerged
    <2>6. MergeInv(r)'
      BY <1>2, <2>1, <2>5 DEF MergeInv
    <2> QED
      BY <2>3, <2>6
  <1>8. \A q \in GatewayRequests \ {r} : (CallsInv(q) /\ MergeInv(q))'
    BY <1>1, AloneKeeps DEF GatewayIInv, GatewayTypes
  <1> QED
    BY <1>5, <1>7, <1>8 DEF GatewayIInv

\* A call ends before anything is merged: the merge waits for all of them.
LEMMA CallEndsKeeps ==
    ASSUME GatewayIInv, NEW r \in GatewayRequests, NEW i \in waiting[r],
           BackendAnswers(r, i) \/ BackendFails(r, i)
    PROVE  GatewayIInv'
  <1>1. i \in DOMAIN handlers[r] /\ i \in DOMAIN results[r] /\ handlers[r][i] \in Backends
    BY ListTypes DEF GatewayIInv, CallsInv
  <1>2. PICK res \in Responses :
            /\ results' = [results EXCEPT ![r][i] = res]
            /\ \A f \in Fields : res[f] \in {Unset, handlers[r][i]}
    BY <1>1, ResponseSetsOneField, EmptyIsAResponse DEF BackendAnswers, BackendFails
  <1>3. /\ waiting' = [waiting EXCEPT ![r] = @ \ {i}]
        /\ i \notin hung[r]
        /\ UNCHANGED <<stage, instances, handlers, hung, merged, answer>>
    BY DEF BackendAnswers, BackendFails
  <1>4. results'[r] = [results[r] EXCEPT ![i] = res]
    BY <1>2 DEF GatewayIInv, GatewayTypes
  <1>5. results'[r] \in Seq(Responses) /\ Len(results'[r]) = Len(results[r])
    BY <1>1, <1>4, ListTypes
  <1>6. GatewayTypes'
    <2>1. \A q \in GatewayRequests \ {r} : results'[q] = results[q]
      BY <1>2 DEF GatewayIInv, GatewayTypes
    <2>2. results' \in [GatewayRequests -> Seq(Responses)]
      BY <1>2, <1>5, <2>1 DEF GatewayIInv, GatewayTypes
    <2> QED
      BY <1>3, <2>2 DEF GatewayIInv, GatewayTypes
  <1>7. merged[r] = 0
    BY DEF GatewayIInv, MergeInv
  <1>8. (CallsInv(r) /\ MergeInv(r))'
    <2>1. CallsInv(r)'
      BY <1>1, <1>2, <1>3, <1>4, <1>5, ListTypes DEF GatewayIInv, GatewayTypes, CallsInv
    <2>2. \A f \in Fields : FieldMerged(r, f)'
      BY <1>3, <1>7 DEF GatewayIInv, MergeInv, FieldMerged
    <2>3. MergeInv(r)'
      BY <1>3, <1>7, <2>2 DEF GatewayIInv, GatewayTypes, MergeInv
    <2> QED
      BY <2>1, <2>3
  <1>9. \A q \in GatewayRequests \ {r} : (CallsInv(q) /\ MergeInv(q))'
    BY <1>2, <1>3, AloneKeeps DEF GatewayIInv, GatewayTypes
  <1> QED
    BY <1>6, <1>8, <1>9 DEF GatewayIInv

LEMMA HangKeeps ==
    ASSUME GatewayIInv, NEW r \in GatewayRequests, NEW i \in 0 .. Len(handlers[r]),
           Hang(r, i)
    PROVE  GatewayIInv'
  <1>1. /\ hung' = [hung EXCEPT ![r] = @ \cup {i}]
        /\ i \in waiting[r] \cup {0}
        /\ UNCHANGED <<stage, instances, handlers, waiting, results, merged, answer>>
    BY DEF Hang
  <1>2. GatewayTypes'
    BY <1>1, ListTypes DEF GatewayIInv, GatewayTypes
  <1>3. (CallsInv(r) /\ MergeInv(r))'
    BY <1>1 DEF GatewayIInv, GatewayTypes, CallsInv, MergeInv, FieldMerged
  <1>4. \A q \in GatewayRequests \ {r} : (CallsInv(q) /\ MergeInv(q))'
    BY <1>1, AloneKeeps DEF GatewayIInv, GatewayTypes
  <1> QED
    BY <1>2, <1>3, <1>4 DEF GatewayIInv

\* A turn of the merge's loop: a field that the result sets becomes the last one
\* that sets it, and every other field stays the one it was.
LEMMA TakeResultKeeps ==
    ASSUME GatewayIInv, NEW r \in GatewayRequests, stage[r] = "calling", waiting[r] = {},
           TakeResult(r, merged[r] + 1)
    PROVE  GatewayIInv'
  <1> DEFINE i == merged[r] + 1
             res == results[r][i]
  <1>1. /\ i \in DOMAIN results[r]
        /\ answer' = [answer EXCEPT ![r] = MergeFrom(@, res)]
        /\ merged' = [merged EXCEPT ![r] = @ + 1]
        /\ UNCHANGED <<stage, instances, handlers, waiting, hung, results>>
    BY DEF TakeResult
  <1>2. merged[r] \in Nat /\ res \in Responses /\ answer[r] \in Responses
        /\ i <= Len(handlers[r]) /\ Len(handlers[r]) \in Nat
    BY <1>1, ListTypes DEF GatewayIInv, CallsInv
  <1>3. answer'[r] = MergeFrom(answer[r], res) /\ merged'[r] = i
    BY <1>1 DEF GatewayIInv, GatewayTypes
  <1>4. GatewayTypes'
    BY <1>1, <1>2, MergeIsAResponse DEF GatewayIInv, GatewayTypes
  <1>5. ASSUME NEW f \in Fields
        PROVE  FieldMerged(r, f)'
    <2> HIDE DEF res
    <2>1. FieldMerged(r, f)
      BY DEF GatewayIInv, MergeInv
    <2>2. answer'[r][f] = IF res[f] # Unset THEN res[f] ELSE answer[r][f]
      BY <1>3 DEF MergeFrom
    <2>3. res[f] \in {Unset, handlers[r][i]}
      BY <1>1 DEF GatewayIInv, CallsInv, res
    <2>4. CASE res[f] # Unset
      BY <1>1, <1>2, <1>3, <2>2, <2>3, <2>4 DEF FieldMerged, res
    <2>5. CASE res[f] = Unset /\ answer[r][f] = Unset
               /\ \A j \in 1 .. merged[r] : results[r][j][f] = Unset
      BY <1>1, <1>2, <1>3, <2>2, <2>5 DEF FieldMerged, res
    <2>6. ASSUME res[f] = Unset, NEW j \in 1 .. merged[r],
                 answer[r][f] = handlers[r][j], results[r][j][f] # Unset,
                 \A k \in j + 1 .. merged[r] : results[r][k][f] = Unset
          PROVE  FieldMerged(r, f)'
      <3>1. \A k \in j + 1 .. i : results[r][k][f] = Unset
        <4>1. \A k \in j + 1 .. i : k \in j + 1 .. merged[r] \/ k = i
          BY <1>2
        <4>2. results[r][i][f] = Unset
          BY <2>6 DEF res
        <4> HIDE DEF i
        <4> QED
          BY <2>6, <4>1, <4>2
      <3>2. j \in 1 .. i /\ answer'[r][f] = handlers[r][j]
        BY <1>2, <2>2, <2>6
      <3> QED
        BY <1>1, <1>3, <2>6, <3>1, <3>2 DEF FieldMerged
    <2> QED
      BY <2>1, <2>4, <2>5, <2>6 DEF FieldMerged
  <1>6. (CallsInv(r) /\ MergeInv(r))'
    BY <1>1, <1>2, <1>3, <1>5 DEF GatewayIInv, CallsInv, MergeInv
  <1>7. \A q \in GatewayRequests \ {r} : (CallsInv(q) /\ MergeInv(q))'
    BY <1>1, AloneKeeps DEF GatewayIInv, GatewayTypes
  <1> QED
    BY <1>4, <1>6, <1>7 DEF GatewayIInv

LEMMA ReturnResultKeeps ==
    ASSUME GatewayIInv, NEW r \in GatewayRequests, stage[r] = "calling", waiting[r] = {},
           ReturnResult(r)
    PROVE  GatewayIInv'
  <1>1. /\ merged[r] = Len(results[r])
        /\ stage' = [stage EXCEPT ![r] = "answered"]
        /\ UNCHANGED <<instances, handlers, waiting, hung, results, merged, answer>>
    BY DEF ReturnResult
  <1>2. GatewayTypes'
    BY <1>1 DEF GatewayIInv, GatewayTypes, Stages
  <1>3. (CallsInv(r) /\ MergeInv(r))'
    <2>1. CallsInv(r)'
      BY <1>1 DEF GatewayIInv, CallsInv
    <2>2. \A f \in Fields : FieldMerged(r, f)'
      BY <1>1 DEF GatewayIInv, MergeInv, FieldMerged
    <2>3. merged'[r] = Len(handlers'[r]) /\ stage'[r] = "answered"
      BY <1>1 DEF GatewayIInv, GatewayTypes, CallsInv
    <2>4. MergeInv(r)'
      BY <1>1, <2>2, <2>3, ListTypes DEF MergeInv
    <2> QED
      BY <2>1, <2>4
  <1>4. \A q \in GatewayRequests \ {r} : (CallsInv(q) /\ MergeInv(q))'
    BY <1>1, AloneKeeps DEF GatewayIInv, GatewayTypes
  <1> QED
    BY <1>2, <1>3, <1>4 DEF GatewayIInv

LEMMA GatewayInvStep ==
    ASSUME GatewayIInv, [GatewayNext]_gatewayVars
    PROVE  GatewayIInv'
  <1>1. ASSUME NEW r \in GatewayRequests,
               \/ Arrive(r) \/ LookupFails(r)
               \/ \E list \in HandlerLists : Initialize(r, list)
        PROVE  GatewayIInv'
    BY <1>1, BeforeCallsPreserves
  <1>2. ASSUME NEW r \in GatewayRequests, NEW list \in HandlerLists, GetChannels(r, list)
        PROVE  GatewayIInv'
    BY <1>2, GetChannelsKeeps
  <1>3. ASSUME NEW r \in GatewayRequests, NEW i \in waiting[r],
               BackendAnswers(r, i) \/ BackendFails(r, i)
        PROVE  GatewayIInv'
    BY <1>3, CallEndsKeeps
  <1>4. ASSUME NEW r \in GatewayRequests, NEW i \in 0 .. Len(handlers[r]), Hang(r, i)
        PROVE  GatewayIInv'
    BY <1>4, HangKeeps
  <1>5. ASSUME NEW r \in GatewayRequests, MergeAllResults(r)
        PROVE  GatewayIInv'
    BY <1>5, TakeResultKeeps, ReturnResultKeeps DEF MergeAllResults
  <1>6. CASE UNCHANGED gatewayVars
    BY <1>6 DEF gatewayVars, GatewayIInv, GatewayTypes, CallsInv, MergeInv, FieldMerged
  <1> QED
    BY <1>1, <1>2, <1>3, <1>4, <1>5, <1>6 DEF GatewayNext

-----------------------------------------------------------------------------
(***************************************************************************)
(* Theorems.                                                               *)
(***************************************************************************)

\* GatewayIInv holds in every reachable state.
THEOREM GatewayInvariant == GatewaySpec => []GatewayIInv
  BY GatewayInvInit, GatewayInvStep, PTL DEF GatewaySpec

LEMMA GatewayInvTypes == GatewayIInv => GatewayTypeOK
  BY DEF GatewayIInv, GatewayTypes, CallsInv, MergeInv, GatewayTypeOK

\* At the end of the loop the last result that sets a field is the last of all.
LEMMA LastTakenIsLast ==
    ASSUME GatewayIInv
    PROVE  LastInListWins
  <1> SUFFICES ASSUME NEW r \in GatewayRequests, stage[r] = "answered", NEW f \in Fields
               PROVE  LET setters == {i \in DOMAIN handlers[r] : results[r][i][f] # Unset}
                      IN  IF setters = {} THEN answer[r][f] = Unset
                          ELSE answer[r][f] = handlers[r][CHOOSE i \in setters :
                                                             \A j \in setters : j <= i]
    BY DEF LastInListWins
  <1> DEFINE setters == {i \in DOMAIN handlers[r] : results[r][i][f] # Unset}
             last == CHOOSE i \in setters : \A j \in setters : j <= i
  <1>1. merged[r] = Len(handlers[r]) /\ FieldMerged(r, f)
    BY DEF GatewayIInv, MergeInv
  <1>2. DOMAIN handlers[r] = 1 .. merged[r] /\ merged[r] \in Nat
    BY <1>1, ListTypes
  <1>3. CASE setters = {}
    BY <1>1, <1>2, <1>3 DEF FieldMerged
  <1>4. CASE setters # {}
    <2>1. PICK i \in 1 .. merged[r] :
              /\ answer[r][f] = handlers[r][i]
              /\ results[r][i][f] # Unset
              /\ \A j \in i + 1 .. merged[r] : results[r][j][f] = Unset
      BY <1>1, <1>2, <1>4 DEF FieldMerged
    <2>2. i \in setters /\ \A j \in setters : j \in 1 .. merged[r] /\ j <= i
      BY <1>2, <2>1
    <2>3. last \in setters /\ \A j \in setters : j <= last
      BY <2>2
    <2>4. last = i
      BY <1>2, <2>2, <2>3
    <2> QED
      BY <1>4, <2>1, <2>4
  <1> QED
    BY <1>3, <1>4

\* The answer depends on which backends answered and on the order of the
\* master's list, never on the order in which the answers came in: each field
\* is the one of the last backend in the list that set it, whatever calls fail,
\* hang or are late.
THEOREM LastOfListWins == GatewaySpec => []LastInListWins
  BY GatewayInvariant, LastTakenIsLast, PTL
=============================================================================
