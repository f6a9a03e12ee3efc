---------------------------- MODULE BackendsProofs ----------------------------
(***************************************************************************)
(* Proofs about the three backends, for any number of calls and of agents' *)
(* streams in one life of a process, and any number of threads and of      *)
(* calls that hang.                                                        *)
(***************************************************************************)
EXTENDS Backends, FiniteSetTheorems, TLAPS

-----------------------------------------------------------------------------
(***************************************************************************)
(* The instruments.  Each of them counts the calls that have passed its    *)
(* statement of collectCallMetrics, each once, however the threads that    *)
(* are in there interleave: all that is said of the counters is said of    *)
(* these sets.                                                             *)
(***************************************************************************)
StartedCalls == {c \in Rpcs : collecting[c] \in {"handled", "seconds", "after"}}
HandledCalls(k) == {c \in Rpcs : statusCode[c] = k /\ collecting[c] \in {"seconds", "after"}}
ObservedCalls(k) == {c \in Rpcs : statusCode[c] = k /\ collecting[c] = "after"}

Counted ==
    /\ grpcServerStartedTotal = Cardinality(StartedCalls)
    /\ \A k \in Codes :
          /\ grpcServerHandledTotal[k] = Cardinality(HandledCalls(k))
          /\ grpcServerHandlingSeconds[k] = Cardinality(ObservedCalls(k))

LEMMA CallsAreFinite ==
    ASSUME NEW S \in SUBSET Rpcs
    PROVE  IsFiniteSet(S) /\ Cardinality(S) \in Nat
  BY RpcsAssumption, FS_Subset, FS_CardinalityType

LEMMA OneMoreCall ==
    ASSUME NEW S \in SUBSET Rpcs, NEW c \in Rpcs \ S
    PROVE  Cardinality(S \cup {c}) = Cardinality(S) + 1
  BY CallsAreFinite, FS_AddElement

LEMMA FewerCalls ==
    ASSUME NEW S \in SUBSET Rpcs, NEW T \in SUBSET S
    PROVE  Cardinality(T) <= Cardinality(S)
  BY CallsAreFinite, FS_Subset

LEMMA NoCalls == Cardinality({}) = 0
  BY FS_EmptySet

LEMMA DisjointCalls ==
    ASSUME NEW S \in SUBSET Rpcs, NEW T \in SUBSET Rpcs, S \cap T = {}
    PROVE  Cardinality(S \cup T) = Cardinality(S) + Cardinality(T)
  <1>1. /\ IsFiniteSet(S) /\ Cardinality(S) \in Nat
        /\ IsFiniteSet(T) /\ Cardinality(T) \in Nat
    BY CallsAreFinite
  <1>2. Cardinality(S \cup T) = Cardinality(S) + Cardinality(T) - Cardinality(S \cap T)
    BY <1>1, FS_Union
  <1>3. Cardinality(S \cap T) = 0
    BY NoCalls, Zenon
  <1> QED
    BY <1>1, <1>2, <1>3

LEMMA MetricsStart ==
    ASSUME MetricsInit
    PROVE  MetricsTypeOK /\ Counted
  <1>1. MetricsTypeOK
    BY DEF MetricsInit, MetricsTypeOK, Statements, Codes, NoCode
  <1>2. StartedCalls = {} /\ \A k \in Codes : HandledCalls(k) = {} /\ ObservedCalls(k) = {}
    BY DEF MetricsInit, StartedCalls, HandledCalls, ObservedCalls
  <1>3. Counted
    BY <1>2, NoCalls DEF MetricsInit, Counted
  <1> QED
    BY <1>1, <1>3

LEMMA MetricsAlone ==
    ASSUME MetricsTypeOK, Counted, UNCHANGED metricsVars
    PROVE  MetricsTypeOK' /\ Counted'
  BY DEF metricsVars, MetricsTypeOK, Counted, StartedCalls, HandledCalls, ObservedCalls

LEMMA CollectCallMetricsKeeps ==
    ASSUME MetricsTypeOK, Counted, NEW c \in Rpcs, NEW code \in Codes,
           collecting[c] = "before", CollectCallMetrics(c, code)
    PROVE  MetricsTypeOK' /\ Counted'
  <1> USE DEF CollectCallMetrics
  <1>1. MetricsTypeOK'
    BY DEF MetricsTypeOK, Statements, Codes, NoCode
  <1>2. StartedCalls' = StartedCalls
    BY DEF MetricsTypeOK, StartedCalls
  <1>3. \A k \in Codes : HandledCalls(k)' = HandledCalls(k) /\ ObservedCalls(k)' = ObservedCalls(k)
    BY DEF MetricsTypeOK, HandledCalls, ObservedCalls
  <1> QED
    BY <1>1, <1>2, <1>3 DEF Counted

LEMMA IncStartedKeeps ==
    ASSUME MetricsTypeOK, Counted, NEW c \in Rpcs, IncStarted(c)
    PROVE  MetricsTypeOK' /\ Counted'
  <1> USE DEF IncStarted
  <1>1. MetricsTypeOK'
    BY DEF MetricsTypeOK, Statements
  <1>2. StartedCalls' = StartedCalls \cup {c} /\ c \notin StartedCalls
    BY DEF MetricsTypeOK, StartedCalls
  <1>3. Cardinality(StartedCalls') = Cardinality(StartedCalls) + 1
    <2>1. StartedCalls \in SUBSET Rpcs
      BY DEF StartedCalls
    <2> QED
      BY <1>2, <2>1, OneMoreCall
  <1>4. \A k \in Codes : HandledCalls(k)' = HandledCalls(k) /\ ObservedCalls(k)' = ObservedCalls(k)
    BY DEF MetricsTypeOK, HandledCalls, ObservedCalls
  <1> QED
    BY <1>1, <1>3, <1>4 DEF Counted

LEMMA IncHandledKeeps ==
    ASSUME MetricsTypeOK, Counted, NEW c \in Rpcs, IncHandled(c)
    PROVE  MetricsTypeOK' /\ Counted'
  <1> USE DEF IncHandled
  <1> DEFINE code == statusCode[c]
  <1>1. code \in Codes
    BY DEF MetricsTypeOK
  <1>2. MetricsTypeOK'
    BY <1>1 DEF MetricsTypeOK, Statements
  <1>3. StartedCalls' = StartedCalls
    BY DEF MetricsTypeOK, StartedCalls
  <1>4. HandledCalls(code)' = HandledCalls(code) \cup {c} /\ c \notin HandledCalls(code)
    BY DEF MetricsTypeOK, HandledCalls
  <1>5. \A k \in Codes \ {code} : HandledCalls(k)' = HandledCalls(k)
    BY DEF MetricsTypeOK, HandledCalls
  <1>6. \A k \in Codes : ObservedCalls(k)' = ObservedCalls(k)
    BY DEF MetricsTypeOK, ObservedCalls
  <1>7. Cardinality(HandledCalls(code)') = Cardinality(HandledCalls(code)) + 1
    <2>1. HandledCalls(code) \in SUBSET Rpcs
      BY DEF HandledCalls
    <2> QED
      BY <1>4, <2>1, OneMoreCall
  <1>8. /\ grpcServerHandledTotal'[code] = grpcServerHandledTotal[code] + 1
        /\ \A k \in Codes \ {code} : grpcServerHandledTotal'[k] = grpcServerHandledTotal[k]
        /\ UNCHANGED <<grpcServerStartedTotal, grpcServerHandlingSeconds>>
    BY <1>1 DEF MetricsTypeOK
  <1>9. \A k \in Codes : grpcServerHandledTotal'[k] = Cardinality(HandledCalls(k)')
    BY <1>1, <1>5, <1>7, <1>8 DEF Counted
  <1> QED
    BY <1>2, <1>3, <1>6, <1>8, <1>9 DEF Counted

LEMMA ObserveSecondsKeeps ==
    ASSUME MetricsTypeOK, Counted, NEW c \in Rpcs, ObserveSeconds(c)
    PROVE  MetricsTypeOK' /\ Counted'
  <1> USE DEF ObserveSeconds
  <1> DEFINE code == statusCode[c]
  <1>1. code \in Codes
    BY DEF MetricsTypeOK
  <1>2. MetricsTypeOK'
    BY <1>1 DEF MetricsTypeOK, Statements
  <1>3. StartedCalls' = StartedCalls
    BY DEF MetricsTypeOK, StartedCalls
  <1>4. ObservedCalls(code)' = ObservedCalls(code) \cup {c} /\ c \notin ObservedCalls(code)
    BY DEF MetricsTypeOK, ObservedCalls
  <1>5. \A k \in Codes \ {code} : ObservedCalls(k)' = ObservedCalls(k)
    BY DEF MetricsTypeOK, ObservedCalls
  <1>6. \A k \in Codes : HandledCalls(k)' = HandledCalls(k)
    BY DEF MetricsTypeOK, HandledCalls
  <1>7. Cardinality(ObservedCalls(code)') = Cardinality(ObservedCalls(code)) + 1
    <2>1. ObservedCalls(code) \in SUBSET Rpcs
      BY DEF ObservedCalls
    <2> QED
      BY <1>4, <2>1, OneMoreCall
  <1>8. /\ grpcServerHandlingSeconds'[code] = grpcServerHandlingSeconds[code] + 1
        /\ \A k \in Codes \ {code} : grpcServerHandlingSeconds'[k] = grpcServerHandlingSeconds[k]
        /\ UNCHANGED <<grpcServerStartedTotal, grpcServerHandledTotal>>
    BY <1>1 DEF MetricsTypeOK
  <1>9. \A k \in Codes : grpcServerHandlingSeconds'[k] = Cardinality(ObservedCalls(k)')
    BY <1>1, <1>5, <1>7, <1>8 DEF Counted
  <1> QED
    BY <1>2, <1>3, <1>6, <1>8, <1>9 DEF Counted

LEMMA CollectKeeps ==
    ASSUME MetricsTypeOK, Counted, NEW c \in Rpcs, Collect(c)
    PROVE  MetricsTypeOK' /\ Counted'
  BY IncStartedKeeps, IncHandledKeeps, ObserveSecondsKeeps DEF Collect

LEMMA SendStatusKeeps ==
    ASSUME MetricsTypeOK, Counted, NEW c \in Rpcs, NEW code \in Codes, SendStatus(c, code)
    PROVE  MetricsTypeOK' /\ Counted'
  BY DEF SendStatus, MetricsTypeOK, Counted, StartedCalls, HandledCalls, ObservedCalls

\* The three statements of the nearby cities service are one step.
LEMMA CollectAllKeeps ==
    ASSUME MetricsTypeOK, Counted, NEW c \in Rpcs, NEW code \in Codes,
           collecting[c] = "before", CollectAll(c, code)
    PROVE  MetricsTypeOK' /\ Counted'
  <1> USE DEF CollectAll
  <1>1. MetricsTypeOK'
    <2>1. collecting' \in [Rpcs -> Statements] /\ statusCode' \in [Rpcs -> Codes \cup {NoCode}]
      BY DEF MetricsTypeOK, Statements
    <2>2. \A d \in Rpcs : statusCode'[d] = NoCode <=> collecting'[d] = "before"
      BY DEF MetricsTypeOK, Codes, NoCode
    <2>3. grpcServerStartedTotal' \in Nat /\ answer' \in [Rpcs -> Codes \cup {NoCode}]
      BY DEF MetricsTypeOK
    <2>4. grpcServerHandledTotal' \in [Codes -> Nat] /\ grpcServerHandlingSeconds' \in [Codes -> Nat]
      BY DEF MetricsTypeOK
    <2> QED
      BY <2>1, <2>2, <2>3, <2>4 DEF MetricsTypeOK
  <1>2. /\ StartedCalls' = StartedCalls \cup {c} /\ c \notin StartedCalls
        /\ StartedCalls \in SUBSET Rpcs
    BY DEF MetricsTypeOK, StartedCalls
  <1>3. /\ HandledCalls(code)' = HandledCalls(code) \cup {c} /\ c \notin HandledCalls(code)
        /\ HandledCalls(code) \in SUBSET Rpcs
    BY DEF MetricsTypeOK, HandledCalls
  <1>4. /\ ObservedCalls(code)' = ObservedCalls(code) \cup {c} /\ c \notin ObservedCalls(code)
        /\ ObservedCalls(code) \in SUBSET Rpcs
    BY DEF MetricsTypeOK, ObservedCalls
  <1>5. \A k \in Codes \ {code} :
            HandledCalls(k)' = HandledCalls(k) /\ ObservedCalls(k)' = ObservedCalls(k)
    BY DEF MetricsTypeOK, HandledCalls, ObservedCalls
  <1>6. /\ Cardinality(StartedCalls') = Cardinality(StartedCalls) + 1
        /\ Cardinality(HandledCalls(code)') = Cardinality(HandledCalls(code)) + 1
        /\ Cardinality(ObservedCalls(code)') = Cardinality(ObservedCalls(code)) + 1
    BY <1>2, <1>3, <1>4, OneMoreCall
  <1>7. /\ grpcServerHandledTotal'[code] = grpcServerHandledTotal[code] + 1
        /\ grpcServerHandlingSeconds'[code] = grpcServerHandlingSeconds[code] + 1
        /\ \A k \in Codes \ {code} :
              /\ grpcServerHandledTotal'[k] = grpcServerHandledTotal[k]
              /\ grpcServerHandlingSeconds'[k] = grpcServerHandlingSeconds[k]
    BY DEF MetricsTypeOK
  <1>8. \A k \in Codes :
            /\ grpcServerHandledTotal'[k] = Cardinality(HandledCalls(k)')
            /\ grpcServerHandlingSeconds'[k] = Cardinality(ObservedCalls(k)')
    BY <1>5, <1>6, <1>7 DEF Counted
  <1> QED
    BY <1>1, <1>6, <1>8 DEF Counted

\* What the counters say of calls that collect statement by statement.
LEMMA CountersTellAnswers ==
    ASSUME MetricsTypeOK, Counted, NEW code \in Codes, NEW answers,
           \A c \in Rpcs : answer[c] \in answers => c \in ObservedCalls(code)
    PROVE  CountedOnce(code, answers)
  <1> DEFINE answered == {c \in Rpcs : answer[c] \in answers}
             collected == {c \in Rpcs : statusCode[c] \in {code}}
             allCollected == {c \in Rpcs : statusCode[c] \in Codes}
  <1>1. Cardinality(answered) <= Cardinality(ObservedCalls(code))
    BY FewerCalls DEF ObservedCalls
  <1>2. Cardinality(ObservedCalls(code)) <= Cardinality(HandledCalls(code))
    BY FewerCalls DEF ObservedCalls, HandledCalls
  <1>3. Cardinality(HandledCalls(code)) <= Cardinality(collected)
    BY FewerCalls DEF HandledCalls
  <1>4. Cardinality(StartedCalls) <= Cardinality(allCollected)
    <2>1. StartedCalls \subseteq allCollected
      BY DEF StartedCalls, MetricsTypeOK
    <2> QED
      BY <2>1, FewerCalls
  <1>5. HandledTotal <= Cardinality(StartedCalls)
    <2> DEFINE A == HandledCalls("OK")
               B == HandledCalls("UNKNOWN")
               C == HandledCalls("INTERNAL")
    <2>1. /\ A \in SUBSET Rpcs /\ B \in SUBSET Rpcs /\ C \in SUBSET Rpcs
          /\ A \cap B = {} /\ (A \cup B) \cap C = {}
          /\ (A \cup B) \cup C \subseteq StartedCalls
      BY DEF HandledCalls, StartedCalls
    <2>2. HandledTotal = Cardinality(A) + Cardinality(B) + Cardinality(C)
      BY DEF HandledTotal, Counted, Codes
    <2> HIDE DEF A, B, C
    <2>3. Cardinality(A \cup B) = Cardinality(A) + Cardinality(B)
      BY <2>1, DisjointCalls
    <2>4. Cardinality((A \cup B) \cup C) = Cardinality(A \cup B) + Cardinality(C)
      BY <2>1, DisjointCalls
    <2>5. Cardinality((A \cup B) \cup C) <= Cardinality(StartedCalls)
      BY <2>1, FewerCalls DEF StartedCalls
    <2> QED
      BY <2>2, <2>3, <2>4, <2>5
  <1> QED
    BY <1>1, <1>2, <1>3, <1>4, <1>5 DEF CountedOnce, AnsweredWith, Collected, Counted

-----------------------------------------------------------------------------
(***************************************************************************)
(* The weather service.  A call is answered once it is in all instruments, *)
(* with the code it is counted under.                                      *)
(***************************************************************************)
WeatherCallInv(c) ==
    /\ inCall[c] \in {"none", "handling"} => collecting[c] = "before"
    /\ answer[c] # NoCode => collecting[c] = "after" /\ answer[c] = statusCode[c]

WeatherIInv ==
    /\ WeatherTypeOK
    /\ Counted
    /\ phase \in {"statusesSet", "listening"} => serving = HealthServices
    /\ \A c \in Rpcs : WeatherCallInv(c)

LEMMA WeatherInvInit ==
    ASSUME WeatherInit
    PROVE  WeatherIInv
  <1>1. MetricsInit /\ phase = "built" /\ serving = {} /\ inCall = [c \in Rpcs |-> "none"]
    BY DEF WeatherInit, BackendInit
  <1>2. MetricsTypeOK /\ Counted
    BY <1>1, MetricsStart
  <1> QED
    BY <1>1, <1>2
    DEF WeatherIInv, WeatherTypeOK, WeatherCallInv, MetricsInit

\* The life of the process.
LEMMA WeatherPhaseStep ==
    ASSUME WeatherIInv,
           \/ WeatherSetStatus \/ WeatherStart \/ WeatherStartFails
           \/ WeatherShutdown \/ EnterTerminalState \/ Halt
    PROVE  WeatherIInv'
  <1> USE DEF WeatherIInv, WeatherTypeOK, WeatherCallInv
  <1>1. UNCHANGED metricsVars
    BY DEF WeatherSetStatus, WeatherStart, WeatherStartFails, WeatherShutdown,
           EnterTerminalState, Halt
  <1>2. MetricsTypeOK' /\ Counted'
    BY <1>1, MetricsAlone
  <1>3. CASE WeatherSetStatus
    <2>1. serving' = HealthServices
      BY <1>3 DEF WeatherSetStatus, WeatherServices, HealthServices
    <2> QED
      BY <1>1, <1>2, <1>3, <2>1 DEF WeatherSetStatus, metricsVars
  <1>4. CASE WeatherStart \/ WeatherStartFails \/ WeatherShutdown \/ EnterTerminalState
    BY <1>1, <1>2, <1>4
    DEF WeatherStart, WeatherStartFails, WeatherShutdown, EnterTerminalState, metricsVars
  <1>5. CASE Halt
    BY <1>1, <1>2, <1>5 DEF Halt, metricsVars
  <1> QED
    BY <1>3, <1>4, <1>5

\* One call.
LEMMA WeatherCallStep ==
    ASSUME WeatherIInv, NEW c \in Rpcs, WeatherIntercept(c) \/ WeatherCall(c)
    PROVE  WeatherIInv'
  <1> USE DEF WeatherIInv, WeatherTypeOK
  <1>1. CASE WeatherIntercept(c)
    <2>1. MetricsTypeOK' /\ Counted'
      BY <1>1, MetricsAlone DEF WeatherIntercept
    <2> QED
      BY <1>1, <2>1 DEF WeatherIntercept, WeatherCallInv, metricsVars
  <1>2. ASSUME NEW code \in {"OK", "UNKNOWN"}, WeatherHandler(c, code)
        PROVE  WeatherIInv'
    <2>1. collecting[c] = "before" /\ answer[c] = NoCode
      BY <1>2 DEF WeatherHandler, WeatherCallInv
    <2>2. MetricsTypeOK' /\ Counted'
      BY <1>2, <2>1, CollectCallMetricsKeeps DEF WeatherHandler, Codes
    <2>3. inCall' = [inCall EXCEPT ![c] = "closing"] /\ UNCHANGED <<phase, serving>>
      BY <1>2 DEF WeatherHandler
    <2>4. \A d \in Rpcs : WeatherCallInv(d)'
      BY <1>2, <2>1, <2>3 DEF WeatherHandler, CollectCallMetrics, WeatherCallInv, MetricsTypeOK
    <2> QED
      BY <2>2, <2>3, <2>4
  <1>3. CASE WeatherCollect(c)
    <2>1. MetricsTypeOK' /\ Counted'
      BY <1>3, CollectKeeps DEF WeatherCollect
    <2>2. /\ collecting[c] \notin {"before", "after"}
          /\ \A d \in Rpcs \ {c} : collecting'[d] = collecting[d]
          /\ UNCHANGED <<phase, serving, inCall, statusCode, answer>>
      BY <1>3 DEF WeatherCollect, Collect, IncStarted, IncHandled, ObserveSeconds, MetricsTypeOK
    <2>3. \A d \in Rpcs : WeatherCallInv(d)'
      BY <2>2 DEF WeatherCallInv
    <2> QED
      BY <2>1, <2>2, <2>3
  <1>4. CASE WeatherClose(c)
    <2>1. statusCode[c] \in Codes
      BY <1>4 DEF WeatherClose, MetricsTypeOK
    <2>2. MetricsTypeOK' /\ Counted'
      BY <1>4, <2>1, SendStatusKeeps DEF WeatherClose
    <2>3. \A d \in Rpcs : WeatherCallInv(d)'
      BY <1>4 DEF WeatherClose, SendStatus, WeatherCallInv, MetricsTypeOK
    <2> QED
      BY <1>4, <2>2, <2>3 DEF WeatherClose
  <1> QED
    BY <1>1, <1>2, <1>3, <1>4 DEF WeatherCall

LEMMA WeatherAnswersAreCounted ==
    ASSUME WeatherIInv
    PROVE  WeatherAnswersCounted
  <1>1. ASSUME NEW k \in Codes, NEW c \in Rpcs, answer[c] \in {k}
        PROVE  c \in ObservedCalls(k)
    BY <1>1 DEF WeatherIInv, WeatherCallInv, ObservedCalls, Codes, NoCode
  <1> QED
    BY <1>1, CountersTellAnswers DEF WeatherAnswersCounted, WeatherIInv, WeatherTypeOK

-----------------------------------------------------------------------------
(***************************************************************************)
(* The nearby cities service.  A call is counted after it is answered, in  *)
(* one step, so what has finished is in the instruments and nothing else,  *)
(* if the interceptors run at all.                                         *)
(***************************************************************************)
NearbyCallInv(c) ==
    /\ collecting[c] \in {"before", "after"}
    /\ inCall[c] = "responded" => proxied /\ ctxStatus[c] = OkStatus
    /\ collecting[c] = "after" <=> proxied /\ inCall[c] = "finished"
    /\ collecting[c] = "after" => statusCode[c] = "OK"
    /\ inCall[c] \in {"responded", "finished"} => answer[c] = "OK"
    /\ answer[c] # NoCode =>
          answer[c] = "OK" /\ inCall[c] \in {"responded", "finished", "dropped"}

NearbyIInv ==
    /\ NearbyTypeOK
    /\ Counted
    /\ phase \in {"binding", "listening"} => serving = HealthServices
    /\ \A c \in Rpcs : NearbyCallInv(c)

LEMMA NearbyInvInit ==
    ASSUME NearbyInit
    PROVE  NearbyIInv
  <1>1. /\ MetricsInit /\ phase = "created" /\ serving = {} /\ inCall = [c \in Rpcs |-> "none"]
        /\ proxied \in BOOLEAN /\ ctxStatus \in [Rpcs -> {OkStatus, NoStatus}]
    BY DEF NearbyInit, BackendInit, ContextInit
  <1>2. MetricsTypeOK /\ Counted
    BY <1>1, MetricsStart
  <1> QED
    BY <1>1, <1>2 DEF NearbyIInv, NearbyTypeOK, NearbyCallInv, MetricsInit

LEMMA NearbyPhaseStep ==
    ASSUME NearbyIInv, NearbyStart \/ NearbyBound \/ NearbyExit
    PROVE  NearbyIInv'
  <1> USE DEF NearbyIInv, NearbyTypeOK
  <1>1. UNCHANGED metricsVars
    BY DEF NearbyStart, NearbyBound, NearbyExit
  <1>2. MetricsTypeOK' /\ Counted'
    BY <1>1, MetricsAlone
  <1>3. CASE NearbyStart \/ NearbyBound
    BY <1>1, <1>2, <1>3 DEF NearbyStart, NearbyBound, NearbyCallInv, nearbyVars, metricsVars
  <1>4. CASE NearbyExit
    <2>1. inCall' = [c \in Rpcs |-> IF inCall[c] \in {"handling", "responded"} THEN "dropped"
                                    ELSE inCall[c]]
      BY <1>4 DEF NearbyExit
    <2>2. \A c \in Rpcs : NearbyCallInv(c)'
      BY <1>1, <1>4, <2>1 DEF NearbyExit, NearbyCallInv, nearbyVars, metricsVars
    <2>3. phase' = "ended" /\ serving' \subseteq HealthServices /\ UNCHANGED nearbyVars
      BY <1>4 DEF NearbyExit
    <2>4. inCall' \in [Rpcs -> {"none", "handling", "responded", "finished", "failed", "dropped"}]
      BY <2>1
    <2> QED
      BY <1>2, <2>2, <2>3, <2>4 DEF nearbyVars
  <1> QED
    BY <1>3, <1>4

\* The name of the status that the context holds.
LEMMA OkIsItsName == StatusKeys[OkStatus + 1] = "OK"
  BY DEF StatusKeys, OkStatus

LEMMA NearbyCallStep ==
    ASSUME NearbyIInv, NEW c \in Rpcs,
           NearbyIntercept(c) \/ ServiceAnswers(c) \/ ServiceThrows(c) \/ ResumeMetrics(c)
    PROVE  NearbyIInv'
  <1> USE DEF NearbyIInv, NearbyTypeOK
  <1>1. CASE NearbyIntercept(c) \/ ServiceThrows(c)
    <2>1. MetricsTypeOK' /\ Counted'
      BY <1>1, MetricsAlone DEF NearbyIntercept, ServiceThrows
    <2> QED
      BY <1>1, <2>1 DEF NearbyIntercept, ServiceThrows, NearbyCallInv, nearbyVars, metricsVars
  <1>2. CASE ServiceAnswers(c)
    <2>1. MetricsTypeOK' /\ Counted'
      BY <1>2, SendStatusKeeps DEF ServiceAnswers, Codes
    <2>2. \A d \in Rpcs : NearbyCallInv(d)'
      BY <1>2 DEF ServiceAnswers, SendStatus, NearbyCallInv, MetricsTypeOK
    <2> QED
      BY <1>2, <2>1, <2>2 DEF ServiceAnswers
  <1>3. CASE ResumeMetrics(c)
    <2>1. /\ proxied /\ inCall[c] = "responded"
          /\ inCall' = [inCall EXCEPT ![c] = "finished"]
          /\ UNCHANGED <<phase, serving, proxied, ctxStatus>>
      BY <1>3 DEF ResumeMetrics, nearbyVars
    <2>2. collecting[c] = "before" /\ answer[c] = "OK" /\ ctxStatus[c] = OkStatus
      BY <2>1 DEF NearbyCallInv
    <2>3. CollectAll(c, "OK")
      BY <1>3, <2>2, OkIsItsName DEF ResumeMetrics
    <2>4. MetricsTypeOK' /\ Counted'
      BY <2>2, <2>3, CollectAllKeeps DEF Codes
    <2>5. \A d \in Rpcs : NearbyCallInv(d)'
      BY <2>1, <2>2, <2>3 DEF CollectAll, NearbyCallInv, MetricsTypeOK
    <2> QED
      BY <2>1, <2>4, <2>5
  <1> QED
    BY <1>1, <1>2, <1>3

\* The calls that have left the interceptors answered are those in the instruments.
LEMMA NearbyAnsweredAreCounted ==
    ASSUME NearbyIInv
    PROVE  NearbyAnswersCounted
  <1> DEFINE finished == {c \in Rpcs : collecting[c] = "after"}
             past(k) == {c \in Rpcs : answer[c] = k /\ inCall[c] \notin {"responded", "dropped"}}
  <1>1. StartedCalls = finished /\ HandledCalls("OK") = finished
    BY DEF NearbyIInv, NearbyCallInv, StartedCalls, HandledCalls
  <1>2. HandledCalls("UNKNOWN") = {} /\ HandledCalls("INTERNAL") = {}
    BY DEF NearbyIInv, NearbyCallInv, HandledCalls
  <1>3. \A k \in Codes : HandledCalls(k) = ObservedCalls(k)
    BY DEF NearbyIInv, NearbyCallInv, HandledCalls, ObservedCalls
  <1>4. Cardinality(HandledCalls("UNKNOWN")) = 0 /\ Cardinality(HandledCalls("INTERNAL")) = 0
    BY <1>2, NoCalls, Zenon
  <1>5. /\ grpcServerHandledTotal["OK"] = Cardinality(finished)
        /\ grpcServerHandledTotal["UNKNOWN"] = 0
        /\ grpcServerHandledTotal["INTERNAL"] = 0
        /\ grpcServerStartedTotal = Cardinality(finished)
    BY <1>1, <1>4 DEF NearbyIInv, Counted, Codes
  <1>6. Cardinality(finished) \in Nat
    BY CallsAreFinite
  <1>7. HandledTotal = grpcServerStartedTotal
    BY <1>5, <1>6 DEF HandledTotal
  <1>8. grpcServerHandledTotal = grpcServerHandlingSeconds
    <2>1. \A k \in Codes : grpcServerHandledTotal[k] = grpcServerHandlingSeconds[k]
      BY <1>3 DEF NearbyIInv, Counted
    <2> QED
      BY <2>1 DEF NearbyIInv, NearbyTypeOK, MetricsTypeOK
  <1>9. /\ proxied => past("OK") = finished
        /\ ~proxied => finished = {}
        /\ past("UNKNOWN") = {} /\ past("INTERNAL") = {}
    BY DEF NearbyIInv, NearbyTypeOK, NearbyCallInv, NoCode
  <1>10. /\ ~proxied => Cardinality(finished) = 0
         /\ Cardinality(past("UNKNOWN")) = 0 /\ Cardinality(past("INTERNAL")) = 0
    BY <1>9, NoCalls, Zenon
  <1>11. \A k \in Codes : grpcServerHandledTotal[k] = IF proxied THEN Cardinality(past(k)) ELSE 0
    BY <1>5, <1>9, <1>10 DEF Codes
  <1> QED
    BY <1>7, <1>8, <1>11 DEF NearbyAnswersCounted

-----------------------------------------------------------------------------
(***************************************************************************)
(* The population service.  A call is answered once it is in all           *)
(* instruments; what the client gets differs from the code it is counted   *)
(* under if the handler raised.  A call that hangs stays where it is.  The *)
(* pool serves the agents' streams too, which are never counted.           *)
(***************************************************************************)

\* The pool serves finitely many calls and streams.
LEMMA PoolIsFinite ==
    ASSUME NEW S \in SUBSET (Rpcs \cup Streams)
    PROVE  IsFiniteSet(S) /\ Cardinality(S) \in Nat
  <1>1. IsFiniteSet(Rpcs \cup Streams)
    BY RpcsAssumption, StreamsAssumption, FS_Union
  <1> QED
    BY <1>1, FS_Subset, FS_CardinalityType

\* The pool's queue holds each of them once.
LEMMA EmptyQueue ==
    ASSUME NEW S
    PROVE  <<>> \in Seq(S) /\ IsInjective(<<>>) /\ ToSet(<<>>) = {}
  BY DEF IsInjective, ToSet

LEMMA QueueOneMore ==
    ASSUME NEW S, NEW q \in Seq(S), IsInjective(q), NEW c \in S, c \notin ToSet(q)
    PROVE  /\ Append(q, c) \in Seq(S)
           /\ IsInjective(Append(q, c))
           /\ ToSet(Append(q, c)) = ToSet(q) \cup {c}
  <1>1. /\ Append(q, c) \in Seq(S)
        /\ Len(q) \in Nat
        /\ DOMAIN q = 1 .. Len(q)
        /\ DOMAIN Append(q, c) = 1 .. Len(q) + 1
        /\ \A i \in 1 .. Len(q) : Append(q, c)[i] = q[i]
        /\ Append(q, c)[Len(q) + 1] = c
    OBVIOUS
  <1>2. \A i \in 1 .. Len(q) : q[i] # c
    BY <1>1 DEF ToSet
  <1>3. 1 .. Len(q) + 1 = 1 .. Len(q) \cup {Len(q) + 1}
    BY <1>1
  <1>4. IsInjective(Append(q, c))
    BY <1>1, <1>2, <1>3 DEF IsInjective
  <1>5. ToSet(Append(q, c)) = ToSet(q) \cup {c}
    BY <1>1, <1>3 DEF ToSet
  <1> QED
    BY <1>1, <1>4, <1>5

LEMMA QueueOneLess ==
    ASSUME NEW S, NEW q \in Seq(S), IsInjective(q), q # <<>>
    PROVE  /\ Head(q) \in S /\ Head(q) \in ToSet(q)
           /\ Tail(q) \in Seq(S)
           /\ IsInjective(Tail(q))
           /\ ToSet(Tail(q)) = ToSet(q) \ {Head(q)}
  <1>1. /\ Len(q) \in Nat \ {0}
        /\ DOMAIN q = 1 .. Len(q)
        /\ Head(q) = q[1] /\ q[1] \in S
        /\ Tail(q) \in Seq(S)
        /\ DOMAIN Tail(q) = 1 .. Len(q) - 1
        /\ \A i \in 1 .. Len(q) - 1 : Tail(q)[i] = q[i + 1]
    OBVIOUS
  <1>2. Head(q) \in ToSet(q)
    BY <1>1 DEF ToSet
  <1>3. IsInjective(Tail(q))
    <2>1. ASSUME NEW i \in 1 .. Len(q) - 1, NEW j \in 1 .. Len(q) - 1, Tail(q)[i] = Tail(q)[j]
          PROVE  i = j
      <3>1. i + 1 \in DOMAIN q /\ j + 1 \in DOMAIN q /\ q[i + 1] = q[j + 1]
        BY <1>1, <2>1
      <3>2. i + 1 = j + 1
        BY <3>1 DEF IsInjective
      <3> QED
        BY <1>1, <3>2
    <2> QED
      BY <1>1, <2>1 DEF IsInjective
  <1>4. ASSUME NEW c
        PROVE  c \in ToSet(Tail(q)) <=> c \in ToSet(q) /\ c # Head(q)
    <2>1. ASSUME NEW i \in 1 .. Len(q) - 1, c = Tail(q)[i]
          PROVE  c \in ToSet(q) /\ c # Head(q)
      <3>1. i + 1 \in DOMAIN q /\ 1 \in DOMAIN q /\ i + 1 # 1 /\ c = q[i + 1]
        BY <1>1, <2>1
      <3> QED
        BY <1>1, <3>1 DEF ToSet, IsInjective
    <2>2. ASSUME NEW i \in 1 .. Len(q), c = q[i], c # Head(q)
          PROVE  c \in ToSet(Tail(q))
      <3>1. i - 1 \in 1 .. Len(q) - 1 /\ i = (i - 1) + 1
        BY <1>1, <2>2
      <3>2. Tail(q)[i - 1] = c
        BY <1>1, <2>2, <3>1
      <3> QED
        BY <1>1, <3>1, <3>2 DEF ToSet
    <2> QED
      BY <1>1, <2>1, <2>2 DEF ToSet
  <1> QED
    BY <1>1, <1>2, <1>3, <1>4

\* A stream that arrives joins those that the queue may hold.
LEMMA QueueOfMore ==
    ASSUME NEW S, NEW T, S \subseteq T, NEW q \in Seq(S)
    PROVE  q \in Seq(T)
  OBVIOUS

PopulationCallInv(c) ==
    /\ inCall[c] \in {"none", "queued", "handling"} =>
          collecting[c] = "before" /\ c \notin raised
    /\ collecting[c] # "before" => statusCode[c] = IF c \in raised THEN "UNKNOWN" ELSE "OK"
    /\ answer[c] # NoCode =>
          collecting[c] = "after" /\ answer[c] = IF c \in raised THEN "INTERNAL" ELSE "OK"
    /\ c \in hung => inCall[c] = "handling"

PopulationIInv ==
    /\ PopulationTypeOK
    /\ Counted
    /\ phase \in {"statusesSet", "listening"} => serving = HealthServices
    /\ \A c \in Rpcs : PopulationCallInv(c)

LEMMA PopulationInvInit ==
    ASSUME PopulationInit
    PROVE  PopulationIInv
  <1>1. /\ MetricsInit /\ phase = "created" /\ serving = {}
        /\ inCall = [c \in Rpcs |-> "none"]
        /\ arrived = {} /\ queue = <<>> /\ workers = {} /\ hung = {} /\ raised = {}
    BY DEF PopulationInit, PoolInit, BackendInit
  <1>2. MetricsTypeOK /\ Counted
    BY <1>1, MetricsStart
  <1>3. ToSet(queue) = {} /\ IsInjective(queue) /\ queue \in Seq(Rpcs \cup arrived)
    BY <1>1, EmptyQueue
  <1>4. Cardinality(workers) <= MaxWorkers
    <2>1. Cardinality(workers) = 0
      BY <1>1, NoCalls
    <2> QED
      BY <2>1, PoolAssumption
  <1>5. PopulationTypeOK
    BY <1>1, <1>2, <1>3, <1>4 DEF PopulationTypeOK
  <1>6. \A c \in Rpcs : PopulationCallInv(c)
    BY <1>1 DEF PopulationCallInv, MetricsInit
  <1> QED
    BY <1>1, <1>2, <1>5, <1>6 DEF PopulationIInv

LEMMA PopulationPhaseStep ==
    ASSUME PopulationIInv, StartMetrics \/ PopulationSetStatus \/ Listen \/ EndProcess
    PROVE  PopulationIInv'
  <1> USE DEF PopulationIInv, PopulationTypeOK, PopulationCallInv, poolVars
  <1>1. UNCHANGED metricsVars
    BY DEF StartMetrics, PopulationSetStatus, Listen, EndProcess
  <1>2. MetricsTypeOK' /\ Counted'
    BY <1>1, MetricsAlone
  <1>3. CASE StartMetrics \/ Listen
    BY <1>1, <1>2, <1>3 DEF StartMetrics, Listen, metricsVars
  <1>4. CASE PopulationSetStatus
    <2>1. serving' = HealthServices
      BY <1>4 DEF PopulationSetStatus, PopulationServices, HealthServices
    <2> QED
      BY <1>1, <1>2, <1>4, <2>1 DEF PopulationSetStatus, metricsVars
  <1>5. CASE EndProcess
    <2>1. /\ phase' = "ended"
          /\ inCall' = [c \in Rpcs |-> IF inCall[c] \in {"queued", "handling", "collecting"}
                                       THEN "dropped" ELSE inCall[c]]
          /\ queue' = <<>> /\ workers' = {} /\ hung' = {}
          /\ UNCHANGED <<serving, arrived, raised>>
      BY <1>5 DEF EndProcess
    <2>2. ToSet(queue') = {} /\ IsInjective(queue') /\ queue' \in Seq(Rpcs \cup arrived)
      BY <2>1, EmptyQueue
    <2>3. Cardinality(workers') <= MaxWorkers
      <3>1. Cardinality(workers') = 0
        BY <2>1, NoCalls
      <3> QED
        BY <3>1, PoolAssumption
    <2>4. PopulationTypeOK'
      BY <1>2, <2>1, <2>2, <2>3
    <2>5. \A c \in Rpcs : PopulationCallInv(c)'
      BY <1>1, <2>1 DEF metricsVars
    <2> QED
      BY <1>2, <2>1, <2>4, <2>5
  <1> QED
    BY <1>3, <1>4, <1>5

\* A call or a stream goes into the queue, and from it to a thread.
LEMMA PopulationQueueStep ==
    ASSUME PopulationIInv,
           TakeCall \/ (\E c \in Rpcs : SubmitCall(c)) \/ \E s \in Streams : SubmitStream(s)
    PROVE  PopulationIInv'
  <1> USE DEF PopulationIInv, PopulationTypeOK
  <1>1. UNCHANGED <<phase, serving, hung, raised, metricsVars>>
    BY DEF TakeCall, TakeOldest, SubmitCall, SubmitStream
  <1>2. MetricsTypeOK' /\ Counted'
    BY <1>1, MetricsAlone
  <1>3. ASSUME NEW c \in Rpcs, SubmitCall(c)
        PROVE  PopulationIInv'
    <2>1. /\ inCall[c] = "none"
          /\ inCall' = [inCall EXCEPT ![c] = "queued"]
          /\ queue' = Append(queue, c)
          /\ workers' = workers /\ arrived' = arrived
      BY <1>3 DEF SubmitCall
    <2>2. /\ queue' \in Seq(Rpcs \cup arrived) /\ IsInjective(queue')
          /\ ToSet(queue') = ToSet(queue) \cup {c}
      BY <2>1, QueueOneMore
    <2>3. PopulationTypeOK'
      BY <1>1, <1>2, <2>1, <2>2
    <2>4. \A d \in Rpcs : PopulationCallInv(d)'
      BY <1>1, <2>1 DEF PopulationCallInv, metricsVars
    <2> QED
      BY <1>1, <1>2, <2>3, <2>4
  <1>4. ASSUME NEW s \in Streams, SubmitStream(s)
        PROVE  PopulationIInv'
    <2>1. /\ s \notin arrived /\ arrived' = arrived \cup {s}
          /\ queue' = Append(queue, s)
          /\ workers' = workers /\ inCall' = inCall
      BY <1>4 DEF SubmitStream
    <2>2. s \notin Rpcs
      BY StreamsAssumption
    <2>3. s \notin ToSet(queue) /\ s \notin workers
      <3>1. ToSet(queue) \subseteq Rpcs \cup arrived
        BY DEF ToSet
      <3> QED
        BY <2>1, <2>2, <3>1
    <2>4. queue \in Seq(Rpcs \cup arrived')
      BY <2>1, QueueOfMore
    <2>5. /\ queue' \in Seq(Rpcs \cup arrived') /\ IsInjective(queue')
          /\ ToSet(queue') = ToSet(queue) \cup {s}
      BY <2>1, <2>3, <2>4, QueueOneMore
    <2>6. PopulationTypeOK'
      BY <1>1, <1>2, <2>1, <2>2, <2>3, <2>5
    <2>7. \A d \in Rpcs : PopulationCallInv(d)'
      BY <1>1, <2>1 DEF PopulationCallInv, metricsVars
    <2> QED
      BY <1>1, <1>2, <2>6, <2>7
  <1>5. CASE TakeCall
    <2> DEFINE x == Head(queue)
    <2>1. /\ queue # <<>> /\ Cardinality(workers) < MaxWorkers
          /\ workers' = workers \cup {x}
          /\ inCall' = [c \in Rpcs |-> IF c = x THEN "handling" ELSE inCall[c]]
          /\ queue' = Tail(queue) /\ arrived' = arrived
      BY <1>5 DEF TakeCall, TakeOldest
    <2>2. /\ x \in Rpcs \cup arrived /\ x \in ToSet(queue)
          /\ queue' \in Seq(Rpcs \cup arrived) /\ IsInjective(queue')
          /\ ToSet(queue') = ToSet(queue) \ {x}
      BY <2>1, QueueOneLess
    <2> HIDE DEF x
    <2>3. x \notin workers /\ (x \in Rpcs => inCall[x] = "queued")
      BY <2>2
    <2>4. Cardinality(workers') <= MaxWorkers
      <3>1. IsFiniteSet(workers) /\ Cardinality(workers) \in Nat
        BY PoolIsFinite
      <3>2. Cardinality(workers') = Cardinality(workers) + 1
        BY <2>1, <2>3, <3>1, FS_AddElement
      <3> QED
        BY <2>1, <3>1, <3>2, PoolAssumption
    <2>5. \A c \in Rpcs : /\ c \in ToSet(queue') <=> inCall'[c] = "queued"
                          /\ c \in workers' <=> inCall'[c] \in {"handling", "collecting"}
      BY <2>1, <2>2, <2>3
    <2>6. PopulationTypeOK'
      BY <1>1, <1>2, <2>1, <2>2, <2>3, <2>4, <2>5
    <2>7. \A d \in Rpcs : PopulationCallInv(d)'
      BY <1>1, <2>1, <2>3 DEF PopulationCallInv, metricsVars
    <2> QED
      BY <1>1, <1>2, <2>6, <2>7
  <1> QED
    BY <1>3, <1>4, <1>5

\* Fewer of them have a thread.
LEMMA FewerWorkers ==
    ASSUME PopulationTypeOK, workers' \in SUBSET workers
    PROVE  Cardinality(workers') <= MaxWorkers
  <1>1. /\ IsFiniteSet(workers) /\ Cardinality(workers) \in Nat
        /\ Cardinality(workers') \in Nat
    BY PoolIsFinite DEF PopulationTypeOK
  <1>2. Cardinality(workers') <= Cardinality(workers)
    BY <1>1, FS_Subset
  <1> QED
    BY <1>1, <1>2, PoolAssumption DEF PopulationTypeOK

\* A stream ends.
LEMMA PopulationStreamStep ==
    ASSUME PopulationIInv, NEW s \in Streams, EndStream(s)
    PROVE  PopulationIInv'
  <1> USE DEF PopulationIInv, PopulationTypeOK
  <1>1. /\ workers' = workers \ {s}
        /\ UNCHANGED <<phase, serving, arrived, queue, inCall, hung, raised, metricsVars>>
    BY DEF EndStream
  <1>2. MetricsTypeOK' /\ Counted'
    BY <1>1, MetricsAlone
  <1>3. s \notin Rpcs
    BY StreamsAssumption
  <1>4. Cardinality(workers') <= MaxWorkers
    BY <1>1, FewerWorkers
  <1>5. PopulationTypeOK'
    BY <1>1, <1>2, <1>3, <1>4
  <1>6. \A d \in Rpcs : PopulationCallInv(d)'
    BY <1>1 DEF PopulationCallInv, metricsVars
  <1> QED
    BY <1>1, <1>2, <1>5, <1>6

\* A call on its thread.
LEMMA PopulationThreadStep ==
    ASSUME PopulationIInv, NEW c \in Rpcs, UpstreamHangs(c) \/ PopulationCall(c)
    PROVE  PopulationIInv'
  <1> USE DEF PopulationIInv, PopulationTypeOK
  <1>1. CASE UpstreamHangs(c)
    <2>1. inCall[c] = "handling" /\ hung' = hung \cup {c}
          /\ UNCHANGED <<phase, serving, arrived, queue, workers, inCall, raised, metricsVars>>
      BY <1>1 DEF UpstreamHangs, Handling
    <2>2. MetricsTypeOK' /\ Counted'
      BY <2>1, MetricsAlone
    <2>3. PopulationTypeOK'
      BY <2>1, <2>2
    <2>4. \A d \in Rpcs : PopulationCallInv(d)'
      BY <2>1 DEF PopulationCallInv, metricsVars
    <2> QED
      BY <2>1, <2>2, <2>3, <2>4
  <1>2. CASE HandlerReturns(c) \/ HandlerRaises(c)
    <2>1. PICK code \in {"OK", "UNKNOWN"} :
              /\ CollectCallMetrics(c, code)
              /\ raised' = IF code = "UNKNOWN" THEN raised \cup {c} ELSE raised
      BY <1>2 DEF HandlerReturns, HandlerRaises
    <2>2. /\ inCall[c] = "handling" /\ c \notin hung
          /\ inCall' = [inCall EXCEPT ![c] = "collecting"]
          /\ UNCHANGED <<phase, serving, arrived, queue, workers, hung>>
      BY <1>2 DEF HandlerReturns, HandlerRaises, Handling
    <2>3. collecting[c] = "before" /\ answer[c] = NoCode /\ c \notin raised
      BY <2>2 DEF PopulationCallInv
    <2>4. MetricsTypeOK' /\ Counted'
      BY <2>1, <2>3, CollectCallMetricsKeeps DEF Codes
    <2>5. PopulationTypeOK'
      BY <2>1, <2>2, <2>4
    <2>6. \A d \in Rpcs : PopulationCallInv(d)'
      BY <2>1, <2>2, <2>3 DEF CollectCallMetrics, PopulationCallInv, MetricsTypeOK
    <2> QED
      BY <2>2, <2>4, <2>5, <2>6
  <1>3. CASE PopulationCollect(c)
    <2>1. /\ Collect(c)
          /\ UNCHANGED <<phase, serving, inCall, arrived, queue, workers, hung, raised>>
      BY <1>3 DEF PopulationCollect, poolVars
    <2>2. MetricsTypeOK' /\ Counted'
      BY <2>1, CollectKeeps
    <2>3. /\ collecting[c] \notin {"before", "after"}
          /\ \A d \in Rpcs \ {c} : collecting'[d] = collecting[d]
          /\ UNCHANGED <<statusCode, answer>>
      BY <2>1 DEF Collect, IncStarted, IncHandled, ObserveSeconds, MetricsTypeOK
    <2>4. \A d \in Rpcs : PopulationCallInv(d)'
      BY <2>1, <2>3 DEF PopulationCallInv
    <2> QED
      BY <2>1, <2>2, <2>4
  <1>4. CASE PopulationAnswer(c)
    <2> DEFINE code == IF c \in raised THEN "INTERNAL" ELSE "OK"
    <2>1. /\ inCall[c] = "collecting" /\ collecting[c] = "after"
          /\ inCall' = [inCall EXCEPT ![c] = "answered"]
          /\ workers' = workers \ {c}
          /\ SendStatus(c, code)
          /\ UNCHANGED <<phase, serving, arrived, queue, hung, raised>>
      BY <1>4 DEF PopulationAnswer
    <2>2. MetricsTypeOK' /\ Counted'
      BY <2>1, SendStatusKeeps DEF Codes
    <2>3. c \notin hung
      BY <2>1 DEF PopulationCallInv
    <2>4. Cardinality(workers') <= MaxWorkers
      BY <2>1, FewerWorkers
    <2>5. PopulationTypeOK'
      BY <2>1, <2>2, <2>3, <2>4
    <2>6. \A d \in Rpcs : PopulationCallInv(d)'
      BY <2>1 DEF SendStatus, PopulationCallInv, MetricsTypeOK
    <2> QED
      BY <2>1, <2>2, <2>5, <2>6
  <1> QED
    BY <1>1, <1>2, <1>3, <1>4 DEF PopulationCall

LEMMA PopulationAnswersAreCounted ==
    ASSUME PopulationIInv
    PROVE  PopulationAnswersCounted
  <1>1. ASSUME NEW c \in Rpcs, answer[c] \in {"OK"}
        PROVE  c \in ObservedCalls("OK")
    BY <1>1 DEF PopulationIInv, PopulationCallInv, ObservedCalls, NoCode
  <1>2. ASSUME NEW c \in Rpcs, answer[c] \in {"UNKNOWN", "INTERNAL"}
        PROVE  c \in ObservedCalls("UNKNOWN")
    BY <1>2 DEF PopulationIInv, PopulationCallInv, ObservedCalls, NoCode
  <1> QED
    BY <1>1, <1>2, CountersTellAnswers
    DEF PopulationAnswersCounted, PopulationIInv, PopulationTypeOK, Codes

-----------------------------------------------------------------------------
(***************************************************************************)
(* Theorems.                                                               *)
(***************************************************************************)
BackendsIInv ==
    \/ backend = "weather" /\ WeatherIInv
    \/ backend = "population" /\ PopulationIInv
    \/ backend = "nearbyCities" /\ NearbyIInv

LEMMA BackendsInvStep ==
    ASSUME BackendsIInv, [BackendsNext]_allVars
    PROVE  BackendsIInv'
  <1>1. CASE backend = "weather" /\ WeatherNext /\ UNCHANGED <<backend, poolVars, nearbyVars>>
    BY <1>1, WeatherPhaseStep, WeatherCallStep DEF BackendsIInv, WeatherNext
  <1>2. CASE backend = "population" /\ PopulationNext /\ UNCHANGED <<backend, nearbyVars>>
    BY <1>2, PopulationPhaseStep, PopulationQueueStep, PopulationThreadStep,
       PopulationStreamStep
    DEF BackendsIInv, PopulationNext
  <1>3. CASE backend = "nearbyCities" /\ NearbyNext /\ UNCHANGED <<backend, poolVars>>
    BY <1>3, NearbyPhaseStep, NearbyCallStep DEF BackendsIInv, NearbyNext
  <1>4. CASE UNCHANGED allVars
    <2>1. UNCHANGED <<backend, phase, serving, inCall, metricsVars, arrived, queue, workers,
                      hung, raised, proxied, ctxStatus>>
      BY <1>4 DEF allVars, backendVars, poolVars, nearbyVars
    <2>2. CASE backend = "weather"
      <3>1. WeatherIInv
        BY <2>2 DEF BackendsIInv
      <3>2. MetricsTypeOK' /\ Counted'
        BY <2>1, <3>1, MetricsAlone DEF WeatherIInv, WeatherTypeOK
      <3>3. WeatherIInv'
        BY <2>1, <3>1, <3>2
        DEF WeatherIInv, WeatherTypeOK, WeatherCallInv, metricsVars
      <3> QED
        BY <2>1, <2>2, <3>3 DEF BackendsIInv
    <2>3. CASE backend = "population"
      <3>1. PopulationIInv
        BY <2>3 DEF BackendsIInv
      <3>2. MetricsTypeOK' /\ Counted'
        BY <2>1, <3>1, MetricsAlone DEF PopulationIInv, PopulationTypeOK
      <3>3. PopulationIInv'
        BY <2>1, <3>1, <3>2
        DEF PopulationIInv, PopulationTypeOK, PopulationCallInv, metricsVars
      <3> QED
        BY <2>1, <2>3, <3>3 DEF BackendsIInv
    <2>4. CASE backend = "nearbyCities"
      <3>1. NearbyIInv
        BY <2>4 DEF BackendsIInv
      <3>2. MetricsTypeOK' /\ Counted'
        BY <2>1, <3>1, MetricsAlone DEF NearbyIInv, NearbyTypeOK
      <3>3. NearbyIInv'
        BY <2>1, <3>1, <3>2 DEF NearbyIInv, NearbyTypeOK, NearbyCallInv, metricsVars
      <3> QED
        BY <2>1, <2>4, <3>3 DEF BackendsIInv
    <2> QED
      BY <2>2, <2>3, <2>4 DEF BackendsIInv
  <1> QED
    BY <1>1, <1>2, <1>3, <1>4 DEF BackendsNext

\* BackendsIInv holds in every reachable state of each backend.
THEOREM BackendsInvariant == BackendsSpec => []BackendsIInv
  <1>1. BackendsInit => BackendsIInv
    BY WeatherInvInit, PopulationInvInit, NearbyInvInit
    DEF BackendsInit, BackendsIInv, PopulationInit, NearbyInit
  <1> QED
    BY <1>1, BackendsInvStep, PTL DEF BackendsSpec

\* The variables keep their types.  In particular the population service's queue
\* never holds a call or a stream twice, its pool never has more than MaxWorkers
\* threads, and a call is in one of them exactly as long as it is handled or
\* collected.
THEOREM BackendsTypeCorrect == BackendsSpec => []BackendsTypeOK
  <1>1. BackendsIInv => BackendsTypeOK
    BY DEF BackendsIInv, BackendsTypeOK, WeatherIInv, PopulationIInv, NearbyIInv
  <1> QED
    BY <1>1, BackendsInvariant, PTL

\* A backend that takes calls reports SERVING for each of its services, so it
\* never gives the agent a reason to unregister it.
THEOREM ListeningMeansServing == BackendsSpec => []ServingWhileListening
  <1>1. BackendsIInv => ServingWhileListening
    BY DEF BackendsIInv, WeatherIInv, PopulationIInv, NearbyIInv, ServingWhileListening
  <1> QED
    BY <1>1, BackendsInvariant, PTL

\* What a scrape finds agrees with what the clients were answered, for any number
\* of calls and any interleaving of the threads that collect.
THEOREM MetricsAgreeWithAnswers == BackendsSpec => []MetricsMatchAnswers
  <1>1. ASSUME BackendsIInv
        PROVE  MetricsMatchAnswers
    BY <1>1, WeatherAnswersAreCounted, PopulationAnswersAreCounted, NearbyAnsweredAreCounted
    DEF BackendsIInv, MetricsMatchAnswers
  <1> QED
    BY <1>1, BackendsInvariant, PTL
===============================================================================
