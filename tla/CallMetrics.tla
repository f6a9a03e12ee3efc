------------------------------ MODULE CallMetrics ------------------------------
(***************************************************************************)
(* The call metrics of a backend: collectCallMetrics increments three      *)
(* instruments, one after the other, while other threads do the same.      *)
(* Weather and population have the same three statements; the modules that *)
(* extend this one say when a call gets here and when it is answered.      *)
(*                                                                         *)
(* The labels grpc_type and grpc_method are left out: all calls modelled   *)
(* are unary calls of GetCityInformation.                                  *)
(***************************************************************************)
EXTENDS Integers, FiniteSets

CONSTANT Rpcs  \* the calls of GetCityInformation during one life of the process

ASSUME RpcsAssumption == IsFiniteSet(Rpcs)

Codes == {"OK", "UNKNOWN", "INTERNAL"}
NoCode == "no code"

VARIABLES
    collecting,              \* the statement of collectCallMetrics that comes next
    statusCode,              \* the code in the CallMetrics of the call
    grpcServerStartedTotal,
    grpcServerHandledTotal,
    grpcServerHandlingSeconds,  \* the number of observations
    answer                   \* the code that the call's client got

metricsVars == <<collecting, statusCode, grpcServerStartedTotal,
                 grpcServerHandledTotal, grpcServerHandlingSeconds, answer>>

Statements == {"before", "started", "handled", "seconds", "after"}

MetricsTypeOK ==
    /\ collecting \in [Rpcs -> Statements]
    /\ statusCode \in [Rpcs -> Codes \cup {NoCode}]
    /\ \A c \in Rpcs : statusCode[c] = NoCode <=> collecting[c] = "before"
    /\ grpcServerStartedTotal \in Nat
    /\ grpcServerHandledTotal \in [Codes -> Nat]
    /\ grpcServerHandlingSeconds \in [Codes -> Nat]
    /\ answer \in [Rpcs -> Codes \cup {NoCode}]

MetricsInit ==
    /\ collecting = [c \in Rpcs |-> "before"]
    /\ statusCode = [c \in Rpcs |-> NoCode]
    /\ grpcServerStartedTotal = 0
    /\ grpcServerHandledTotal = [k \in Codes |-> 0]
    /\ grpcServerHandlingSeconds = [k \in Codes |-> 0]
    /\ answer = [c \in Rpcs |-> NoCode]

\* collectCallMetrics is called with a code.
CollectCallMetrics(c, code) ==
    /\ collecting' = [collecting EXCEPT ![c] = "started"]
    /\ statusCode' = [statusCode EXCEPT ![c] = code]
    /\ UNCHANGED <<grpcServerStartedTotal, grpcServerHandledTotal,
                   grpcServerHandlingSeconds, answer>>

IncStarted(c) ==
    /\ collecting[c] = "started"
    /\ grpcServerStartedTotal' = grpcServerStartedTotal + 1
    /\ collecting' = [collecting EXCEPT ![c] = "handled"]
    /\ UNCHANGED <<statusCode, grpcServerHandledTotal, grpcServerHandlingSeconds, answer>>

IncHandled(c) ==
    /\ collecting[c] = "handled"
    /\ grpcServerHandledTotal' = [grpcServerHandledTotal EXCEPT ![statusCode[c]] = @ + 1]
    /\ collecting' = [collecting EXCEPT ![c] = "seconds"]
    /\ UNCHANGED <<statusCode, grpcServerStartedTotal, grpcServerHandlingSeconds, answer>>

ObserveSeconds(c) ==
    /\ collecting[c] = "seconds"
    /\ grpcServerHandlingSeconds' =
          [grpcServerHandlingSeconds EXCEPT ![statusCode[c]] = @ + 1]
    /\ collecting' = [collecting EXCEPT ![c] = "after"]
    /\ UNCHANGED <<statusCode, grpcServerStartedTotal, grpcServerHandledTotal, answer>>

Collect(c) == IncStarted(c) \/ IncHandled(c) \/ ObserveSeconds(c)

\* The code goes out to the client.
SendStatus(c, code) ==
    /\ answer' = [answer EXCEPT ![c] = code]
    /\ UNCHANGED <<collecting, statusCode, grpcServerStartedTotal,
                   grpcServerHandledTotal, grpcServerHandlingSeconds>>

-----------------------------------------------------------------------------
AnsweredWith(codes) == Cardinality({c \in Rpcs : answer[c] \in codes})
Collected(codes) == Cardinality({c \in Rpcs : statusCode[c] \in codes})
HandledTotal == grpcServerHandledTotal["OK"] + grpcServerHandledTotal["UNKNOWN"]
                   + grpcServerHandledTotal["INTERNAL"]

\* What a scrape finds between any two steps.  For a code that stands for the
\* given answers, every call that was answered so is in all instruments, and no
\* call is there twice; no call is handled that was not counted as started.
CountedOnce(code, answers) ==
    /\ AnsweredWith(answers) <= grpcServerHandlingSeconds[code]
    /\ grpcServerHandlingSeconds[code] <= grpcServerHandledTotal[code]
    /\ grpcServerHandledTotal[code] <= Collected({code})
    /\ HandledTotal <= grpcServerStartedTotal
    /\ grpcServerStartedTotal <= Collected(Codes)
===============================================================================
