------------------------- MODULE DiscoveryAgentProofs -------------------------
(***************************************************************************)
(* Proofs about the discovery agent, for any number of agents, any lists   *)
(* of services and any failures.                                           *)
(***************************************************************************)
EXTENDS DiscoveryAgent, TLAPS

-----------------------------------------------------------------------------
(***************************************************************************)
(* The inductive invariant.  SendersAreServed says of a receiver that is   *)
(* sending where its client is.  What makes it hold is that the two walk   *)
(* in step: where the client is fixes where its receiver can be, from      *)
(* before the stream is opened until after its last error was taken.       *)
(***************************************************************************)

\* main is in Execute; the receiver it starts ends before it registers.
ReflectionInv(a) ==
    /\ at[a].main \in {"none", "start", "waitc", "errc",
                       "register", "registering", "quit", "done"}
    /\ at[a].main \in {"none", "start"} => at[a].reflection = "none"
    /\ at[a].main = "waitc" => at[a].reflection \in {"recv", "spin", "sendResp"}
    /\ at[a].main = "errc" => at[a].reflection = "sendErr"
    /\ at[a].main \in {"register", "registering", "quit", "done"} =>
          at[a].reflection = "done"

\* The same for the watcher, which runs while main waits for quit.
HealthInv(a) ==
    /\ at[a].watcher \in {"none", "watch", "waitc", "errc",
                          "unregister", "unregistering", "sendQuit", "done"}
    /\ at[a].watcher \in {"none", "watch"} => at[a].health = "none"
    /\ at[a].watcher = "waitc" => at[a].health \in {"recv", "spin", "sendResp"}
    /\ at[a].watcher = "errc" => at[a].health = "sendErr"
    /\ at[a].watcher \in {"unregister", "unregistering", "sendQuit", "done"} =>
          at[a].health \in {"none", "done"}
    /\ at[a].watcher \notin {"none", "done"} <=> at[a].main = "quit"
    /\ at[a].watcher = "done" => at[a].main = "done"

\* A process that was never started has no goroutine.  From the moment it has
\* its services, they are what the target implements.
ProcessInv(a) ==
    /\ exit[a] = "off" <=> at[a].main = "none"
    /\ at[a].main \in {"none", "start", "waitc", "errc"} => services[a] = <<>>
    /\ at[a].main \in {"register", "registering", "quit"} \/ at[a].watcher = "done" =>
          services[a] = target[a]

AgentIInv ==
    /\ AgentTypeOK
    /\ \A a \in Instances : ReflectionInv(a) /\ HealthInv(a) /\ ProcessInv(a)

-----------------------------------------------------------------------------
(* Type correctness. *)

\* One goroutine of an agent goes to another place, or two do.
LEMMA MovedType ==
    ASSUME at \in [Instances -> [Goroutines -> Places]], NEW a \in Instances,
           NEW g \in Goroutines, NEW h \in Goroutines, NEW p \in Places, NEW q \in Places
    PROVE  /\ [at EXCEPT ![a][g] = p] \in [Instances -> [Goroutines -> Places]]
           /\ [at EXCEPT ![a][g] = p, ![a][h] = q] \in [Instances -> [Goroutines -> Places]]
  <1>1. [at EXCEPT ![a][g] = p] \in [Instances -> [Goroutines -> Places]]
    OBVIOUS
  <1> DEFINE moved == [at EXCEPT ![a][g] = p]
  <1>2. [moved EXCEPT ![a][h] = q] \in [Instances -> [Goroutines -> Places]]
    BY <1>1
  <1> QED
    BY <1>1, <1>2

\* A receiver has read something.
LEMMA ReadType ==
    ASSUME got \in [Instances -> [Streams -> Readings]], NEW a \in Instances,
           NEW s \in Streams, NEW r \in Readings
    PROVE  [got EXCEPT ![a][s] = r] \in [Instances -> [Streams -> Readings]]
  OBVIOUS

\* The names of the goroutines, the streams and the places that steps mention.
LEMMA Names ==
    /\ {"main", "watcher", "reflection", "health"} \subseteq Goroutines
    /\ {"reflection", "health"} \subseteq Streams /\ Streams \subseteq Goroutines
    /\ \A s \in Streams : ClientOf(s) \in Goroutines
    /\ {"start", "waitc", "errc", "register", "registering", "quit", "watch",
        "unregister", "unregistering", "sendQuit", "done", "recv", "sendResp",
        "sendErr", "spin"} \subseteq Places
    /\ {"list", "refused", "NOT_SERVING", "error"} \subseteq Readings
    /\ {"running", "0", "2", "killed"} \subseteq ExitStatus
  BY DEF Goroutines, Streams, ClientOf, Places, Readings, ExitStatus

\* Every step of an agent keeps the variables within their types.
LEMMA AgentTypeStep == AgentTypeOK /\ [AgentNext]_agentVars => AgentTypeOK'
  <1> SUFFICES ASSUME AgentTypeOK, [AgentNext]_agentVars
               PROVE  AgentTypeOK'
    OBVIOUS
  <1> USE Names DEF AgentTypeOK, Exit
  <1>1. CASE UNCHANGED agentVars
    BY <1>1 DEF agentVars
  <1> SUFFICES ASSUME NEW a \in Instances,
                      Start(a) \/ AgentStep(a) \/ MasterCall(a) \/ TargetStep(a) \/ Kill(a)
               PROVE  AgentTypeOK'
    BY <1>1 DEF AgentNext
  <1>2. CASE Start(a)
    BY <1>2, MovedType DEF Start
  <1>3. CASE Kill(a)
    BY <1>3 DEF Kill
  <1>4. CASE OpenReflection(a)
    BY <1>4, MovedType DEF OpenReflection
  <1>5. CASE OpenReflectionFails(a)
    BY <1>5 DEF OpenReflectionFails
  <1>6. CASE ReflectionRecv(a)
    <2>1. PICK r \in Readings : got' = [got EXCEPT ![a].reflection = r]
      BY <1>6 DEF ReflectionRecv
    <2>2. got' \in [Instances -> [Streams -> Readings]]
      BY <2>1, ReadType
    <2> QED
      BY <1>6, <2>2, MovedType DEF ReflectionRecv
  <1>7. CASE HealthRecv(a)
    <2>1. PICK r \in Readings : got' = [got EXCEPT ![a].health = r]
      BY <1>7 DEF HealthRecv
    <2>2. got' \in [Instances -> [Streams -> Readings]]
      BY <2>1, ReadType
    <2> QED
      BY <1>7, <2>2, MovedType DEF HealthRecv
  <1>8. CASE PassReflectionError(a)
    <2>1. PICK p \in Places : at' = [at EXCEPT ![a].reflection = "done", ![a].main = p]
      BY <1>8 DEF PassReflectionError
    <2>4. at' \in [Instances -> [Goroutines -> Places]]
      BY <2>1, MovedType
    <2>2. services' \in [Instances -> ServiceLists \cup {<<>>}]
      BY <1>8 DEF PassReflectionError
    <2>3. exit' \in [Instances -> ExitStatus]
      BY <1>8 DEF PassReflectionError
    <2> QED
      BY <1>8, <2>2, <2>3, <2>4 DEF PassReflectionError
  <1>9. CASE PassHealthError(a)
    BY <1>9, MovedType DEF PassHealthError
  <1>10. CASE WatchService(a)
    BY <1>10, MovedType DEF WatchService
  <1>11. CASE WatchServiceFails(a)
    BY <1>11, MovedType DEF WatchServiceFails
  <1>12. CASE Quit(a)
    BY <1>12, MovedType DEF Quit
  <1>13. CASE RegisterService(a)
    BY <1>13, MovedType DEF RegisterService
  <1>14. CASE RegisterSucceeds(a)
    BY <1>14, MovedType DEF RegisterSucceeds
  <1>15. CASE RegisterFails(a)
    BY <1>15, MovedType DEF RegisterFails
  <1>16. CASE UnRegisterService(a)
    BY <1>16, MovedType DEF UnRegisterService
  <1>17. CASE UnRegisterReturns(a)
    BY <1>17, MovedType DEF UnRegisterReturns
  <1>18. CASE TargetDies(a)
    BY <1>18 DEF TargetDies
  <1>19. ASSUME NEW s \in Streams, RecvEOF(a, s)
        PROVE  AgentTypeOK'
    BY <1>19, MovedType DEF RecvEOF
  <1>20. ASSUME NEW s \in Streams, PassResponse(a, s)
        PROVE  AgentTypeOK'
    BY <1>20, MovedType DEF PassResponse
  <1>21. ASSUME NEW h \in Handlers, ServiceFails(a, h)
        PROVE  AgentTypeOK'
    BY <1>21 DEF ServiceFails
  <1> QED
    BY <1>2, <1>3, <1>4, <1>5, <1>6, <1>7, <1>8, <1>9, <1>10, <1>11, <1>12, <1>13, <1>14, <1>15, <1>16, <1>17, <1>18, <1>19, <1>20, <1>21 DEF AgentStep, MasterCall, TargetStep

\* In every behaviour of the agents all variables keep their types.
THEOREM AgentTypeCorrect == AgentSpec => []AgentTypeOK
  <1>1. AgentInit => AgentTypeOK
    BY DEF AgentInit, AgentTypeOK, NoGoroutine, Goroutines, Streams, Places, Readings,
           ExitStatus
  <1> QED
    BY <1>1, AgentTypeStep, PTL DEF AgentSpec

-----------------------------------------------------------------------------
(* The inductive invariant is preserved. *)

\* Before any agent was started.
LEMMA AgentInitInv == AgentInit => AgentIInv
  <1> SUFFICES ASSUME AgentInit PROVE AgentIInv
    OBVIOUS
  <1>1. AgentTypeOK
    BY DEF AgentInit, AgentTypeOK, NoGoroutine, Goroutines, Streams, Places, Readings,
           ExitStatus
  <1> QED
    BY <1>1 DEF AgentInit, AgentIInv, NoGoroutine, Goroutines, ReflectionInv, HealthInv,
                ProcessInv

\* A step of one agent leaves the others as they are.
LEMMA OneAgent ==
    ASSUME AgentTypeOK, NEW a \in Instances,
           Start(a) \/ AgentStep(a) \/ MasterCall(a) \/ TargetStep(a) \/ Kill(a),
           NEW b \in Instances, b # a
    PROVE  /\ at'[b] = at[b] /\ got'[b] = got[b] /\ services'[b] = services[b]
           /\ exit'[b] = exit[b] /\ target'[b] = target[b]
           /\ failing'[b] = failing[b] /\ gone'[b] = gone[b]
  <1> USE DEF AgentTypeOK, Exit
  <1>1. CASE Start(a) \/ Kill(a) \/ OpenReflection(a) \/ OpenReflectionFails(a)
    BY <1>1 DEF Start, Kill, OpenReflection, OpenReflectionFails
  <1>2. CASE ReflectionRecv(a) \/ HealthRecv(a)
    BY <1>2 DEF ReflectionRecv, HealthRecv
  <1>3. ASSUME NEW s \in Streams, RecvEOF(a, s) \/ PassResponse(a, s)
        PROVE  /\ at'[b] = at[b]
               /\ UNCHANGED <<got, services, exit, target, failing, gone>>
    BY <1>3 DEF RecvEOF, PassResponse
  <1>4. CASE PassReflectionError(a)
    BY <1>4 DEF PassReflectionError
  <1>5. CASE PassHealthError(a) \/ WatchService(a) \/ WatchServiceFails(a) \/ Quit(a)
    BY <1>5 DEF PassHealthError, WatchService, WatchServiceFails, Quit
  <1>6. CASE MasterCall(a)
    BY <1>6 DEF MasterCall, RegisterService, RegisterSucceeds, RegisterFails,
                UnRegisterService, UnRegisterReturns
  <1>7. CASE TargetStep(a)
    BY <1>7 DEF TargetStep, TargetDies, ServiceFails
  <1> QED
    BY <1>1, <1>2, <1>3, <1>4, <1>5, <1>6, <1>7 DEF AgentStep

\* What holds of an agent holds of it after its step.
LEMMA OwnStep ==
    ASSUME AgentIInv, NEW a \in Instances,
           Start(a) \/ AgentStep(a) \/ MasterCall(a) \/ TargetStep(a) \/ Kill(a)
    PROVE  (ReflectionInv(a) /\ HealthInv(a) /\ ProcessInv(a))'
  <1> USE DEF AgentIInv, AgentTypeOK, Goroutines, Streams, ExitStatus, Exit, Running,
              ReflectionInv, HealthInv, ProcessInv
  <1>1. CASE Start(a)
    BY <1>1 DEF Start
  <1>2. CASE Kill(a)
    BY <1>2 DEF Kill
  <1>3. CASE OpenReflection(a)
    BY <1>3 DEF OpenReflection
  <1>4. CASE OpenReflectionFails(a)
    BY <1>4 DEF OpenReflectionFails
  <1>5. CASE ReflectionRecv(a)
    BY <1>5 DEF ReflectionRecv
  <1>6. CASE HealthRecv(a)
    BY <1>6 DEF HealthRecv
  <1>7. CASE RecvEOF(a, "reflection") \/ PassResponse(a, "reflection")
    BY <1>7 DEF RecvEOF, PassResponse, ClientOf
  <1>8. CASE RecvEOF(a, "health") \/ PassResponse(a, "health")
    BY <1>8 DEF RecvEOF, PassResponse, ClientOf
  <1>9. CASE PassReflectionError(a)
    BY <1>9 DEF PassReflectionError
  <1>10. CASE PassHealthError(a)
    BY <1>10 DEF PassHealthError
  <1>11. CASE WatchService(a)
    BY <1>11 DEF WatchService
  <1>12. CASE WatchServiceFails(a)
    BY <1>12 DEF WatchServiceFails
  <1>13. CASE Quit(a)
    BY <1>13 DEF Quit
  <1>14. CASE RegisterService(a)
    BY <1>14 DEF RegisterService
  <1>15. CASE RegisterSucceeds(a)
    BY <1>15 DEF RegisterSucceeds
  <1>16. CASE RegisterFails(a)
    BY <1>16 DEF RegisterFails
  <1>17. CASE UnRegisterService(a)
    BY <1>17 DEF UnRegisterService
  <1>18. CASE UnRegisterReturns(a)
    BY <1>18 DEF UnRegisterReturns
  <1>19. CASE TargetStep(a)
    BY <1>19 DEF TargetStep, TargetDies, ServiceFails
  <1> QED
    BY <1>1, <1>2, <1>3, <1>4, <1>5, <1>6, <1>7, <1>8, <1>9, <1>10, <1>11, <1>12,
       <1>13, <1>14, <1>15, <1>16, <1>17, <1>18, <1>19
       DEF AgentStep, MasterCall

\* Every step of an agent preserves the invariant.
LEMMA AgentInvStep == AgentIInv /\ [AgentNext]_agentVars => AgentIInv'
  <1> SUFFICES ASSUME AgentIInv, [AgentNext]_agentVars
               PROVE  AgentIInv'
    OBVIOUS
  <1>1. AgentTypeOK'
    BY AgentTypeStep DEF AgentIInv
  <1>2. CASE UNCHANGED agentVars
    BY <1>2 DEF agentVars, AgentIInv, AgentTypeOK, ReflectionInv, HealthInv, ProcessInv
  <1>3. ASSUME NEW a \in Instances,
               Start(a) \/ AgentStep(a) \/ MasterCall(a) \/ TargetStep(a) \/ Kill(a),
               NEW b \in Instances
        PROVE  (ReflectionInv(b) /\ HealthInv(b) /\ ProcessInv(b))'
    <2>1. CASE b = a
      BY <1>3, <2>1, OwnStep
    <2>2. CASE b # a
      BY <1>3, <2>2, OneAgent DEF AgentIInv, ReflectionInv, HealthInv, ProcessInv
    <2> QED
      BY <2>1, <2>2
  <1> QED
    BY <1>1, <1>2, <1>3 DEF AgentNext, AgentIInv

\* The invariant holds in every behaviour of the agents.
THEOREM AgentInvariant == AgentSpec => []AgentIInv
  BY AgentInitInv, AgentInvStep, PTL DEF AgentSpec

-----------------------------------------------------------------------------
(* The safety property. *)

\* Whatever the streams do, and whatever fails, no receiver of an agent blocks
\* on a channel that nobody reads, and none outlives the method that reads it
\* (agent/adapter/client).
THEOREM ReceiversAreServed == AgentSpec => []SendersAreServed
  <1>1. AgentIInv => SendersAreServed
    BY DEF AgentIInv, SendersAreServed, ReflectionInv, HealthInv, Streams, ClientOf,
           AgentTypeOK, Goroutines, Places
  <1> QED
    BY <1>1, AgentInvariant, PTL
=============================================================================
