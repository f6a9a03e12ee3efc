--------------------------- MODULE DiscoveryProofs ---------------------------
(***************************************************************************)
(* Proofs about agents and master together, for any number of agents and   *)
(* calls, any lists of services, any failures of the agents, the master    *)
(* and the network.                                                        *)
(***************************************************************************)
EXTENDS Discovery, DiscoveryMasterRefinement, DiscoveryAgentProofs

-----------------------------------------------------------------------------
(***************************************************************************)
(* The inductive invariant.  Three facts about an agent decide what the    *)
(* registry may say of it; none of them is ever taken back.                *)
(***************************************************************************)

\* Its Register may have been sent.
Asked(a) == at[a].main \in {"registering", "quit", "done"}

\* It was told that its Register took effect.
Told(a) == at[a].watcher # "none"

\* Its Unregister may have been sent.
Leaving(a) == at[a].watcher \in {"unregistering", "sendQuit", "done"}

\* Call c of the master carries a request of agent a.
Carries(c, a, op) == pc[c] # "idle" /\ req[c].op = op /\ req[c].ServiceId = a

\* Every call is one that some agent made.  A Register that is still in the
\* master was not answered to the agent; an Unregister comes after the answer.
OwnerInv(c) ==
    pc[c] # "idle" => \E a \in Instances :
        \/ req[c] = RegisterRequest(a) /\ Asked(a) /\ ~Told(a)
        \/ req[c] = UnregisterRequest(a) /\ Leaving(a)

\* An agent registers at most once, and waits for no call but its own.
ClientInv(a) ==
    /\ \A c, d \in Calls : Carries(c, a, "Register") /\ Carries(d, a, "Register") => c = d
    /\ slot[a] # NoCall =>
          \/ Carries(slot[a], a, "Register") /\ at[a].main = "registering"
          \/ Carries(slot[a], a, "Unregister") /\ at[a].watcher = "unregistering"

\* A row says what its agent sent.
RowInv(i) ==
    /\ Asked(table[i].InstanceId)
    /\ table[i].Service = UrlOf[table[i].InstanceId]
    /\ table[i].Handler \in ElementsOf(services[table[i].InstanceId])

\* No two rows are of the same agent and handler.
RowsDiffer ==
    \A i, j \in 1 .. Len(table) :
        table[i].InstanceId = table[j].InstanceId /\ table[i].Handler = table[j].Handler
            => i = j

\* The rows of an agent: all or none, added by the one Register that has then
\* nothing more to do, alive until an Unregister is sent, and all of them there
\* before it is.  Full result sets: they die together, and the answer says so.
ListingInv(a) ==
    /\ OwnRows(a) # {} =>
          /\ \A h \in ElementsOf(services[a]) : \E i \in OwnRows(a) : table[i].Handler = h
          /\ \A c \in Calls : Carries(c, a, "Register") => pc[c] = "returned"
    /\ Told(a) => OwnRows(a) # {}
    /\ ~Leaving(a) => \A i \in OwnRows(a) : table[i].IsAlive = 1
    /\ \A c \in Calls : Carries(c, a, "Unregister") => OwnRows(a) \subseteq 1 .. Len(seen[c])
    /\ acked[a] => Leaving(a)
    /\ "rows" \notin Faults =>
          /\ \A i, j \in OwnRows(a) : table[i].IsAlive = table[j].IsAlive
          /\ acked[a] => \A i \in OwnRows(a) : table[i].IsAlive = 0

\* The two programs' own invariants, and the types of what joins them.
Typed ==
    /\ IInv
    /\ AgentIInv
    /\ slot \in [Instances -> Calls \cup {NoCall}]
    /\ acked \in [Instances -> BOOLEAN]

SystemIInv ==
    /\ Typed
    /\ \A c \in Calls : OwnerInv(c)
    /\ \A a \in Instances : ClientInv(a) /\ ListingInv(a)
    /\ \A i \in 1 .. Len(table) : RowInv(i)
    /\ RowsDiffer

-----------------------------------------------------------------------------
(* The whole is made of steps of the master and steps of the agents. *)

\* What an agent sends is a request that the master knows.
LEMMA SentRequests ==
    ASSUME AgentIInv, NEW a \in Instances
    PROVE  /\ UnregisterRequest(a) \in Requests
           /\ at[a].main = "register" => RegisterRequest(a) \in Requests
  <1>1. at[a].main = "register" => services[a] \in ServiceLists
    BY DEF AgentIInv, AgentTypeOK, ProcessInv
  <1> QED
    BY <1>1, ListsAreSentAssumption, UrlOfAssumption
       DEF UnregisterRequest, RegisterRequest, Requests, UnregisterRequests, RegisterRequests

\* Each step is one of the agents' and one of the master's, or nothing for them.
LEMMA Projections ==
    ASSUME AgentIInv, slot \in [Instances -> Calls \cup {NoCall}], [SystemNext]_systemVars
    PROVE  [Next]_vars /\ [AgentNext]_agentVars
  <1>1. CASE UNCHANGED systemVars
    BY <1>1 DEF systemVars, masterVars
  <1>2. CASE MasterAlone
    BY <1>2 DEF MasterAlone, Next
  <1>3. ASSUME NEW a \in Instances,
               AgentAlone(a) \/ ConnectionLost(a) \/ AgentKilled(a)
        PROVE  [Next]_vars /\ [AgentNext]_agentVars
    BY <1>3 DEF AgentAlone, ConnectionLost, AgentKilled, AgentNext, MasterCall, masterVars
  <1>4. ASSUME NEW a \in Instances, NEW r \in Requests, Send(a, r)
        PROVE  [Next]_vars
    BY <1>4 DEF Send, masterVars, Next, Arrive
  <1>5. ASSUME NEW a \in Instances, AgentRegisters(a)
        PROVE  [Next]_vars /\ [AgentNext]_agentVars
    <2>1. at[a].main = "register" /\ AgentNext
      BY <1>5 DEF AgentRegisters, RegisterService, AgentNext, MasterCall
    <2> QED
      BY <1>4, <1>5, <2>1, SentRequests DEF AgentRegisters
  <1>6. ASSUME NEW a \in Instances, AgentUnregisters(a)
        PROVE  [Next]_vars /\ [AgentNext]_agentVars
    <2>1. AgentNext
      BY <1>6 DEF AgentUnregisters, AgentNext, MasterCall
    <2> QED
      BY <1>4, <1>6, <2>1, SentRequests DEF AgentUnregisters
  <1>7. ASSUME NEW a \in Instances, RegisterAnswered(a) \/ UnregisterAnswered(a)
        PROVE  [Next]_vars /\ [AgentNext]_agentVars
    <2>1. slot[a] \in Calls /\ Return(slot[a])
      BY <1>7 DEF RegisterAnswered, UnregisterAnswered, Receive
    <2> QED
      BY <1>7, <2>1 DEF RegisterAnswered, UnregisterAnswered, AgentNext, MasterCall, Next
  <1> QED
    BY <1>1, <1>2, <1>3, <1>5, <1>6, <1>7 DEF SystemNext, AgentCalls

\* What an agent's step does to the three facts.  Only the answer OK to its
\* Register tells it, and its services change before it asks.
LEMMA AgentFacts ==
    ASSUME AgentIInv, NEW a \in Instances,
           Start(a) \/ AgentStep(a) \/ MasterCall(a) \/ TargetStep(a) \/ Kill(a),
           NEW b \in Instances
    PROVE  /\ Asked(b) => Asked(b)' /\ services'[b] = services[b]
           /\ Leaving(b) => Leaving(b)'
           /\ Told(b)' => Told(b) \/ (b = a /\ RegisterSucceeds(a))
  <1>1. CASE b # a
    BY <1>1, OneAgent DEF AgentIInv, Asked, Leaving, Told
  <1>2. CASE b = a
    <2> USE <1>2 DEF AgentIInv, AgentTypeOK, Goroutines, Streams, Asked, Leaving, Told
    <2>1. CASE Start(a)
      BY <2>1 DEF Start, ProcessInv
    <2>2. CASE Kill(a) \/ OpenReflectionFails(a) \/ TargetStep(a)
      BY <2>2 DEF Kill, OpenReflectionFails, TargetStep, TargetDies, ServiceFails
    <2>3. CASE OpenReflection(a)
      BY <2>3 DEF OpenReflection
    <2>4. CASE ReflectionRecv(a) \/ HealthRecv(a)
      BY <2>4 DEF ReflectionRecv, HealthRecv
    <2>5. ASSUME NEW s \in Streams, RecvEOF(a, s)
          PROVE  UNCHANGED services /\ at'[a].main = at[a].main /\ at'[a].watcher = at[a].watcher
      BY <2>5 DEF RecvEOF
    <2>6. CASE PassResponse(a, "reflection")
      BY <2>6 DEF PassResponse, ClientOf
    <2>7. CASE PassResponse(a, "health")
      BY <2>7 DEF PassResponse, ClientOf
    <2>8. CASE PassReflectionError(a)
      BY <2>8 DEF PassReflectionError
    <2>9. CASE PassHealthError(a)
      BY <2>9 DEF PassHealthError
    <2>10. CASE WatchService(a)
      BY <2>10 DEF WatchService
    <2>11. CASE WatchServiceFails(a)
      BY <2>11 DEF WatchServiceFails
    <2>12. CASE Quit(a)
      BY <2>12 DEF Quit
    <2>13. CASE RegisterService(a)
      BY <2>13 DEF RegisterService
    <2>14. CASE RegisterSucceeds(a)
      BY <2>14 DEF RegisterSucceeds
    <2>15. CASE RegisterFails(a)
      BY <2>15 DEF RegisterFails
    <2>16. CASE UnRegisterService(a)
      BY <2>16 DEF UnRegisterService
    <2>17. CASE UnRegisterReturns(a)
      BY <2>17 DEF UnRegisterReturns
    <2> QED
      BY <2>1, <2>2, <2>3, <2>4, <2>5, <2>6, <2>7, <2>8, <2>9, <2>10, <2>11, <2>12,
         <2>13, <2>14, <2>15, <2>16, <2>17 DEF AgentStep, MasterCall
  <1> QED
    BY <1>1, <1>2

\* While an agent waits for the master, its other steps do not move it.
LEMMA AgentWaits ==
    ASSUME AgentIInv, NEW a \in Instances,
           Start(a) \/ AgentStep(a) \/ TargetStep(a) \/ Kill(a), NEW b \in Instances
    PROVE  /\ at[b].main = "registering" => at'[b].main = "registering"
           /\ at[b].watcher = "unregistering" => at'[b].watcher = "unregistering"
  <1>1. CASE b # a
    BY <1>1, OneAgent DEF AgentIInv
  <1>2. CASE b = a
    <2> USE <1>2 DEF AgentIInv, AgentTypeOK, Goroutines, Streams
    <2>1. CASE Start(a)
      BY <2>1 DEF Start, ProcessInv
    <2>2. CASE Kill(a) \/ OpenReflectionFails(a) \/ TargetStep(a)
      BY <2>2 DEF Kill, OpenReflectionFails, TargetStep, TargetDies, ServiceFails
    <2>3. CASE OpenReflection(a)
      BY <2>3 DEF OpenReflection
    <2>4. CASE ReflectionRecv(a) \/ HealthRecv(a)
      BY <2>4 DEF ReflectionRecv, HealthRecv
    <2>5. ASSUME NEW s \in Streams, RecvEOF(a, s)
          PROVE  at'[a].main = at[a].main /\ at'[a].watcher = at[a].watcher
      BY <2>5 DEF RecvEOF
    <2>6. CASE PassResponse(a, "reflection")
      BY <2>6 DEF PassResponse, ClientOf
    <2>7. CASE PassResponse(a, "health")
      BY <2>7 DEF PassResponse, ClientOf
    <2>8. CASE PassReflectionError(a)
      BY <2>8 DEF PassReflectionError
    <2>9. CASE PassHealthError(a)
      BY <2>9 DEF PassHealthError
    <2>10. CASE WatchService(a)
      BY <2>10 DEF WatchService
    <2>11. CASE WatchServiceFails(a)
      BY <2>11 DEF WatchServiceFails
    <2>12. CASE Quit(a)
      BY <2>12 DEF Quit
    <2> QED
      BY <2>1, <2>2, <2>3, <2>4, <2>5, <2>6, <2>7, <2>8, <2>9, <2>10, <2>11, <2>12
         DEF AgentStep
  <1> QED
    BY <1>1, <1>2

-----------------------------------------------------------------------------
(***************************************************************************)
(* Steps that neither bring a call to the master nor commit one: calls go  *)
(* on or leave, agents move, learn and give up.                            *)
(***************************************************************************)
Calm ==
    /\ table' = table
    /\ \A c \in Calls : pc'[c] # "idle" =>
          /\ pc[c] # "idle" /\ req'[c] = req[c] /\ seen'[c] = seen[c]
          /\ pc[c] = "returned" => pc'[c] = "returned"
    /\ \A a \in Instances :
          /\ Asked(a) => Asked(a)' /\ services'[a] = services[a]
          /\ Leaving(a) => Leaving(a)'
          /\ Told(a)' => Told(a) \/ (OwnRows(a) # {} /\ \A c \in Calls : ~Carries(c, a, "Register")')
          /\ acked'[a] => \/ acked[a]
                          \/ /\ Leaving(a)'
                             /\ "rows" \notin Faults => \A i \in OwnRows(a) : table[i].IsAlive = 0
          /\ slot'[a] # NoCall =>
                /\ slot'[a] = slot[a] /\ pc'[slot[a]] # "idle"
                /\ at[a].main = "registering" => at'[a].main = "registering"
                /\ at[a].watcher = "unregistering" => at'[a].watcher = "unregistering"

\* The rows of an agent depend on the table alone.
LEMMA SameRows ==
    ASSUME table' = table, NEW a
    PROVE  OwnRows(a)' = OwnRows(a)
  BY DEF OwnRows

\* The rows are in the table, and a row belongs to an agent.
LEMMA RowsHaveAgents ==
    ASSUME IInv, NEW i \in 1 .. Len(table)
    PROVE  table[i] \in Rows /\ table[i].InstanceId \in Instances
  <1>1. table[i] \in Rows
    BY ElementOfSeq DEF IInv, TypeOK
  <1> QED
    BY <1>1 DEF Rows

\* Such a step keeps the invariant.
LEMMA CalmStep ==
    ASSUME SystemIInv, Typed', Calm
    PROVE  SystemIInv'
  <1> USE DEF SystemIInv, Typed
  <1>1. ASSUME NEW c \in Calls
        PROVE  OwnerInv(c)'
    <2> SUFFICES ASSUME pc'[c] # "idle"
                 PROVE  \E a \in Instances :
                           \/ req'[c] = RegisterRequest(a)' /\ Asked(a)' /\ ~Told(a)'
                           \/ req'[c] = UnregisterRequest(a)' /\ Leaving(a)'
      BY DEF OwnerInv
    <2>1. pc[c] # "idle" /\ req'[c] = req[c]
      BY DEF Calm
    <2>2. PICK a \in Instances :
             \/ req[c] = RegisterRequest(a) /\ Asked(a) /\ ~Told(a)
             \/ req[c] = UnregisterRequest(a) /\ Leaving(a)
      BY <2>1 DEF OwnerInv
    <2>3. CASE req[c] = RegisterRequest(a) /\ Asked(a) /\ ~Told(a)
      <3>1. Asked(a)' /\ services'[a] = services[a]
        BY <2>3 DEF Calm
      <3>2. req'[c] = RegisterRequest(a)'
        BY <2>1, <2>3, <3>1 DEF RegisterRequest
      <3>3. Carries(c, a, "Register")'
        BY <3>2 DEF Carries, RegisterRequest
      <3>4. ~Told(a)'
        BY <2>3, <3>3 DEF Calm
      <3> QED
        BY <3>1, <3>2, <3>4
    <2>4. CASE req[c] = UnregisterRequest(a) /\ Leaving(a)
      BY <2>1, <2>4 DEF Calm, UnregisterRequest
    <2> QED
      BY <2>2, <2>3, <2>4
  <1>2. ASSUME NEW a, NEW op, NEW c \in Calls, Carries(c, a, op)'
        PROVE  Carries(c, a, op) /\ seen'[c] = seen[c]
               /\ (pc[c] = "returned" => pc'[c] = "returned")
    BY <1>2 DEF Carries, Calm
  <1>3. ASSUME NEW a \in Instances
        PROVE  ClientInv(a)'
    <2>1. ASSUME NEW c \in Calls, NEW d \in Calls,
                 Carries(c, a, "Register")', Carries(d, a, "Register")'
          PROVE  c = d
      BY <1>2, <2>1 DEF ClientInv
    <2>2. ASSUME slot'[a] # NoCall
          PROVE  (\/ Carries(slot[a], a, "Register") /\ at[a].main = "registering"
                  \/ Carries(slot[a], a, "Unregister") /\ at[a].watcher = "unregistering")'
      <3>1. /\ slot'[a] = slot[a] /\ slot[a] \in Calls /\ pc'[slot[a]] # "idle"
            /\ at[a].main = "registering" => at'[a].main = "registering"
            /\ at[a].watcher = "unregistering" => at'[a].watcher = "unregistering"
        BY <2>2 DEF Calm
      <3>2. req'[slot[a]] = req[slot[a]]
        BY <3>1 DEF Calm
      <3> QED
        BY <2>2, <3>1, <3>2 DEF ClientInv, Carries
    <2> QED
      BY <2>1, <2>2 DEF ClientInv
  <1>4. table' = table
    BY DEF Calm
  <1>5. ASSUME NEW i \in 1 .. Len(table)
        PROVE  RowInv(i)'
    <2>1. table[i].InstanceId \in Instances
      BY RowsHaveAgents
    <2> QED
      BY <1>4, <2>1 DEF Calm, RowInv
  <1>6. ASSUME NEW a \in Instances
        PROVE  ListingInv(a)'
    <2>1. OwnRows(a)' = OwnRows(a) /\ ListingInv(a)
      BY <1>4, SameRows
    <2>2. OwnRows(a) # {} => services'[a] = services[a]
      BY DEF OwnRows, Calm, RowInv
    <2>3. OwnRows(a) # {} =>
             /\ \A h \in ElementsOf(services'[a]) : \E i \in OwnRows(a) : table[i].Handler = h
             /\ \A c \in Calls : Carries(c, a, "Register")' => pc'[c] = "returned"
      BY <1>2, <2>1, <2>2 DEF ListingInv
    <2>4. Told(a)' => OwnRows(a) # {}
      BY <2>1 DEF ListingInv, Calm
    <2>5. ~Leaving(a)' => \A i \in OwnRows(a) : table[i].IsAlive = 1
      BY <2>1 DEF ListingInv, Calm
    <2>6. \A c \in Calls : Carries(c, a, "Unregister")' => OwnRows(a) \subseteq 1 .. Len(seen'[c])
      BY <1>2, <2>1 DEF ListingInv
    <2>7. acked'[a] => Leaving(a)'
      BY <2>1 DEF ListingInv, Calm
    <2>8. "rows" \notin Faults =>
             /\ \A i, j \in OwnRows(a) : table[i].IsAlive = table[j].IsAlive
             /\ acked'[a] => \A i \in OwnRows(a) : table[i].IsAlive = 0
      BY <2>1 DEF ListingInv, Calm
    <2> QED
      BY <1>4, <2>1, <2>3, <2>4, <2>5, <2>6, <2>7, <2>8 DEF ListingInv
  <1>7. RowsDiffer'
    BY <1>4 DEF RowsDiffer
  <1> QED
    BY <1>1, <1>3, <1>4, <1>5, <1>6, <1>7 DEF Typed

\* In the master a call goes on without a COMMIT, or the process ends or starts.
LEMMA MasterCalm ==
    ASSUME Typed, NEW c \in Calls, (Handle(c) /\ ~Commit(c)) \/ Crash \/ Restart
    PROVE  /\ UNCHANGED <<table, req, seen>>
           /\ \A d \in Calls : /\ pc'[d] = "idle" <=> pc[d] = "idle"
                               /\ pc[d] = "returned" => pc'[d] = "returned"
  <1> USE DEF Typed, IInv, TypeOK, Goto, Finish
  <1>1. CASE RegisterExecute(c) \/ UnregisterExecute(c)
    BY <1>1 DEF RegisterExecute, UnregisterExecute
  <1>2. CASE GetAliveServicesExecute(c) \/ QueryFails(c)
    BY <1>2 DEF GetAliveServicesExecute, QueryFails
  <1>3. CASE BeginTx(c)
    BY <1>3 DEF BeginTx
  <1>4. CASE ProcessDies
    BY <1>4 DEF ProcessDies
  <1>5. CASE ExecContext(c)
    BY <1>5 DEF ExecContext
  <1>6. CASE ExecFails(c) \/ CommitFails(c)
    BY <1>6 DEF ExecFails, CommitFails, RollbackAndFail
  <1>7. CASE Restart
    BY <1>7 DEF Restart
  <1> QED
    BY <1>1, <1>2, <1>3, <1>4, <1>5, <1>6, <1>7 DEF Handle, BeginFails, Crash

\* A call leaves the master.
LEMMA ReturnCalm ==
    ASSUME Typed, NEW c \in Calls, Return(c)
    PROVE  /\ table' = table /\ pc'[c] = "idle"
           /\ \A d \in Calls : d # c =>
                 pc'[d] = pc[d] /\ req'[d] = req[d] /\ seen'[d] = seen[d]
  BY DEF Return, Goto, Typed, IInv, TypeOK

\* The master does that while the agents stand still.
LEMMA MasterAloneCalm ==
    ASSUME SystemIInv, MasterAlone, \A c \in Calls : ~Commit(c)
    PROVE  Calm
  <1> USE DEF SystemIInv
  <1>1. /\ at' = at /\ services' = services /\ slot' = slot /\ acked' = acked
    BY DEF MasterAlone, agentVars
  <1>2. ASSUME NEW c \in Calls, Orphan(c), Return(c)
        PROVE  Calm
    <2>1. /\ table' = table /\ pc'[c] = "idle"
          /\ \A d \in Calls : d # c =>
                pc'[d] = pc[d] /\ req'[d] = req[d] /\ seen'[d] = seen[d]
      BY <1>2, ReturnCalm
    <2>2. ASSUME NEW a \in Instances, slot[a] # NoCall
          PROVE  pc'[slot[a]] # "idle"
      <3>1. slot[a] # c /\ slot[a] \in Calls /\ pc[slot[a]] # "idle"
        BY <1>2, <2>2 DEF Orphan, Typed, ClientInv, Carries
      <3> QED
        BY <2>1, <3>1
    <2> QED
      BY <1>1, <2>1, <2>2 DEF Calm, Asked, Told, Leaving
  <1>3. CASE (\E c \in Calls : Handle(c)) \/ Crash \/ Restart
    <2>1. Calls # {} =>
             /\ UNCHANGED <<table, req, seen>>
             /\ \A d \in Calls : /\ pc'[d] = "idle" <=> pc[d] = "idle"
                                 /\ pc[d] = "returned" => pc'[d] = "returned"
      BY <1>3, MasterCalm
    <2>2. table' = table
      BY <1>3, <2>1 DEF Crash, Restart, ProcessDies
    <2>3. ASSUME NEW a \in Instances, slot[a] # NoCall
          PROVE  pc'[slot[a]] # "idle"
      BY <2>1, <2>3 DEF Typed, ClientInv, Carries
    <2> QED
      BY <1>1, <2>1, <2>2, <2>3 DEF Calm, Asked, Told, Leaving
  <1> QED
    BY <1>2, <1>3 DEF MasterAlone

\* An agent that does not wait for the master has no slot.
LEMMA NoSlot ==
    ASSUME SystemIInv, NEW a \in Instances,
           at[a].main # "registering", at[a].watcher # "unregistering"
    PROVE  slot[a] = NoCall
  BY DEF SystemIInv, ClientInv

\* An agent moves by itself, is killed, gives a call up or loses its request.
LEMMA AgentAloneCalm ==
    ASSUME SystemIInv, NEW a \in Instances,
           \/ AgentAlone(a) \/ ConnectionLost(a) \/ AgentKilled(a)
           \/ (RegisterService(a) \/ UnRegisterService(a)) /\ UNCHANGED <<masterVars, slot, acked>>
    PROVE  Calm
  <1> USE DEF SystemIInv, Typed
  <1>1. UNCHANGED <<table, pc, req, seen, acked>>
    BY DEF AgentAlone, ConnectionLost, AgentKilled, masterVars, vars
  <1>2. \A op : \A c \in Calls, b \in Instances :
           Carries(c, b, op)' <=> Carries(c, b, op)
    BY <1>1 DEF Carries
  <1>3. Start(a) \/ AgentStep(a) \/ MasterCall(a) \/ TargetStep(a) \/ Kill(a)
    BY DEF AgentAlone, ConnectionLost, AgentKilled, MasterCall
  <1>4. ~RegisterSucceeds(a)
    <2> SUFFICES ASSUME RegisterSucceeds(a)
                 PROVE  FALSE
      OBVIOUS
    <2>1. at[a].main = "registering" /\ at'[a].main = "quit"
      BY DEF RegisterSucceeds, AgentIInv, AgentTypeOK, Goroutines
    <2>2. CASE Start(a) \/ AgentStep(a) \/ TargetStep(a) \/ Kill(a)
      BY <2>1, <2>2, AgentWaits
    <2>3. CASE RegisterFails(a)
      BY <2>1, <2>3 DEF RegisterFails, AgentIInv, AgentTypeOK, Goroutines
    <2>4. CASE RegisterService(a) \/ UnRegisterService(a) \/ UnRegisterReturns(a)
      BY <2>1, <2>4 DEF RegisterService, UnRegisterService, UnRegisterReturns, AgentIInv,
                        HealthInv
    <2> QED
      BY <2>2, <2>3, <2>4 DEF AgentAlone, ConnectionLost, AgentKilled
  <1>5. ASSUME NEW b \in Instances
        PROVE  /\ Asked(b) => Asked(b)' /\ services'[b] = services[b]
               /\ Leaving(b) => Leaving(b)'
               /\ Told(b)' => Told(b)
    BY <1>3, <1>4, AgentFacts
  <1>6. ASSUME NEW b \in Instances, slot'[b] # NoCall
        PROVE  /\ slot'[b] = slot[b] /\ pc'[slot[b]] # "idle"
               /\ at[b].main = "registering" => at'[b].main = "registering"
               /\ at[b].watcher = "unregistering" => at'[b].watcher = "unregistering"
    <2>1. CASE AgentAlone(a)
      <3>1. slot'[b] = slot[b]
        BY <2>1 DEF AgentAlone
      <3> QED
        BY <1>1, <1>6, <2>1, <3>1, AgentWaits DEF AgentAlone, ClientInv, Carries
    <2>2. CASE ConnectionLost(a) \/ AgentKilled(a)
      <3>1. b # a /\ slot'[b] = slot[b]
        BY <1>6, <2>2 DEF ConnectionLost, AgentKilled
      <3>2. at'[b] = at[b]
        BY <1>3, <3>1, OneAgent DEF AgentIInv
      <3> QED
        BY <1>1, <1>6, <3>1, <3>2 DEF ClientInv, Carries
    <2>3. CASE (RegisterService(a) \/ UnRegisterService(a)) /\ UNCHANGED <<masterVars, slot, acked>>
      <3>1. slot[a] = NoCall
        BY <2>3, NoSlot DEF RegisterService, UnRegisterService, AgentIInv, HealthInv
      <3>2. b # a /\ slot'[b] = slot[b]
        BY <1>6, <2>3, <3>1
      <3>3. at'[b] = at[b]
        BY <1>3, <3>2, OneAgent DEF AgentIInv
      <3> QED
        BY <1>1, <1>6, <3>2, <3>3 DEF ClientInv, Carries
    <2> QED
      BY <2>1, <2>2, <2>3
  <1> QED
    BY <1>1, <1>5, <1>6 DEF Calm

\* Whose call it is, and what it carries.
LEMMA OwnCall ==
    ASSUME SystemIInv, NEW c \in Calls, NEW a \in Instances
    PROVE  /\ Carries(c, a, "Register") =>
                 req[c] = RegisterRequest(a) /\ Asked(a) /\ ~Told(a)
           /\ Carries(c, a, "Unregister") => req[c] = UnregisterRequest(a) /\ Leaving(a)
  <1> SUFFICES ASSUME pc[c] # "idle", req[c].ServiceId = a
               PROVE  /\ req[c].op = "Register" =>
                            req[c] = RegisterRequest(a) /\ Asked(a) /\ ~Told(a)
                      /\ req[c].op = "Unregister" =>
                            req[c] = UnregisterRequest(a) /\ Leaving(a)
    BY DEF Carries
  <1>1. PICK b \in Instances :
           \/ req[c] = RegisterRequest(b) /\ Asked(b) /\ ~Told(b)
           \/ req[c] = UnregisterRequest(b) /\ Leaving(b)
    BY DEF SystemIInv, OwnerInv
  <1>2. /\ RegisterRequest(b).op = "Register" /\ RegisterRequest(b).ServiceId = b
        /\ UnregisterRequest(b).op = "Unregister" /\ UnregisterRequest(b).ServiceId = b
    BY DEF RegisterRequest, UnregisterRequest
  <1> QED
    BY <1>1, <1>2

\* The answer OK to a Register finds all the agent's rows in the registry.
LEMMA RegisterOKCalm ==
    ASSUME SystemIInv, NEW a \in Instances, Receive(a, "OK"), RegisterSucceeds(a),
           UNCHANGED acked
    PROVE  Calm
  <1> DEFINE c == slot[a]
  <1> USE DEF SystemIInv, Typed
  <1>1. at[a].main = "registering" /\ at[a].watcher = "none"
    BY DEF RegisterSucceeds, AgentIInv, HealthInv
  <1>2. c \in Calls /\ Carries(c, a, "Register") /\ Acked(c, "Register") /\ Return(c)
    BY <1>1 DEF Receive, ClientInv, Acked, Carries, Return
  <1>3. req[c] = RegisterRequest(a)
    BY <1>2, OwnCall
  <1>4. PICK h : h \in ElementsOf(services[a])
    <2>1. services[a] \in Seq(Handlers) /\ services[a] # <<>>
      BY <1>1, ServiceListsAssumption DEF AgentIInv, AgentTypeOK, ProcessInv
    <2>2. services[a][1] \in ElementsOf(services[a])
      BY <2>1 DEF ElementsOf
    <2> QED
      BY <2>2
  <1>5. OwnRows(a) # {}
    <2>1. StoredFor(c, h)
      BY <1>2, <1>3, <1>4 DEF IInv, CallInv, AnswerInv, RegisterRequest
    <2>2. PICK i \in Len(seen[c]) + 1 .. Len(table) : table[i].InstanceId = a
      BY <1>3, <2>1 DEF StoredFor, RegisterRequest
    <2>3. i \in 1 .. Len(table)
      BY <1>2, LenProperties DEF IInv, TypeOK
    <2> QED
      BY <2>2, <2>3 DEF OwnRows
  <1> HIDE DEF c
  <1>6. /\ table' = table /\ pc'[c] = "idle"
        /\ \A d \in Calls : d # c =>
              pc'[d] = pc[d] /\ req'[d] = req[d] /\ seen'[d] = seen[d]
    BY <1>2, ReturnCalm
  <1>7. ASSUME NEW d \in Calls
        PROVE  ~Carries(d, a, "Register")'
    BY <1>2, <1>6 DEF Carries, ClientInv
  <1>8. ASSUME NEW b \in Instances
        PROVE  /\ Asked(b) => Asked(b)' /\ services'[b] = services[b]
               /\ Leaving(b) => Leaving(b)'
               /\ Told(b)' => Told(b) \/ b = a
    BY AgentFacts DEF MasterCall
  <1>9. ASSUME NEW b \in Instances, slot'[b] # NoCall
        PROVE  /\ slot'[b] = slot[b] /\ pc'[slot[b]] # "idle"
               /\ at'[b] = at[b]
    <2>1. b # a /\ slot'[b] = slot[b]
      BY <1>9 DEF Receive
    <2>2. slot[b] # c
      BY <1>2, <1>9, <2>1 DEF ClientInv, Carries
    <2>3. pc'[slot[b]] # "idle"
      BY <1>6, <1>9, <2>1, <2>2 DEF ClientInv, Carries
    <2> QED
      BY <2>1, <2>3, OneAgent DEF MasterCall, AgentIInv
  <1> QED
    BY <1>5, <1>6, <1>7, <1>8, <1>9 DEF Calm

\* The answer to an Unregister, if it is OK, finds all the agent's rows dead; a
\* call that failed tells the agent nothing.
LEMMA AnsweredCalm ==
    ASSUME SystemIInv, NEW a \in Instances,
           \/ UnregisterAnswered(a)
           \/ Receive(a, "ERR") /\ RegisterFails(a) /\ UNCHANGED acked
    PROVE  Calm
  <1> DEFINE c == slot[a]
  <1> USE DEF SystemIInv, Typed
  <1>1. c \in Calls /\ c # NoCall /\ Return(c) /\ slot' = [slot EXCEPT ![a] = NoCall]
    BY DEF UnregisterAnswered, Receive
  <1>2. UnRegisterReturns(a) \/ RegisterFails(a)
    BY DEF UnregisterAnswered
  <1>3. ASSUME acked'[a], ~acked[a]
        PROVE  /\ Leaving(a)'
               /\ "rows" \notin Faults => \A i \in OwnRows(a) : table[i].IsAlive = 0
    <2>1. UnRegisterReturns(a) /\ reply[c].status = "OK" /\ pc[c] = "returned"
      BY <1>3 DEF UnregisterAnswered, Receive, Return
    <2>2. Leaving(a)'
      BY <2>1 DEF UnRegisterReturns, AgentIInv, AgentTypeOK, Goroutines, Leaving
    <2>3. at[a].main = "quit" /\ at[a].watcher = "unregistering"
      BY <2>1 DEF UnRegisterReturns, AgentIInv, HealthInv
    <2>4. Carries(c, a, "Unregister") /\ Acked(c, "Unregister")
      BY <1>1, <2>1, <2>3 DEF ClientInv, Carries, Acked
    <2>5. OwnRows(a) \subseteq 1 .. Len(seen[c]) /\ req[c].ServiceId = a
      BY <1>1, <2>4 DEF ListingInv, Carries
    <2>6. "rows" \notin Faults => \A i \in OwnRows(a) : table[i].IsAlive = 0
      BY <1>1, <2>4, <2>5 DEF IInv, CallInv, AnswerInv, OwnRows
    <2> QED
      BY <2>2, <2>6
  <1>4. \A b \in Instances : b # a => acked'[b] = acked[b]
    BY DEF UnregisterAnswered
  <1>5. Carries(c, a, "Register") \/ Carries(c, a, "Unregister")
    BY <1>1 DEF ClientInv
  <1> HIDE DEF c
  <1>6. /\ table' = table /\ pc'[c] = "idle"
        /\ \A d \in Calls : d # c =>
              pc'[d] = pc[d] /\ req'[d] = req[d] /\ seen'[d] = seen[d]
    BY <1>1, ReturnCalm
  <1>7. ~RegisterSucceeds(a)
    BY <1>2 DEF RegisterSucceeds, RegisterFails, UnRegisterReturns, AgentIInv, AgentTypeOK,
                Goroutines, HealthInv
  <1>8. ASSUME NEW b \in Instances
        PROVE  /\ Asked(b) => Asked(b)' /\ services'[b] = services[b]
               /\ Leaving(b) => Leaving(b)'
               /\ Told(b)' => Told(b)
    BY <1>2, <1>7, AgentFacts DEF MasterCall
  <1>9. ASSUME NEW b \in Instances, slot'[b] # NoCall
        PROVE  /\ slot'[b] = slot[b] /\ pc'[slot[b]] # "idle"
               /\ at'[b] = at[b]
    <2>1. b # a /\ slot'[b] = slot[b]
      BY <1>1, <1>9
    <2>2. slot[b] # c
      BY <1>5, <1>9, <2>1 DEF ClientInv, Carries
    <2>3. pc'[slot[b]] # "idle"
      BY <1>6, <1>9, <2>1, <2>2 DEF ClientInv, Carries
    <2> QED
      BY <1>2, <2>1, <2>3, OneAgent DEF MasterCall, AgentIInv
  <1> QED
    BY <1>3, <1>4, <1>6, <1>8, <1>9 DEF Calm

-----------------------------------------------------------------------------
(* A call of an agent reaches the master, or is refused. *)
LEMMA ArrivalStep ==
    ASSUME SystemIInv, Typed', NEW a \in Instances, NEW c \in Calls, NEW r, Orphan(c),
           Dispatch(c, r) \/ Refuse(c, r), slot' = [slot EXCEPT ![a] = c], acked' = acked,
           \/ RegisterService(a) /\ r = RegisterRequest(a)
           \/ UnRegisterService(a) /\ r = UnregisterRequest(a)
    PROVE  SystemIInv'
  <1> USE DEF SystemIInv, Typed
  <1>1. /\ pc[c] = "idle" /\ pc'[c] # "idle" /\ req'[c] = r /\ seen'[c] = table
        /\ table' = table
        /\ \A d \in Calls : d # c =>
              pc'[d] = pc[d] /\ req'[d] = req[d] /\ seen'[d] = seen[d]
    BY DEF Dispatch, Refuse, Goto, Finish, IInv, TypeOK
  <1>2. /\ RegisterRequest(a).op = "Register" /\ RegisterRequest(a).ServiceId = a
        /\ UnregisterRequest(a).op = "Unregister" /\ UnregisterRequest(a).ServiceId = a
        /\ r.ServiceId = a
    BY DEF RegisterRequest, UnregisterRequest
  <1>3. services' = services /\ r = (IF r.op = "Register" THEN RegisterRequest(a)' ELSE UnregisterRequest(a)')
    BY <1>2 DEF RegisterService, UnRegisterService, RegisterRequest, UnregisterRequest
  <1>4. /\ r.op = "Register" => /\ at[a].main = "register" /\ at'[a].main = "registering"
                                /\ ~Asked(a) /\ Asked(a)' /\ ~Told(a)
        /\ r.op = "Unregister" => /\ at[a].watcher = "unregister"
                                  /\ at'[a].watcher = "unregistering"
                                  /\ Leaving(a)'
        /\ r.op \in {"Register", "Unregister"}
    BY <1>2 DEF RegisterService, UnRegisterService, AgentIInv, AgentTypeOK, Goroutines,
                HealthInv, Asked, Told, Leaving
  <1>5. ASSUME NEW b \in Instances
        PROVE  /\ Asked(b) => Asked(b)'
               /\ Leaving(b) => Leaving(b)'
               /\ Told(b)' => Told(b)
               /\ b # a => at'[b] = at[b]
    <2>1. ~RegisterSucceeds(a)
      BY DEF RegisterSucceeds, RegisterService, UnRegisterService, AgentIInv, HealthInv
    <2> QED
      BY <2>1, AgentFacts, OneAgent DEF MasterCall, AgentIInv
  <1>6. ASSUME NEW d \in Calls, d # c, NEW b, NEW op
        PROVE  Carries(d, b, op)' <=> Carries(d, b, op)
    BY <1>1, <1>6 DEF Carries
  <1>7. ASSUME NEW b, NEW op
        PROVE  Carries(c, b, op)' <=> b = a /\ op = r.op
    BY <1>1, <1>2 DEF Carries
  <1>8. r.op = "Register" =>
           /\ OwnRows(a) = {}
           /\ \A d \in Calls : ~Carries(d, a, "Register")
    BY <1>4, OwnCall DEF OwnRows, RowInv
  <1>9. ASSUME NEW d \in Calls
        PROVE  OwnerInv(d)'
    <2>1. CASE d = c
      <3>1. CASE r.op = "Register"
        <4>1. req'[c] = RegisterRequest(a)' /\ Asked(a)' /\ ~Told(a)'
          BY <1>1, <1>3, <1>4, <1>5, <3>1
        <4> QED
          BY <2>1, <4>1 DEF OwnerInv
      <3>2. CASE r.op = "Unregister"
        <4>1. req'[c] = UnregisterRequest(a)' /\ Leaving(a)'
          BY <1>1, <1>3, <1>4, <3>2
        <4> QED
          BY <2>1, <4>1 DEF OwnerInv
      <3> QED
        BY <1>4, <3>1, <3>2
    <2>2. CASE d # c
      <3> SUFFICES ASSUME pc[d] # "idle"
                   PROVE  \E b \in Instances :
                             \/ req'[d] = RegisterRequest(b)' /\ Asked(b)' /\ ~Told(b)'
                             \/ req'[d] = UnregisterRequest(b)' /\ Leaving(b)'
        BY <1>1, <2>2 DEF OwnerInv
      <3>1. PICK b \in Instances :
               \/ req[d] = RegisterRequest(b) /\ Asked(b) /\ ~Told(b)
               \/ req[d] = UnregisterRequest(b) /\ Leaving(b)
        BY DEF OwnerInv
      <3>2. RegisterRequest(b)' = RegisterRequest(b) /\ UnregisterRequest(b)' = UnregisterRequest(b)
        BY <1>3 DEF RegisterRequest, UnregisterRequest
      <3> QED
        BY <1>1, <1>5, <2>2, <3>1, <3>2
    <2> QED
      BY <2>1, <2>2
  <1>10. ASSUME NEW b \in Instances
         PROVE  ClientInv(b)'
    <2>1. ASSUME NEW d \in Calls, NEW e \in Calls,
                 Carries(d, b, "Register")', Carries(e, b, "Register")'
          PROVE  d = e
      BY <1>6, <1>7, <1>8, <2>1 DEF ClientInv
    <2>2. ASSUME slot'[b] # NoCall
          PROVE  (\/ Carries(slot[b], b, "Register") /\ at[b].main = "registering"
                  \/ Carries(slot[b], b, "Unregister") /\ at[b].watcher = "unregistering")'
      <3>1. CASE b = a
        <4>1. slot'[a] = c
          OBVIOUS
        <4>2. (Carries(slot[a], a, r.op))'
          BY <1>1, <1>2, <4>1 DEF Carries
        <4> QED
          BY <1>4, <3>1, <4>2
      <3>2. CASE b # a
        <4>1. slot'[b] = slot[b] /\ slot[b] # c /\ slot[b] \in Calls
          BY <2>2, <3>2 DEF Orphan
        <4> QED
          BY <1>1, <1>5, <2>2, <3>2, <4>1 DEF ClientInv, Carries
      <3> QED
        BY <3>1, <3>2
    <2> QED
      BY <2>1, <2>2 DEF ClientInv
  <1>11. ASSUME NEW i \in 1 .. Len(table)
         PROVE  RowInv(i)'
    <2>1. table[i].InstanceId \in Instances
      BY RowsHaveAgents
    <2> QED
      BY <1>1, <1>3, <1>5, <2>1 DEF RowInv
  <1>12. ASSUME NEW b \in Instances
         PROVE  ListingInv(b)'
    <2>1. OwnRows(b)' = OwnRows(b) /\ ListingInv(b)
      BY <1>1, SameRows
    <2>2. OwnRows(b) # {} => \A d \in Calls : Carries(d, b, "Register")' => pc'[d] = "returned"
      BY <1>1, <1>6, <1>7, <1>8, <2>1 DEF ListingInv
    <2>3. \A d \in Calls : Carries(d, b, "Unregister")' => OwnRows(b) \subseteq 1 .. Len(seen'[d])
      BY <1>1, <1>6, <2>1 DEF ListingInv, OwnRows
    <2> QED
      BY <1>1, <1>3, <1>5, <2>1, <2>2, <2>3 DEF ListingInv
  <1>13. RowsDiffer'
    BY <1>1 DEF RowsDiffer
  <1> QED
    BY <1>1, <1>9, <1>10, <1>11, <1>12, <1>13

-----------------------------------------------------------------------------
(* A call commits. *)

\* A Register adds one row for each service, alive, below a table that has none
\* of the agent's.
LEMMA CommitOfRegister ==
    ASSUME SystemIInv, NEW c \in Calls, NEW a \in Instances, Commit(c),
           Carries(c, a, "Register")
    PROVE  /\ OwnRows(a) = {}
           /\ Len(table) <= Len(table')
           /\ \A i \in 1 .. Len(table) : table'[i] = table[i]
           /\ \A i \in Len(table) + 1 .. Len(table') :
                 /\ table'[i].InstanceId = a
                 /\ table'[i].Service = UrlOf[a]
                 /\ table'[i].Handler \in ElementsOf(services[a])
                 /\ table'[i].IsAlive = 1
           /\ \A h \in ElementsOf(services[a]) :
                 \E i \in Len(table) + 1 .. Len(table') : table'[i].Handler = h
           /\ \A i, j \in Len(table) + 1 .. Len(table') :
                 table'[i].Handler = table'[j].Handler => i = j
  <1> DEFINE r == RegisterRequest(a)
  <1>1. req[c] = r /\ r.op = "Register" /\ r.ServiceId = a /\ r.Service = UrlOf[a]
        /\ r.Handlers = ElementsOf(services[a])
    BY OwnCall DEF RegisterRequest
  <1>2. pc[c] = "tx" /\ batch[c] = {} /\ table' = View(c)
    BY DEF Commit
  <1>3. OwnRows(a) = {}
    BY <1>2 DEF SystemIInv, ListingInv
  <1> HIDE DEF r
  <1>4. Registry!RowsAdded(r, table, table')
    BY <1>1, <1>2, CommitAdds DEF SystemIInv, Typed
  <1>5. ASSUME NEW h
        PROVE  Registry!RowFor(r, h) = [Service |-> UrlOf[a], InstanceId |-> a,
                                        Handler |-> h, IsAlive |-> 1]
    BY <1>1 DEF Registry!RowFor
  <1>6. \A i \in Len(table) + 1 .. Len(table') :
           \E h \in ElementsOf(services[a]) : table'[i] = Registry!RowFor(r, h)
    BY <1>1, <1>4 DEF Registry!RowsAdded
  <1>7. \A i \in Len(table) + 1 .. Len(table') :
           /\ table'[i] = Registry!RowFor(r, table'[i].Handler)
           /\ table'[i].Handler \in ElementsOf(services[a])
    BY <1>5, <1>6
  <1>8. \A h \in ElementsOf(services[a]) :
           \E i \in Len(table) + 1 .. Len(table') : table'[i].Handler = h
    BY <1>1, <1>4, <1>5 DEF Registry!RowsAdded
  <1>9. \A i, j \in Len(table) + 1 .. Len(table') :
           table'[i].Handler = table'[j].Handler => i = j
    BY <1>4, <1>7 DEF Registry!RowsAdded
  <1> QED
    BY <1>3, <1>4, <1>5, <1>7, <1>8, <1>9 DEF Registry!RowsAdded

\* An Unregister leaves the rows in place, changes none but the agent's, and
\* with full result sets leaves none of those alive.
LEMMA CommitOfUnregister ==
    ASSUME SystemIInv, NEW c \in Calls, NEW a \in Instances, Commit(c),
           Carries(c, a, "Unregister")
    PROVE  /\ Len(table') = Len(table)
           /\ \A i \in 1 .. Len(table) :
                 /\ table'[i].InstanceId = table[i].InstanceId
                 /\ table'[i].Service = table[i].Service
                 /\ table'[i].Handler = table[i].Handler
                 /\ table[i].InstanceId # a => table'[i] = table[i]
           /\ "rows" \notin Faults => \A i \in OwnRows(a) : table'[i].IsAlive = 0
  <1> USE DEF SystemIInv, Typed
  <1>1. req[c].op = "Unregister" /\ req[c].ServiceId = a
    BY DEF Carries
  <1>2. pc[c] = "tx" /\ batch[c] = {} /\ table' = View(c)
    BY DEF Commit
  <1>3. UnregisterInv(c) /\ Writing(c)
    BY <1>2 DEF IInv, CallInv, Writing
  <1>4. /\ Len(table') = Len(table)
        /\ \A i \in 1 .. Len(table) :
              \/ table'[i] = table[i]
              \/ table[i].InstanceId = a /\ table'[i] = [table[i] EXCEPT !.IsAlive = 0]
    BY <1>1, <1>2, <1>3 DEF UnregisterInv, PartlyMarked, View
  <1>5. \A i \in 1 .. Len(table) : table[i] \in Rows
    BY RowsHaveAgents
  <1>6. "rows" \notin Faults => \A i \in OwnRows(a) : table'[i].IsAlive = 0
    <2>1. OwnRows(a) \subseteq 1 .. Len(seen[c])
      BY DEF ListingInv
    <2>2. Covered(c, table')
      BY <1>1, <1>2, <1>3 DEF UnregisterInv
    <2> QED
      BY <1>1, <1>2, <2>1, <2>2 DEF Covered, OwnRows
  <1> QED
    BY <1>4, <1>5, <1>6 DEF Rows

\* What a COMMIT does not touch.
LEMMA CommitFrame ==
    ASSUME SystemIInv, Typed', MasterAlone, NEW c \in Calls, Commit(c)
    PROVE  /\ UNCHANGED <<at, services, slot, acked, req, seen>>
           /\ pc'[c] = "returned" /\ \A d \in Calls : d # c => pc'[d] = pc[d]
           /\ Len(table) \in Nat /\ Len(table') \in Nat
           /\ \A b \in Instances : ClientInv(b)'
           /\ \A d \in Calls : OwnerInv(d)'
           /\ \A d \in Calls : \A b, op : Carries(d, b, op)' <=> Carries(d, b, op)
  <1>1. UNCHANGED <<at, services, slot, acked, req, seen>>
    BY DEF MasterAlone, agentVars, Commit
  <1>2. pc[c] = "tx" /\ pc'[c] = "returned" /\ \A d \in Calls : d # c => pc'[d] = pc[d]
    BY DEF Commit, Finish, Goto, SystemIInv, Typed, IInv, TypeOK
  <1>3. Len(table) \in Nat /\ Len(table') \in Nat
    BY LenProperties DEF SystemIInv, Typed, IInv, TypeOK
  <1>4. ASSUME NEW d \in Calls, NEW b, NEW op
        PROVE  Carries(d, b, op)' <=> Carries(d, b, op)
    BY <1>1, <1>2 DEF Carries
  <1>5. ASSUME NEW b \in Instances
        PROVE  ClientInv(b)'
    BY <1>1, <1>4 DEF SystemIInv, Typed, ClientInv
  <1>6. ASSUME NEW d \in Calls
        PROVE  OwnerInv(d)'
    BY <1>1, <1>2 DEF SystemIInv, OwnerInv, Asked, Told, Leaving, RegisterRequest,
                      UnregisterRequest
  <1> QED
    BY <1>1, <1>2, <1>3, <1>4, <1>5, <1>6

\* The COMMIT of a Register keeps the invariant.
LEMMA CommitRegisterStep ==
    ASSUME SystemIInv, Typed', MasterAlone, NEW c \in Calls, NEW a \in Instances, Commit(c),
           Carries(c, a, "Register")
    PROVE  SystemIInv'
  <1> DEFINE N == Len(table)
             M == Len(table')
             own == ElementsOf(services[a])
  <1>1. /\ UNCHANGED <<at, services, slot, acked, req, seen>>
        /\ pc'[c] = "returned" /\ \A d \in Calls : d # c => pc'[d] = pc[d]
        /\ N \in Nat /\ M \in Nat
        /\ \A b \in Instances : ClientInv(b)'
        /\ \A d \in Calls : OwnerInv(d)'
        /\ \A d \in Calls : \A b, op : Carries(d, b, op)' <=> Carries(d, b, op)
    BY CommitFrame
  <1>2. /\ OwnRows(a) = {}
        /\ N <= M
        /\ \A i \in 1 .. N : table'[i] = table[i]
        /\ \A i \in N + 1 .. M :
              /\ table'[i].InstanceId = a
              /\ table'[i].Service = UrlOf[a]
              /\ table'[i].Handler \in own
              /\ table'[i].IsAlive = 1
        /\ \A h \in own : \E i \in N + 1 .. M : table'[i].Handler = h
        /\ \A i, j \in N + 1 .. M : table'[i].Handler = table'[j].Handler => i = j
    BY CommitOfRegister
  <1>3. Asked(a) /\ ~Told(a)
    BY OwnCall
  <1>4. \A i \in 1 .. N : table[i].InstanceId # a
    BY <1>2 DEF OwnRows
  <1>5. /\ OwnRows(a)' = N + 1 .. M
        /\ \A b \in Instances : b # a => OwnRows(b)' = OwnRows(b) /\ OwnRows(b) \subseteq 1 .. N
    <2>1. 1 .. M = (1 .. N) \cup (N + 1 .. M)
      BY <1>1, <1>2
    <2>2. \A i \in 1 .. N : table'[i] = table[i]
      BY <1>2
    <2>3. \A i \in N + 1 .. M : table'[i].InstanceId = a
      BY <1>2
    <2> HIDE DEF N, M
    <2>4. OwnRows(a)' = N + 1 .. M
      BY <1>4, <2>1, <2>2, <2>3 DEF OwnRows, N, M
    <2>5. \A b \in Instances : b # a => OwnRows(b)' = OwnRows(b) /\ OwnRows(b) \subseteq 1 .. N
      BY <2>1, <2>2, <2>3 DEF OwnRows, N, M
    <2> QED
      BY <2>4, <2>5
  <1>6. ASSUME NEW i \in 1 .. M
        PROVE  RowInv(i)'
    <2>1. CASE i \in 1 .. N
      BY <1>1, <1>2, <2>1 DEF SystemIInv, RowInv, Asked
    <2>2. CASE i \in N + 1 .. M
      BY <1>1, <1>2, <1>3, <2>2 DEF RowInv, Asked
    <2> QED
      BY <1>1, <2>1, <2>2
  <1>7. RowsDiffer'
    <2> SUFFICES ASSUME NEW i \in 1 .. M, NEW j \in 1 .. M,
                        table'[i].InstanceId = table'[j].InstanceId,
                        table'[i].Handler = table'[j].Handler
                 PROVE  i = j
      BY DEF RowsDiffer
    <2>1. CASE i \in 1 .. N /\ j \in 1 .. N
      BY <1>2, <2>1 DEF SystemIInv, RowsDiffer
    <2>2. CASE i \in N + 1 .. M /\ j \in N + 1 .. M
      BY <1>2, <2>2
    <2>3. CASE \/ i \in 1 .. N /\ j \in N + 1 .. M
               \/ j \in 1 .. N /\ i \in N + 1 .. M
      BY <1>2, <1>4, <2>3
    <2> QED
      BY <1>1, <2>1, <2>2, <2>3
  <1>8. ListingInv(a)'
    <2>1. Told(a)' = Told(a) /\ Leaving(a)' = Leaving(a) /\ (Leaving(a) => Told(a))
      BY <1>1 DEF Told, Leaving
    <2>2. ~acked'[a] /\ \A d \in Calls : ~Carries(d, a, "Unregister")'
      BY <1>1, <1>3, <2>1, OwnCall DEF SystemIInv, ListingInv
    <2>3. \A d \in Calls : Carries(d, a, "Register")' => d = c
      BY <1>1 DEF SystemIInv, ClientInv
    <2> HIDE DEF N, M, own
    <2>4. \A h \in own : \E i \in OwnRows(a)' : table'[i].Handler = h
      BY <1>2, <1>5
    <2>5. \A i \in OwnRows(a)' : table'[i].IsAlive = 1
      BY <1>2, <1>5
    <2> QED
      BY <1>1, <1>3, <2>1, <2>2, <2>3, <2>4, <2>5 DEF ListingInv, own
  <1>9. ASSUME NEW b \in Instances, b # a
        PROVE  ListingInv(b)'
    <2>1. ListingInv(b)
      BY DEF SystemIInv
    <2>2. OwnRows(b)' = OwnRows(b) /\ \A i \in OwnRows(b) : table'[i] = table[i]
      BY <1>2, <1>5, <1>9
    <2>3. \A d \in Calls : Carries(d, b, "Register")' =>
             Carries(d, b, "Register") /\ (pc[d] = "returned" => pc'[d] = "returned")
      BY <1>1
    <2> QED
      BY <1>1, <2>1, <2>2, <2>3 DEF ListingInv, Told, Leaving
  <1> QED
    BY <1>1, <1>6, <1>7, <1>8, <1>9 DEF SystemIInv

\* So does the COMMIT of an Unregister.
LEMMA CommitUnregisterStep ==
    ASSUME SystemIInv, Typed', MasterAlone, NEW c \in Calls, NEW a \in Instances, Commit(c),
           Carries(c, a, "Unregister")
    PROVE  SystemIInv'
  <1>1. /\ UNCHANGED <<at, services, slot, acked, req, seen>>
        /\ pc'[c] = "returned" /\ \A d \in Calls : d # c => pc'[d] = pc[d]
        /\ Len(table) \in Nat
        /\ \A b \in Instances : ClientInv(b)'
        /\ \A d \in Calls : OwnerInv(d)'
        /\ \A d \in Calls : \A b, op : Carries(d, b, op)' <=> Carries(d, b, op)
    BY CommitFrame
  <1>2. /\ Len(table') = Len(table)
        /\ \A i \in 1 .. Len(table) :
              /\ table'[i].InstanceId = table[i].InstanceId
              /\ table'[i].Service = table[i].Service
              /\ table'[i].Handler = table[i].Handler
              /\ table[i].InstanceId # a => table'[i] = table[i]
        /\ "rows" \notin Faults => \A i \in OwnRows(a) : table'[i].IsAlive = 0
    BY CommitOfUnregister
  <1>3. Leaving(a)
    BY OwnCall
  <1>4. \A b : OwnRows(b)' = OwnRows(b)
    BY <1>2 DEF OwnRows
  <1>5. ASSUME NEW i \in 1 .. Len(table)
        PROVE  RowInv(i)'
    BY <1>1, <1>2 DEF SystemIInv, RowInv, Asked
  <1>6. RowsDiffer'
    BY <1>2 DEF SystemIInv, RowsDiffer
  <1>7. ASSUME NEW b \in Instances
        PROVE  ListingInv(b)'
    <2>1. ListingInv(b)
      BY DEF SystemIInv
    <2>2. \A i \in OwnRows(b) : table'[i].Handler = table[i].Handler
      BY <1>2 DEF OwnRows
    <2>3. b # a => \A i \in OwnRows(b) : table'[i] = table[i]
      BY <1>2 DEF OwnRows
    <2>4. \A d \in Calls : Carries(d, b, "Register")' =>
             Carries(d, b, "Register") /\ (pc[d] = "returned" => pc'[d] = "returned")
      BY <1>1
    <2>5. /\ Told(b)' = Told(b) /\ Leaving(b)' = Leaving(b)
          /\ ElementsOf(services'[b]) = ElementsOf(services[b])
      BY <1>1 DEF Told, Leaving
    <2>6. CASE b # a
      BY <1>1, <1>4, <2>1, <2>3, <2>4, <2>5, <2>6 DEF ListingInv
    <2>7. CASE b = a
      <3>1. OwnRows(a) # {} =>
               \A h \in ElementsOf(services[a]) : \E i \in OwnRows(a) : table'[i].Handler = h
        BY <2>1, <2>2, <2>7 DEF ListingInv
      <3>2. "rows" \notin Faults =>
               \A i, j \in OwnRows(a) : table'[i].IsAlive = 0 /\ table'[j].IsAlive = 0
        BY <1>2
      <3> QED
        BY <1>1, <1>3, <1>4, <2>1, <2>4, <2>5, <2>7, <3>1, <3>2 DEF ListingInv
    <2> QED
      BY <2>6, <2>7
  <1> QED
    BY <1>1, <1>2, <1>5, <1>6, <1>7 DEF SystemIInv

-----------------------------------------------------------------------------
(* The invariant of the whole. *)

\* Before any agent was started.
LEMMA SystemInitInv == SystemInit => SystemIInv
  <1> SUFFICES ASSUME SystemInit
               PROVE  SystemIInv
    OBVIOUS
  <1>1. Typed
    BY InitInv, AgentInitInv DEF SystemInit, Typed
  <1>2. Len(table) = 0
    BY DEF SystemInit, Init
  <1>3. \A a : OwnRows(a) = {}
    BY <1>2 DEF OwnRows
  <1>4. \A c \in Calls : pc[c] = "idle"
    BY DEF SystemInit, Init
  <1>5. \A a \in Instances : at[a].watcher = "none" /\ slot[a] = NoCall /\ ~acked[a]
    BY DEF SystemInit, AgentInit, NoGoroutine, Goroutines
  <1>6. \A c \in Calls : OwnerInv(c)
    BY <1>4 DEF OwnerInv
  <1>7. \A a \in Instances : ClientInv(a) /\ ListingInv(a)
    BY <1>3, <1>4, <1>5 DEF ClientInv, ListingInv, Carries, Told
  <1> QED
    BY <1>1, <1>2, <1>6, <1>7 DEF SystemIInv, RowsDiffer

\* Every step of the system preserves the invariant.
LEMMA SystemInvStep == SystemIInv /\ [SystemNext]_systemVars => SystemIInv'
  <1> SUFFICES ASSUME SystemIInv, [SystemNext]_systemVars
               PROVE  SystemIInv'
    OBVIOUS
  <1>1. IInv' /\ AgentIInv'
    BY Projections, InvStep, AgentInvStep DEF SystemIInv, Typed
  <1>2. slot' \in [Instances -> Calls \cup {NoCall}] /\ acked' \in [Instances -> BOOLEAN]
    BY DEF SystemIInv, Typed, SystemNext, systemVars, AgentAlone, AgentCalls, ConnectionLost,
           AgentKilled, MasterAlone, AgentRegisters, AgentUnregisters, Send, RegisterAnswered,
           UnregisterAnswered, Receive
  <1>3. Typed'
    BY <1>1, <1>2 DEF Typed
  <1>4. CASE UNCHANGED systemVars
    <2>1. Calm
      BY <1>4 DEF systemVars, masterVars, vars, agentVars, Calm, Asked, Told, Leaving,
                  SystemIInv, Typed, ClientInv, Carries
    <2> QED
      BY <1>3, <2>1, CalmStep
  <1>5. ASSUME NEW a \in Instances, AgentAlone(a) \/ ConnectionLost(a) \/ AgentKilled(a)
        PROVE  SystemIInv'
    BY <1>3, <1>5, AgentAloneCalm, CalmStep
  <1>6. ASSUME NEW a \in Instances, AgentRegisters(a) \/ AgentUnregisters(a)
        PROVE  SystemIInv'
    <2>1. PICK r : /\ Send(a, r) /\ acked' = acked
                   /\ \/ RegisterService(a) /\ r = RegisterRequest(a)
                      \/ UnRegisterService(a) /\ r = UnregisterRequest(a)
      BY <1>6 DEF AgentRegisters, AgentUnregisters
    <2>2. CASE UNCHANGED <<masterVars, slot>>
      BY <1>3, <2>1, <2>2, AgentAloneCalm, CalmStep
    <2>3. ASSUME NEW c \in Calls, Orphan(c), Dispatch(c, r) \/ Refuse(c, r),
                 slot' = [slot EXCEPT ![a] = c]
          PROVE  SystemIInv'
      BY <1>3, <2>1, <2>3, ArrivalStep
    <2> QED
      BY <2>1, <2>2, <2>3 DEF Send
  <1>7. ASSUME NEW a \in Instances, RegisterAnswered(a) \/ UnregisterAnswered(a)
        PROVE  SystemIInv'
    <2>1. Calm
      BY <1>7, RegisterOKCalm, AnsweredCalm DEF RegisterAnswered
    <2> QED
      BY <1>3, <2>1, CalmStep
  <1>8. CASE MasterAlone
    <2>1. CASE \A c \in Calls : ~Commit(c)
      BY <1>3, <1>8, <2>1, MasterAloneCalm, CalmStep
    <2>2. ASSUME NEW c \in Calls, Commit(c)
          PROVE  SystemIInv'
      <3>1. PICK a \in Instances :
               req[c] = RegisterRequest(a) \/ req[c] = UnregisterRequest(a)
        BY <2>2 DEF SystemIInv, OwnerInv, Commit
      <3>2. Carries(c, a, "Register") \/ Carries(c, a, "Unregister")
        BY <2>2, <3>1 DEF Carries, Commit, RegisterRequest, UnregisterRequest
      <3> QED
        BY <1>3, <1>8, <2>2, <3>2, CommitRegisterStep, CommitUnregisterStep
    <2> QED
      BY <2>1, <2>2
  <1> QED
    BY <1>4, <1>5, <1>6, <1>7, <1>8 DEF SystemNext, AgentCalls

\* The invariant holds in every behaviour of agents and master.
THEOREM SystemInvariant == SystemSpec => []SystemIInv
  BY SystemInitInv, SystemInvStep, PTL DEF SystemSpec

\* What is true of the master with any clients is true of it with these agents,
\* and what is true of an agent with any master is true of it with this one.
THEOREM SystemImplementsParts == SystemSpec => Spec /\ AgentSpec
  <1>1. SystemInit => Init /\ AgentInit
    BY DEF SystemInit
  <1>2. SystemIInv /\ [SystemNext]_systemVars => [Next]_vars /\ [AgentNext]_agentVars
    BY Projections DEF SystemIInv, Typed
  <1> QED
    BY <1>1, <1>2, SystemInvariant, PTL DEF SystemSpec, Spec, AgentSpec

\* So the agents meet the registry that the gateway's searches see: each of their
\* calls takes effect in one step or fails, although agents are killed and
\* connections lost while the master runs them.
THEOREM SystemImplementsRegistry ==
    ASSUME "rows" \notin Faults
    PROVE  SystemSpec => ImplementsRegistry
  BY SystemImplementsParts, MasterImplementsRegistry, PTL

-----------------------------------------------------------------------------
(* What the registry says of an agent. *)

\* It says one of three things, and which one is told by any of its rows.
LEMMA LifeIs ==
    ASSUME SystemIInv, NEW a \in Instances
    PROVE  /\ OwnRows(a) = {} => Life(a) = "absent"
           /\ OwnRows(a) # {} /\ (\A i \in OwnRows(a) : table[i].IsAlive = 1)
                 => Life(a) = "listed"
           /\ OwnRows(a) # {} /\ (\A i \in OwnRows(a) : table[i].IsAlive = 0)
                 => Life(a) = "delisted"
  <1> DEFINE own == OwnRows(a)
             Whole(bit) == /\ {table[i].Handler : i \in own} = ElementsOf(services[a])
                           /\ \A i \in own : table[i].IsAlive = bit
  <1>1. Life(a) = CASE own = {} -> "absent"
                    [] own # {} /\ Whole(1) -> "listed"
                    [] own # {} /\ Whole(0) -> "delisted"
                    [] OTHER -> "torn"
    BY DEF Life
  <1>2. own # {} => {table[i].Handler : i \in own} = ElementsOf(services[a])
    <2>1. \A i \in own : table[i].Handler \in ElementsOf(services[a])
      BY DEF SystemIInv, RowInv, OwnRows
    <2>2. own # {} => \A h \in ElementsOf(services[a]) : \E i \in own : table[i].Handler = h
      BY DEF SystemIInv, ListingInv
    <2> HIDE DEF own
    <2> QED
      BY <2>1, <2>2
  <1> HIDE DEF own
  <1>3. Whole(1) /\ own # {} => ~Whole(0)
    OBVIOUS
  <1> HIDE DEF Whole
  <1>4. /\ own = {} => Life(a) = "absent"
        /\ own # {} /\ Whole(1) => Life(a) = "listed"
        /\ own # {} /\ Whole(0) => Life(a) = "delisted"
    BY <1>1, <1>3
  <1> QED
    BY <1>2, <1>4 DEF own, Whole

LifeShows(a) ==
    \/ OwnRows(a) = {} /\ Life(a) = "absent"
    \/ /\ OwnRows(a) # {} /\ Life(a) = "listed"
       /\ \A i \in OwnRows(a) : table[i].IsAlive = 1
    \/ /\ OwnRows(a) # {} /\ Life(a) = "delisted"
       /\ \A i \in OwnRows(a) : table[i].IsAlive = 0

\* With full result sets nothing is ever torn.
LEMMA LifeOfRows ==
    ASSUME SystemIInv, "rows" \notin Faults, NEW a \in Instances
    PROVE  LifeShows(a)
  <1>1. \A i \in OwnRows(a) : table[i].IsAlive \in {0, 1}
    BY RowsHaveAgents DEF OwnRows, Rows, SystemIInv, Typed
  <1>2. \A i, j \in OwnRows(a) : table[i].IsAlive = table[j].IsAlive
    BY DEF SystemIInv, ListingInv
  <1> QED
    BY <1>1, <1>2, LifeIs DEF LifeShows

-----------------------------------------------------------------------------
(* The properties. *)

\* In every behaviour of agents and master all variables keep their types.
THEOREM SystemTypeCorrect == SystemSpec => []SystemTypeOK
  <1>1. SystemIInv => SystemTypeOK
    BY DEF SystemIInv, Typed, SystemTypeOK, IInv, AgentIInv
  <1> QED
    BY <1>1, SystemInvariant, PTL

\* No agent is registered twice, whatever became of the answer to its Register,
\* and its rows carry its address (handle_services_use_case.go, register_service.go).
THEOREM NeverRegisteredTwice == SystemSpec => []RegisteredOnce
  <1>1. SystemIInv => RegisteredOnce
    BY DEF SystemIInv, RowsDiffer, RowInv, RegisteredOnce
  <1> QED
    BY <1>1, SystemInvariant, PTL

\* What an agent watches is listed, whatever other agents, the network and the
\* master's crashes do, until the agent sends its Unregister.
THEOREM WatchedStaysListed == SystemSpec => []WatchedIsListed
  <1>1. SystemIInv => WatchedIsListed
    <2> SUFFICES ASSUME SystemIInv, NEW a \in Instances,
                        at[a].watcher \in {"watch", "waitc", "errc", "unregister"}
                 PROVE  Life(a) = "listed"
      BY DEF WatchedIsListed
    <2>1. Told(a) /\ ~Leaving(a)
      BY DEF Told, Leaving
    <2> QED
      BY <2>1, LifeIs DEF SystemIInv, ListingInv
  <1> QED
    BY <1>1, SystemInvariant, PTL

\* Unless result sets may be cut short, an agent whose Unregister was answered
\* OK is delisted, all of it, and stays so.
THEOREM AckedDelistedForGood ==
    ASSUME "rows" \notin Faults
    PROVE  SystemSpec => []AckedStaysDelisted
  <1>1. SystemIInv => AckedStaysDelisted
    <2> SUFFICES ASSUME SystemIInv, NEW a \in Instances, acked[a]
                 PROVE  Life(a) = "delisted"
      BY DEF AckedStaysDelisted
    <2>1. Leaving(a) /\ (Leaving(a) => Told(a)) /\ \A i \in OwnRows(a) : table[i].IsAlive = 0
      BY DEF SystemIInv, ListingInv, Leaving, Told
    <2>2. OwnRows(a) # {}
      BY <2>1 DEF SystemIInv, ListingInv
    <2> QED
      BY <2>1, <2>2, LifeIs
  <1> QED
    BY <1>1, SystemInvariant, PTL

\* An agent whose rows appear has not been told yet, so that no Unregister of it
\* can be on its way.
LEMMA AppearAlive ==
    ASSUME SystemIInv, SystemIInv', SystemNext, NEW a \in Instances,
           OwnRows(a) = {}, OwnRows(a)' # {}
    PROVE  \A i \in OwnRows(a)' : table'[i].IsAlive = 1
  <1>1. ~Leaving(a)
    BY DEF SystemIInv, ListingInv, Told, Leaving
  <1>2. table' # table
    BY SameRows
  <1>3. at' = at
    <2>1. CASE MasterAlone
      BY <2>1 DEF MasterAlone, agentVars
    <2>2. ASSUME NEW b \in Instances, AgentAlone(b) \/ ConnectionLost(b) \/ AgentKilled(b)
          PROVE  table' = table
      BY <2>2 DEF AgentAlone, ConnectionLost, AgentKilled, masterVars, vars
    <2>3. ASSUME NEW b \in Instances, AgentCalls(b)
          PROVE  table' = table
      BY <2>3 DEF AgentCalls, AgentRegisters, AgentUnregisters, Send, Dispatch, Refuse,
                  RegisterAnswered, UnregisterAnswered, Receive, Return, masterVars, vars
    <2> QED
      BY <1>2, <2>1, <2>2, <2>3 DEF SystemNext
  <1>4. ~Leaving(a)'
    BY <1>1, <1>3 DEF Leaving
  <1> QED
    BY <1>4 DEF SystemIInv, ListingInv

\* Unless result sets may be cut short, the registry shows an agent whole or not
\* at all: absent, then listed, then delisted, and never back, whatever crashes,
\* is killed or is lost in between.
THEOREM LifecycleIsOrdered ==
    ASSUME "rows" \notin Faults
    PROVE  SystemSpec => LifecycleOrdered
  <1> DEFINE Ordered(a) ==
                 /\ Life(a)' # "torn"
                 /\ Life(a)' # Life(a) =>
                       <<Life(a), Life(a)'>> \in {<<"absent", "listed">>, <<"listed", "delisted">>}
             Shows == \A a \in Instances : LifeShows(a)
  <1>1. SystemIInv => Shows
    BY LifeOfRows
  <1>2. SystemIInv /\ SystemIInv' /\ Shows /\ Shows' /\ [SystemNext]_systemVars
           => [\A a \in Instances : Ordered(a)]_systemVars
    <2> SUFFICES ASSUME SystemIInv, SystemIInv', Shows, Shows', SystemNext,
                        NEW a \in Instances
                 PROVE  Ordered(a)
      OBVIOUS
    <2>1. table \in Seq(Rows) /\ table' \in Seq(Rows)
      BY DEF SystemIInv, Typed, IInv, TypeOK
    <2>2. OnlyDie(table, table')
      BY Projections, TableStep DEF SystemIInv, Typed
    <2>3. \A i \in OwnRows(a) :
             /\ i \in OwnRows(a)'
             /\ table[i].IsAlive = 0 => table'[i].IsAlive = 0
      BY <2>1, <2>2, OnlyDieRow DEF OwnRows
    <2>4. LifeShows(a) /\ LifeShows(a)'
      OBVIOUS
    <2>6. OwnRows(a) = {} /\ OwnRows(a)' # {} => \A i \in OwnRows(a)' : table'[i].IsAlive = 1
      BY AppearAlive
    <2> QED
      BY <2>3, <2>4, <2>6 DEF LifeShows
  <1> HIDE DEF Shows
  <1> QED
    BY <1>1, <1>2, SystemInvariant, PTL DEF SystemSpec, LifecycleOrdered
=============================================================================
