------------------------------ MODULE Discovery ------------------------------
(***************************************************************************)
(* The discovery service as a whole: several agents and the master.  An    *)
(* agent's RPC occupies a slot of the master's Calls from the moment it is *)
(* sent.  The master's handlers run under a background context: when the   *)
(* client is gone (its process died, the connection broke) the handler     *)
(* goes on, and its reply reaches nobody.                                  *)
(***************************************************************************)
EXTENDS DiscoveryMaster, DiscoveryAgent

CONSTANTS
    UrlOf,      \* the service address that each agent was started with
    NetFaults   \* TRUE if requests, replies and connections can be lost

ASSUME UrlOfAssumption == UrlOf \in [Instances -> Urls]
ASSUME NetFaultsAssumption == NetFaults \in BOOLEAN

\* What reflection may answer with, Register may carry.
ASSUME ListsAreSentAssumption == \A l \in ServiceLists : ElementsOf(l) \in HandlerSets

VARIABLES
    slot,   \* the call that each agent waits for, or NoCall
    acked   \* history: the agent's Unregister was answered OK

masterVars == vars
systemVars == <<masterVars, agentVars, slot, acked>>

SystemTypeOK ==
    /\ TypeOK
    /\ AgentTypeOK
    /\ slot \in [Instances -> Calls \cup {NoCall}]
    /\ acked \in [Instances -> BOOLEAN]

SystemInit ==
    /\ Init
    /\ AgentInit
    /\ slot = [a \in Instances |-> NoCall]
    /\ acked = [a \in Instances |-> FALSE]

RegisterRequest(a) ==
    [op |-> "Register", Service |-> UrlOf[a], ServiceId |-> a,
     Handlers |-> ElementsOf(services[a])]
\* Faulty variant: the agent unregisters its address instead of its id.
UnregisterUrl(a) == [op |-> "Unregister", ServiceId |-> UrlOf[a]]

UnregisterRequest(a) == [op |-> "Unregister", ServiceId |-> a]

\* Nobody waits for the reply of this call.
Orphan(c) == \A a \in Instances : slot[a] # c

\* The RPC of agent a goes out: the master takes it, nobody listens, or the
\* request is lost on the way.
Send(a, r) ==
    \/ \E c \in Calls :
          /\ Orphan(c)
          /\ Dispatch(c, r) \/ Refuse(c, r)
          /\ slot' = [slot EXCEPT ![a] = c]
    \/ NetFaults /\ UNCHANGED <<masterVars, slot>>

AgentRegisters(a) ==
    /\ RegisterService(a)
    /\ Send(a, RegisterRequest(a))
    /\ UNCHANGED acked

AgentUnregisters(a) ==
    /\ UnRegisterService(a)
    /\ Send(a, UnregisterRequest(a))
    /\ UNCHANGED acked

\* The reply of the call in slot[a] arrives.
Receive(a, status) ==
    /\ slot[a] # NoCall
    /\ reply[slot[a]].status = status
    /\ Return(slot[a])
    /\ slot' = [slot EXCEPT ![a] = NoCall]

RegisterAnswered(a) ==
    /\ \/ Receive(a, "OK") /\ RegisterSucceeds(a)
       \/ Receive(a, "ERR") /\ RegisterFails(a)
    /\ UNCHANGED acked

UnregisterAnswered(a) ==
    /\ \/ Receive(a, "OK") /\ acked' = [acked EXCEPT ![a] = TRUE]
       \/ Receive(a, "ERR") /\ UNCHANGED acked
    /\ UnRegisterReturns(a)

\* The connection breaks while the agent waits: its call ends with an error,
\* whatever the master does with it.
ConnectionLost(a) ==
    /\ NetFaults
    /\ RegisterFails(a) \/ UnRegisterReturns(a)
    /\ slot' = [slot EXCEPT ![a] = NoCall]
    /\ UNCHANGED <<masterVars, acked>>

AgentKilled(a) ==
    /\ Kill(a)
    /\ slot' = [slot EXCEPT ![a] = NoCall]
    /\ UNCHANGED <<masterVars, acked>>

AgentAlone(a) ==
    /\ Start(a) \/ AgentStep(a) \/ TargetStep(a)
    /\ UNCHANGED <<masterVars, slot, acked>>

AgentCalls(a) ==
    \/ AgentRegisters(a) \/ RegisterAnswered(a)
    \/ AgentUnregisters(a) \/ UnregisterAnswered(a)

MasterAlone ==
    /\ \/ \E c \in Calls : Handle(c) \/ (Orphan(c) /\ Return(c))
       \/ Crash
       \/ Restart
    /\ UNCHANGED <<agentVars, slot, acked>>

SystemNext ==
    \/ \E a \in Instances :
          AgentAlone(a) \/ AgentCalls(a) \/ ConnectionLost(a) \/ AgentKilled(a)
    \/ MasterAlone

SystemSpec == SystemInit /\ [][SystemNext]_systemVars

\* Goroutines of both programs that can run do run.  Targets need not fail and
\* agents need not be started.
FairSystemSpec ==
    /\ SystemSpec
    /\ \A a \in Instances :
          /\ WF_systemVars(AgentStep(a) /\ UNCHANGED <<masterVars, slot, acked>>)
          /\ WF_systemVars(AgentCalls(a))
    /\ WF_systemVars(MasterAlone)
    /\ \A c \in Calls : WF_systemVars(Handle(c) /\ UNCHANGED <<agentVars, slot, acked>>)

-----------------------------------------------------------------------------
(***************************************************************************)
(* Properties.                                                             *)
(***************************************************************************)
OwnRows(a) == {i \in 1 .. Len(table) : table[i].InstanceId = a}

\* What the registry says of an agent: nothing, all its services alive, all its
\* services dead, or something in between.
Life(a) ==
    LET own == OwnRows(a)
        Whole(bit) == /\ {table[i].Handler : i \in own} = ElementsOf(services[a])
                      /\ \A i \in own : table[i].IsAlive = bit
    IN  CASE own = {} -> "absent"
          [] own # {} /\ Whole(1) -> "listed"
          [] own # {} /\ Whole(0) -> "delisted"
          [] OTHER -> "torn"

\* The registry never shows half of an agent's services, at any moment of any
\* Register or Unregister, crash or lost connection: an agent is listed whole,
\* then delisted whole, and never comes back under the same id.
LifecycleOrdered ==
    [][\A a \in Instances :
          /\ Life(a)' # "torn"
          /\ Life(a)' # Life(a) =>
                <<Life(a), Life(a)'>> \in {<<"absent", "listed">>, <<"listed", "delisted">>}
      ]_systemVars

\* No agent is registered twice, although a failed Register may have taken
\* effect, and every row carries its agent's own address.
RegisteredOnce ==
    \A i, j \in 1 .. Len(table) :
        /\ table[i].InstanceId = table[j].InstanceId
        /\ table[i].Handler = table[j].Handler
        => i = j /\ table[i].Service = UrlOf[table[i].InstanceId]

\* An agent whose Unregister was answered OK stays delisted: no call of its own
\* that the master still runs, and nothing another agent does, lists it again.
AckedStaysDelisted ==
    \A a \in Instances : acked[a] => Life(a) = "delisted"

\* What an agent watches is what the registry lists: from the moment it is told
\* that its Register took effect to the moment its Unregister is sent, all its
\* services are listed, whatever the other agents do and however often the
\* master dies in between.
WatchedIsListed ==
    \A a \in Instances :
        at[a].watcher \in {"watch", "waitc", "errc", "unregister"} => Life(a) = "listed"

\* A listed agent whose watched service stops serving, or whose target dies, is
\* delisted.
FailedIsDelisted ==
    \A a \in Instances :
        (Life(a) = "listed" /\ (gone[a] \/ Head(services[a]) \in failing[a]))
            ~> Life(a) = "delisted"

\* Test_HandleServicesUseCase_Execute_WhenHealthCheckReturnsNotServing_
\* ShouldUnregister_AndNotReturnError: an agent that ends because its service
\* is not serving has unregistered it.
EndedIsDelisted ==
    \A a \in Instances : at[a].watcher = "done" => Life(a) = "delisted"
=============================================================================
