----------------------- MODULE DiscoveryMasterRefinement -----------------------
(***************************************************************************)
(* The discovery master implements ServiceRegistry: with full result sets, *)
(* every step of it is one atomic step of the registry or invisible.       *)
(***************************************************************************)
EXTENDS DiscoveryMasterProofs

-----------------------------------------------------------------------------
(* How the steps of a call show in its stage. *)

\* Master and registry speak of the same requests and replies.
LEMMA SameData ==
    /\ Registry!Requests = Requests
    /\ Registry!NoRequest = NoRequest
    /\ Registry!NoReply = NoReply
  BY DEF Registry!Requests, Registry!RegisterRequests, Registry!UnregisterRequests,
         Registry!SearchRequests, Registry!NoRequest, Registry!NoReply,
         Requests, RegisterRequests, UnregisterRequests, SearchRequests,
         NoRequest, NoReply

\* A call that goes from one place to another changes its own stage.
LEMMA StageOfCall ==
    ASSUME TypeOK, NEW c \in Calls,
           NEW p \in {"idle", "dispatched", "begin", "tx", "returned"}, Goto(c, p)
    PROVE  Stage' = [Stage EXCEPT ![c] = IF p = "idle" THEN "idle"
                                         ELSE IF p = "returned" THEN "answered"
                                         ELSE "waiting"]
  <1>1. pc' = [pc EXCEPT ![c] = p] /\ pc \in [Calls -> {"idle", "dispatched", "begin", "tx", "returned"}]
    BY DEF Goto, TypeOK
  <1> QED
    BY <1>1 DEF Stage

\* A step inside the call is invisible.
LEMMA StageInside ==
    ASSUME TypeOK, NEW c \in Calls, pc[c] \in {"dispatched", "begin", "tx"},
           NEW p \in {"begin", "tx"}, Goto(c, p)
    PROVE  Stage' = Stage
  <1>1. pc' = [pc EXCEPT ![c] = p] /\ pc \in [Calls -> {"idle", "dispatched", "begin", "tx", "returned"}]
    BY DEF Goto, TypeOK
  <1>2. \A d \in Calls : Stage'[d] = Stage[d]
    BY <1>1 DEF Stage
  <1> QED
    BY <1>2 DEF Stage

\* The answer of a call is an answer of the registry.
LEMMA FinishAnswers ==
    ASSUME TypeOK, NEW c \in Calls, NEW status, NEW services,
           Finish(c, status, services)
    PROVE  Registry!Answer(c, status, services)
  <1>1. Goto(c, "returned")
    BY DEF Finish
  <1>2. Stage' = [Stage EXCEPT ![c] = "answered"]
    BY <1>1, StageOfCall
  <1> QED
    BY <1>2 DEF Finish, Registry!Answer

-----------------------------------------------------------------------------
(* One lemma for each kind of step. *)

\* A call that is dispatched has asked; one that nobody listens to is refused.
LEMMA ArriveRefines ==
    ASSUME IInv, NEW c \in Calls, NEW r \in Requests, Dispatch(c, r) \/ Refuse(c, r)
    PROVE  Registry!Ask(c, r) \/ Registry!Refuse(c, r)
  <1>1. TypeOK
    BY DEF IInv
  <1>2. Stage[c] = "idle"
    BY DEF Stage, Dispatch, Refuse
  <1>3. CASE Dispatch(c, r)
    <2>1. Stage' = [Stage EXCEPT ![c] = "waiting"]
      BY <1>1, <1>3, StageOfCall DEF Dispatch
    <2> QED
      BY <1>2, <1>3, <2>1 DEF Dispatch, Registry!Ask
  <1>4. CASE Refuse(c, r)
    <2>1. Registry!Answer(c, "ERR", {})
      BY <1>1, <1>4, FinishAnswers DEF Refuse
    <2> QED
      BY <1>2, <1>4, <2>1 DEF Refuse, Registry!Refuse
  <1> QED
    BY <1>3, <1>4

\* The answer of GetServiceHandlers is the one the registry gives at this step.
LEMMA SearchRefines ==
    ASSUME IInv, "rows" \notin Faults, NEW c \in Calls, GetAliveServicesExecute(c)
    PROVE  Registry!Search(c)
  <1> DEFINE found == GetAliveServices(req[c].ServiceDefinition, Len(table))
  <1>1. Finish(c, "OK", found)
    BY DEF GetAliveServicesExecute, ScannedRows
  <1>2. Registry!Answer(c, "OK", found)
    BY <1>1, FinishAnswers DEF IInv
  <1>3. found = Registry!AliveServices(req[c].ServiceDefinition)
    BY DEF GetAliveServices, Registry!AliveServices
  <1>4. Stage[c] = "waiting" /\ req[c].op = "Search" /\ UNCHANGED <<table, req, seen>>
    BY DEF Stage, GetAliveServicesExecute
  <1> QED
    BY <1>2, <1>3, <1>4 DEF Registry!Search

\* The COMMIT of a Register adds the rows of its request at once.
LEMMA CommitAdds ==
    ASSUME IInv, NEW c \in Calls, pc[c] = "tx", batch[c] = {}, req[c].op = "Register"
    PROVE  Registry!RowsAdded(req[c], table, View(c))
  <1>1. \A r, h : NewRow(r, h) = Registry!RowFor(r, h)
    BY DEF NewRow, InsertedRow, NewServiceHandler, Registry!RowFor
  <1>2. CASE writer = c
    <2>1. PartlyAdded(req[c], {})
      BY <1>2 DEF IInv, CallInv, RegisterInv, Writing
    <2> QED
      BY <1>1, <1>2, <2>1 DEF PartlyAdded, View, Registry!RowsAdded
  <1>3. CASE writer # c
    <2>1. View(c) = table
      BY <1>3 DEF View
    <2>2. NewServiceHandlers(req[c]) = {}
      BY <1>3 DEF IInv, CallInv, RegisterInv, Writing
    <2>3. \A h \in req[c].Handlers : FALSE
      BY <2>2 DEF NewServiceHandlers
    <2>4. Len(table) \in Nat
      BY LenProperties DEF IInv, TypeOK
    <2> QED
      BY <2>1, <2>3, <2>4 DEF Registry!RowsAdded
  <1> QED
    BY <1>2, <1>3

\* The COMMIT of an Unregister marks the rows of its instance at once.
LEMMA CommitMarks ==
    ASSUME IInv, "rows" \notin Faults, NEW c \in Calls, pc[c] = "tx", batch[c] = {},
           req[c].op = "Unregister"
    PROVE  Registry!RowsMarked(req[c].ServiceId, Len(seen[c]), table, View(c))
  <1> DEFINE id == req[c].ServiceId
             V == View(c)
  <1>1. /\ table \in Seq(Rows) /\ Len(table) \in Nat /\ Len(seen[c]) \in Nat
        /\ Len(seen[c]) <= Len(table)
    BY LenProperties DEF IInv, TypeOK, CallInv, OnlyDie
  <1>2. Covered(c, V) /\ (writer = c => PartlyMarked(id))
    BY DEF IInv, CallInv, UnregisterInv, Writing
  <1>3. /\ Len(V) = Len(table)
        /\ \A i \in 1 .. Len(table) :
              \/ V[i] = table[i]
              \/ table[i].InstanceId = id /\ V[i] = [table[i] EXCEPT !.IsAlive = 0]
    BY <1>2 DEF View, PartlyMarked
  <1> HIDE DEF V
  <1>4. ASSUME NEW i \in 1 .. Len(table)
        PROVE  \/ table[i].InstanceId = id /\ V[i] = [table[i] EXCEPT !.IsAlive = 0]
               \/ (table[i].InstanceId = id => i > Len(seen[c])) /\ V[i] = table[i]
    <2>1. table[i] \in Rows
      BY <1>1, ElementOfSeq
    <2>2. CASE V[i] = table[i] /\ table[i].InstanceId = id /\ i <= Len(seen[c])
      <3>1. V[i].IsAlive = 0
        BY <1>1, <1>2, <2>2 DEF Covered
      <3>2. table[i] = [table[i] EXCEPT !.IsAlive = 0]
        BY <2>1, <2>2, <3>1 DEF Rows
      <3> QED
        BY <2>2, <3>2
    <2> QED
      BY <1>1, <1>3, <2>2
  <1> QED
    BY <1>3, <1>4 DEF Registry!RowsMarked, V

\* A COMMIT is the one step in which a Register or an Unregister happens.
LEMMA CommitRefines ==
    ASSUME IInv, "rows" \notin Faults, NEW c \in Calls, Commit(c)
    PROVE  Registry!Register(c) \/ Registry!Unregister(c)
  <1>1. /\ pc[c] = "tx" /\ batch[c] = {} /\ table' = View(c)
        /\ UNCHANGED <<req, seen>> /\ Finish(c, "OK", {})
    BY DEF Commit
  <1>2. Registry!Answer(c, "OK", {})
    BY <1>1, FinishAnswers DEF IInv
  <1>3. Stage[c] = "waiting"
    BY <1>1 DEF Stage
  <1>4. CASE req[c].op = "Register"
    BY <1>1, <1>2, <1>3, <1>4, CommitAdds DEF Registry!Register
  <1>5. CASE req[c].op = "Unregister"
    BY <1>1, <1>2, <1>3, <1>5, CommitMarks DEF Registry!Unregister
  <1> QED
    BY <1>1, <1>4, <1>5 DEF IInv, CallInv, RequestInv, Writing

\* A call that fails alone, its transaction rolled back, has changed nothing.
LEMMA FailRefines ==
    ASSUME IInv, NEW c \in Calls, pc[c] # "idle", Finish(c, "ERR", {}),
           UNCHANGED <<table, req, seen>>
    PROVE  Registry!Fail({c})
  <1>1. Registry!Answer(c, "ERR", {})
    BY FinishAnswers DEF IInv
  <1>2. Stage \in [Calls -> {"idle", "waiting", "answered"}] /\ Stage[c] # "idle"
    BY DEF Stage
  <1>3. Stage' = [d \in Calls |-> IF d \in {c} THEN "answered" ELSE Stage[d]]
    BY <1>1, <1>2 DEF Registry!Answer
  <1>4. reply' = [d \in Calls |-> IF d \in {c} THEN [status |-> "ERR", Services |-> {}]
                                  ELSE reply[d]]
    BY <1>1 DEF Registry!Answer, IInv, TypeOK
  <1> QED
    BY <1>2, <1>3, <1>4 DEF Registry!Fail

\* When the process dies all calls in progress fail together.
LEMMA ProcessDiesRefines ==
    ASSUME IInv, ProcessDies
    PROVE  Registry!Fail({c \in Calls : pc[c] # "idle"})
  <1> DEFINE C == {c \in Calls : pc[c] # "idle"}
  <1>1. \A c \in C : Stage[c] # "idle"
    BY DEF Stage
  <1>2. Stage' = [c \in Calls |-> IF c \in C THEN "answered" ELSE Stage[c]]
    BY DEF Stage, ProcessDies
  <1>3. reply' = [c \in Calls |-> IF c \in C THEN [status |-> "ERR", Services |-> {}]
                                  ELSE reply[c]]
    BY DEF ProcessDies
  <1>4. UNCHANGED <<table, req, seen>>
    BY DEF ProcessDies
  <1> QED
    BY <1>1, <1>2, <1>3, <1>4 DEF Registry!Fail

\* A call that leaves hangs up.
LEMMA ReturnRefines ==
    ASSUME IInv, NEW c \in Calls, Return(c)
    PROVE  Registry!Hangup(c)
  <1>1. Stage[c] = "answered"
    BY DEF Stage, Return
  <1>2. Stage' = [Stage EXCEPT ![c] = "idle"]
    BY StageOfCall DEF Return, IInv
  <1> QED
    BY <1>1, <1>2, SameData DEF Return, Registry!Hangup

-----------------------------------------------------------------------------
\* Every step of the master is a step of the registry or invisible to it.
LEMMA StepRefines ==
    ASSUME IInv, TypeOK', "rows" \notin Faults, [Next]_vars
    PROVE  [Registry!Next]_(Registry!vars)
  <1>0. TypeOK
    BY DEF IInv
  <1>1. CASE UNCHANGED vars
    BY <1>1 DEF vars, Registry!vars, Stage
  <1>2. ASSUME NEW c \in Calls, Arrive(c)
        PROVE  Registry!Next
    BY <1>2, ArriveRefines, SameData DEF Arrive, Registry!Next
  <1>3. ASSUME NEW c \in Calls, Handle(c)
        PROVE  [Registry!Next]_(Registry!vars)
    <2>1. CASE RegisterExecute(c) \/ UnregisterExecute(c) \/ BeginTx(c)
      <3>1. Stage' = Stage
        BY <1>0, <2>1, StageInside DEF RegisterExecute, UnregisterExecute, BeginTx
      <3>2. UNCHANGED <<table, req, reply, seen>>
        BY <2>1 DEF RegisterExecute, UnregisterExecute, BeginTx
      <3> QED
        BY <3>1, <3>2 DEF Registry!vars
    <2>2. CASE ExecContext(c)
      BY <2>2 DEF ExecContext, Registry!vars, Stage
    <2>3. CASE GetAliveServicesExecute(c)
      BY <2>3, SearchRefines DEF Registry!Next
    <2>4. CASE QueryFails(c) \/ ExecFails(c) \/ CommitFails(c)
      <3>1. pc[c] # "idle" /\ Finish(c, "ERR", {}) /\ UNCHANGED <<table, req, seen>>
        BY <2>4 DEF QueryFails, ExecFails, CommitFails, RollbackAndFail
      <3>2. Registry!Fail({c})
        BY <3>1, FailRefines
      <3> QED
        BY <3>2 DEF Registry!Next
    <2>5. CASE BeginFails(c)
      BY <2>5, ProcessDiesRefines DEF BeginFails, Registry!Next
    <2>6. CASE Commit(c)
      BY <2>6, CommitRefines DEF Registry!Next
    <2> QED
      BY <1>3, <2>1, <2>2, <2>3, <2>4, <2>5, <2>6 DEF Handle
  <1>4. ASSUME NEW c \in Calls, Return(c)
        PROVE  Registry!Next
    BY <1>4, ReturnRefines DEF Registry!Next
  <1>5. CASE Crash
    BY <1>5, ProcessDiesRefines DEF Crash, Registry!Next
  <1>6. CASE Restart
    BY <1>6 DEF Restart, Registry!vars, Stage
  <1> QED
    BY <1>1, <1>2, <1>3, <1>4, <1>5, <1>6 DEF Next

\* With full result sets the master implements the atomic registry: to its
\* clients a Register, an Unregister and a search each happen at one moment,
\* whatever statements, lock waits, failures and crashes lie between.
THEOREM MasterImplementsRegistry ==
    ASSUME "rows" \notin Faults
    PROVE  Spec => ImplementsRegistry
  <1>1. Init => Registry!Init
    BY SameData DEF Init, Stage, Registry!Init
  <1>2. IInv /\ [Next]_vars => [Registry!Next]_(Registry!vars)
    <2>1. IInv /\ [Next]_vars => TypeOK'
      BY TypeStep DEF IInv
    <2> QED
      BY <2>1, StepRefines
  <1> QED
    BY <1>1, <1>2, InductiveInvariant, PTL DEF Spec, ImplementsRegistry, Registry!Spec
=============================================================================
