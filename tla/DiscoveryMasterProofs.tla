------------------------ MODULE DiscoveryMasterProofs ------------------------
(***************************************************************************)
(* Proofs about the discovery master, for any number of calls, rows,       *)
(* instances and handlers, and any set of failures.                        *)
(***************************************************************************)
EXTENDS DiscoveryMaster, SequenceTheorems, TLAPS

-----------------------------------------------------------------------------
(***************************************************************************)
(* The inductive invariant.  The properties speak of answered calls and of *)
(* the committed table; what makes them hold is what is true of a call in  *)
(* the middle of its transaction: which entities it has still to write,    *)
(* and how what it has written (buffer) differs from the committed table.  *)
(***************************************************************************)
Writing(c) == pc[c] \in {"begin", "tx"}

NewServiceHandlers(r) ==
    {NewServiceHandler(r.Service, r.ServiceId, h) : h \in r.Handlers}

NewRow(r, h) == InsertedRow(NewServiceHandler(r.Service, r.ServiceId, h))

\* A call in progress has a request and a process, and only two kinds write.
RequestInv(c) ==
    /\ pc[c] \in {"dispatched", "begin", "tx"} => up
    /\ pc[c] # "idle" => req[c] \in Requests
    /\ Writing(c) => req[c].op \in {"Register", "Unregister"}

\* Buffer is the table followed by one row for each handler of the request
\* whose entity is no longer in the batch.
PartlyAdded(r, left) ==
    /\ Len(table) <= Len(buffer)
    /\ \A i \in 1 .. Len(table) : buffer[i] = table[i]
    /\ \A i \in Len(table) + 1 .. Len(buffer) :
          \E h \in r.Handlers :
              /\ buffer[i] = NewRow(r, h)
              /\ NewServiceHandler(r.Service, r.ServiceId, h) \notin left
    /\ \A h \in r.Handlers :
          \/ NewServiceHandler(r.Service, r.ServiceId, h) \in left
          \/ \E i \in Len(table) + 1 .. Len(buffer) : buffer[i] = NewRow(r, h)
    /\ \A i, j \in Len(table) + 1 .. Len(buffer) : buffer[i] = buffer[j] => i = j

RegisterInv(c) ==
    Writing(c) /\ req[c].op = "Register" =>
        /\ batch[c] \subseteq NewServiceHandlers(req[c])
        /\ writer # c => batch[c] = NewServiceHandlers(req[c])
        /\ writer = c => PartlyAdded(req[c], batch[c])

\* An entity to write back agrees with the committed row in all but IsAlive,
\* although the row was read before the transaction.
MarkedEntity(sh, id) ==
    /\ sh.ServiceMethodId \in 1 .. Len(table)
    /\ sh.Service = table[sh.ServiceMethodId].Service
    /\ sh.InstanceId = table[sh.ServiceMethodId].InstanceId
    /\ sh.Handler = table[sh.ServiceMethodId].Handler
    /\ sh.InstanceId = id
    /\ sh.IsAlive = FALSE

\* Buffer is the table with some rows of instance id marked dead.
PartlyMarked(id) ==
    /\ Len(buffer) = Len(table)
    /\ \A i \in 1 .. Len(table) :
          \/ buffer[i] = table[i]
          \/ /\ table[i].InstanceId = id
             /\ buffer[i] = [table[i] EXCEPT !.IsAlive = 0]

\* Every row of the instance that was there when the call arrived is dead in
\* t or has its entity in the batch.
Covered(c, t) ==
    "rows" \notin Faults =>
        \A i \in 1 .. Len(seen[c]) :
            table[i].InstanceId = req[c].ServiceId =>
                t[i].IsAlive = 0 \/ \E sh \in batch[c] : sh.ServiceMethodId = i

UnregisterInv(c) ==
    Writing(c) /\ req[c].op = "Unregister" =>
        /\ \A sh \in batch[c] : MarkedEntity(sh, req[c].ServiceId)
        /\ writer = c => PartlyMarked(req[c].ServiceId)
        /\ Covered(c, View(c))

\* The answer given, if any.
AnswerInv(c) ==
    /\ Acked(c, "Register") => \A h \in req[c].Handlers : StoredFor(c, h)
    /\ "rows" \notin Faults /\ Acked(c, "Unregister") =>
          \A i \in 1 .. Len(seen[c]) :
              table[i].InstanceId = req[c].ServiceId => table[i].IsAlive = 0
    /\ "rows" \notin Faults /\ Acked(c, "Search") =>
          \A i \in 1 .. Len(seen[c]) :
              /\ table[i].Handler = req[c].ServiceDefinition
              /\ table[i].IsAlive = 1
              => table[i].Service \in reply[c].Services

\* OnlyDie: what a call saw when it arrived is still there, perhaps dead.
CallInv(c) ==
    /\ RequestInv(c)
    /\ OnlyDie(seen[c], table)
    /\ RegisterInv(c)
    /\ UnregisterInv(c)
    /\ AnswerInv(c)

IInv ==
    /\ TypeOK
    /\ LockHeldInTransaction
    /\ \A c \in Calls : CallInv(c)

-----------------------------------------------------------------------------
(* What the helpers return. *)

\* An UPDATE of one row leaves a table of the same length.
LEMMA UpdateStatementType ==
    ASSUME NEW t \in Seq(Rows), NEW sh \in Entities
    PROVE  /\ UpdateStatement(t, sh) \in Seq(Rows)
           /\ Len(UpdateStatement(t, sh)) = Len(t)
           /\ \A i \in 1 .. Len(t) :
                 UpdateStatement(t, sh)[i] =
                     IF i = sh.ServiceMethodId THEN UpdatedRow(sh) ELSE t[i]
  <1>1. UpdatedRow(sh) \in Rows
    BY DEF UpdatedRow, Rows, Entities
  <1>2. CASE sh.ServiceMethodId \in 1 .. Len(t)
    BY <1>1, <1>2, ExceptSeq DEF UpdateStatement
  <1>3. CASE sh.ServiceMethodId \notin 1 .. Len(t)
    <2>1. t \in [1 .. Len(t) -> Rows] /\ DOMAIN t = 1 .. Len(t)
      BY LenProperties
    <2>2. UpdateStatement(t, sh) = t
      BY <2>1, <1>3 DEF UpdateStatement
    <2> QED
      BY <2>2, <1>3
  <1> QED
    BY <1>2, <1>3

\* An INSERT adds one row at the end.
LEMMA InsertStatementType ==
    ASSUME NEW t \in Seq(Rows), NEW sh \in Entities
    PROVE  /\ InsertStatement(t, sh) \in Seq(Rows)
           /\ Len(InsertStatement(t, sh)) = Len(t) + 1
           /\ InsertStatement(t, sh)[Len(t) + 1] = InsertedRow(sh)
           /\ \A i \in 1 .. Len(t) : InsertStatement(t, sh)[i] = t[i]
  <1>1. InsertedRow(sh) \in Rows
    BY DEF InsertedRow, Rows, Entities
  <1> QED
    BY <1>1 DEF InsertStatement

\* The entities of a Register request are entities.
LEMMA NewServiceHandlerType ==
    ASSUME NEW r \in RegisterRequests, NEW h \in r.Handlers
    PROVE  NewServiceHandler(r.Service, r.ServiceId, h) \in Entities
  BY HandlerSetsAssumption DEF NewServiceHandler, Entities, RegisterRequests

\* Marking an entity dead changes nothing else of it.
LEMMA MarkAsNotAliveType ==
    ASSUME NEW sh \in Entities
    PROVE  /\ MarkAsNotAlive(sh) \in Entities
           /\ MarkAsNotAlive(sh).ServiceMethodId = sh.ServiceMethodId
           /\ MarkAsNotAlive(sh).Service = sh.Service
           /\ MarkAsNotAlive(sh).InstanceId = sh.InstanceId
           /\ MarkAsNotAlive(sh).Handler = sh.Handler
           /\ MarkAsNotAlive(sh).IsAlive = FALSE
  BY DEF MarkAsNotAlive, Entities

\* A row is scanned into an entity with its position as the id.
LEMMA ScanType ==
    ASSUME NEW t \in Seq(Rows), NEW i \in 1 .. Len(t)
    PROVE  /\ Scan(t, i) \in Entities
           /\ Scan(t, i).ServiceMethodId = i
           /\ Scan(t, i).Service = t[i].Service
           /\ Scan(t, i).InstanceId = t[i].InstanceId
           /\ Scan(t, i).Handler = t[i].Handler
  <1>1. t[i] \in Rows
    BY ElementOfSeq
  <1>2. /\ i \in Nat /\ t[i].Service \in Urls /\ t[i].InstanceId \in Instances
        /\ t[i].Handler \in Handlers /\ (t[i].IsAlive = 1) \in BOOLEAN
    BY <1>1 DEF Rows
  <1> QED
    BY <1>2 DEF Scan, Entities

\* What Unregister is going to write: the instance's rows among the first n.
LEMMA MarkedRows ==
    ASSUME table \in Seq(Rows), NEW id, NEW n \in 0 .. Len(table)
    PROVE  /\ MarkedHandlers(id, n) \subseteq Entities
           /\ \A sh \in MarkedHandlers(id, n) : MarkedEntity(sh, id)
           /\ \A i \in 1 .. n : table[i].InstanceId = id =>
                 \E sh \in MarkedHandlers(id, n) : sh.ServiceMethodId = i
  <1>1. ASSUME NEW sh \in MarkedHandlers(id, n)
        PROVE  sh \in Entities /\ MarkedEntity(sh, id)
    <2>1. PICK j \in 1 .. n : table[j].InstanceId = id /\ sh = MarkAsNotAlive(Scan(table, j))
      BY <1>1 DEF MarkedHandlers, GetByServiceId
    <2>2. j \in 1 .. Len(table)
      OBVIOUS
    <2>3. /\ Scan(table, j) \in Entities
          /\ Scan(table, j).ServiceMethodId = j
          /\ Scan(table, j).Service = table[j].Service
          /\ Scan(table, j).InstanceId = table[j].InstanceId
          /\ Scan(table, j).Handler = table[j].Handler
      BY <2>2, ScanType
    <2>4. /\ sh \in Entities
          /\ sh.ServiceMethodId = j
          /\ sh.Service = table[j].Service
          /\ sh.InstanceId = table[j].InstanceId
          /\ sh.Handler = table[j].Handler
          /\ sh.IsAlive = FALSE
      BY <2>1, <2>3, MarkAsNotAliveType
    <2> QED
      BY <2>1, <2>2, <2>4 DEF MarkedEntity
  <1>2. ASSUME NEW i \in 1 .. n, table[i].InstanceId = id
        PROVE  \E sh \in MarkedHandlers(id, n) : sh.ServiceMethodId = i
    <2>1. MarkAsNotAlive(Scan(table, i)) \in MarkedHandlers(id, n)
      BY <1>2 DEF MarkedHandlers, GetByServiceId
    <2>2. Scan(table, i) \in Entities /\ Scan(table, i).ServiceMethodId = i
      BY ScanType
    <2>3. MarkAsNotAlive(Scan(table, i)).ServiceMethodId = i
      BY <2>2, MarkAsNotAliveType
    <2> QED
      BY <2>1, <2>3
  <1> QED
    BY <1>1, <1>2

-----------------------------------------------------------------------------
(* Tables only grow, and rows only die. *)

\* A row that is unchanged or marked dead says the same as before.
LEMMA OnlyDieRow ==
    ASSUME NEW old \in Seq(Rows), NEW new \in Seq(Rows), OnlyDie(old, new),
           NEW i \in 1 .. Len(old)
    PROVE  /\ i \in 1 .. Len(new)
           /\ old[i] \in Rows /\ new[i] \in Rows
           /\ new[i].Service = old[i].Service
           /\ new[i].InstanceId = old[i].InstanceId
           /\ new[i].Handler = old[i].Handler
           /\ new[i].IsAlive = 1 => old[i].IsAlive = 1
           /\ old[i].IsAlive = 0 => new[i].IsAlive = 0
  <1>1. i \in 1 .. Len(new)
    BY LenProperties DEF OnlyDie
  <1>2. old[i] \in Rows /\ new[i] \in Rows
    BY <1>1, ElementOfSeq
  <1>3. new[i] = old[i] \/ new[i] = [old[i] EXCEPT !.IsAlive = 0]
    BY DEF OnlyDie
  <1> QED
    BY <1>1, <1>2, <1>3 DEF Rows

\* Nothing changes.
LEMMA OnlyDieReflexive ==
    ASSUME NEW t \in Seq(Rows)
    PROVE  OnlyDie(t, t)
  BY LenProperties DEF OnlyDie

\* Two changes in a row.
LEMMA OnlyDieTransitive ==
    ASSUME NEW t \in Seq(Rows), NEW u \in Seq(Rows), NEW v \in Seq(Rows),
           OnlyDie(t, u), OnlyDie(u, v)
    PROVE  OnlyDie(t, v)
  <1>1. Len(t) \in Nat /\ Len(u) \in Nat /\ Len(v) \in Nat
    BY LenProperties
  <1>2. Len(t) <= Len(u) /\ Len(u) <= Len(v)
    BY DEF OnlyDie
  <1>3. ASSUME NEW i \in 1 .. Len(t)
        PROVE  v[i] = t[i] \/ v[i] = [t[i] EXCEPT !.IsAlive = 0]
    <2>1. t[i] \in Rows
      BY ElementOfSeq
    <2>2. u[i] = t[i] \/ u[i] = [t[i] EXCEPT !.IsAlive = 0]
      BY DEF OnlyDie
    <2>3. i \in 1 .. Len(u)
      BY <1>1, <1>2
    <2>4. v[i] = u[i] \/ v[i] = [u[i] EXCEPT !.IsAlive = 0]
      BY <2>3 DEF OnlyDie
    <2> QED
      BY <2>1, <2>2, <2>4 DEF Rows
  <1> QED
    BY <1>1, <1>2, <1>3 DEF OnlyDie

-----------------------------------------------------------------------------
(* Type correctness. *)

\* Every step of the master keeps its variables within their types.
LEMMA TypeStep == TypeOK /\ [Next]_vars => TypeOK'
  <1> SUFFICES ASSUME TypeOK, [Next]_vars
               PROVE  TypeOK'
    OBVIOUS
  <1> USE DEF TypeOK
  <1>1. CASE UNCHANGED vars
    BY <1>1 DEF vars
  <1>2. ASSUME NEW c \in Calls, NEW r \in Requests, Dispatch(c, r)
        PROVE  TypeOK'
    BY <1>2 DEF Dispatch, Goto
  <1>14. ASSUME NEW c \in Calls, NEW r \in Requests, Refuse(c, r)
        PROVE  TypeOK'
    BY <1>14 DEF Refuse, Goto, Finish, Replies
  <1>3. ASSUME NEW c \in Calls, RegisterExecute(c)
        PROVE  TypeOK'
    <2>1. req[c] \in RegisterRequests
      BY <1>3 DEF RegisterExecute, Requests, RegisterRequests, UnregisterRequests,
                  SearchRequests, NoRequest
    <2>2. {NewServiceHandler(req[c].Service, req[c].ServiceId, h) :
              h \in req[c].Handlers} \subseteq Entities
      BY <2>1, NewServiceHandlerType
    <2> QED
      BY <1>3, <2>2 DEF RegisterExecute, Goto
  <1>4. ASSUME NEW c \in Calls, UnregisterExecute(c)
        PROVE  TypeOK'
    <2>1. PICK n \in ScannedRows :
             batch' = [batch EXCEPT ![c] =
                MarkedHandlers(req[c].ServiceId, n)]
      BY <1>4 DEF UnregisterExecute
    <2>2. n \in 0 .. Len(table)
      BY DEF ScannedRows
    <2>3. MarkedHandlers(req[c].ServiceId, n)
             \subseteq Entities
      BY <2>2, MarkedRows
    <2> QED
      BY <1>4, <2>1, <2>3 DEF UnregisterExecute, Goto
  <1>5. ASSUME NEW c \in Calls, GetAliveServicesExecute(c)
        PROVE  TypeOK'
    <2>1. PICK n \in ScannedRows :
             Finish(c, "OK", GetAliveServices(req[c].ServiceDefinition, n))
      BY <1>5 DEF GetAliveServicesExecute
    <2>2. n \in 0 .. Len(table)
      BY DEF ScannedRows
    <2>3. GetAliveServices(req[c].ServiceDefinition, n) \subseteq Urls
      <3>1. \A i \in 1 .. n : table[i] \in Rows
        BY <2>2, ElementOfSeq
      <3> QED
        BY <3>1 DEF GetAliveServices, Rows
    <2> QED
      BY <1>5, <2>1, <2>3 DEF GetAliveServicesExecute, Finish, Goto, Replies
  <1>6. ASSUME NEW c \in Calls, QueryFails(c)
        PROVE  TypeOK'
    BY <1>6 DEF QueryFails, Finish, Goto, Replies
  <1>7. ASSUME NEW c \in Calls, BeginTx(c)
        PROVE  TypeOK'
    BY <1>7 DEF BeginTx, Goto
  <1>8. CASE ProcessDies
    <2>6. up' \in BOOLEAN /\ buffer' \in Seq(Rows)
      BY <1>8, EmptySeq DEF ProcessDies
    <2>1. /\ writer' \in Calls \cup {NoCall}
          /\ table' \in Seq(Rows) /\ seen' \in [Calls -> Seq(Rows)]
          /\ req' \in [Calls -> Requests \cup {NoRequest}]
      BY <1>8 DEF ProcessDies
    <2>2. pc' \in [Calls -> {"idle", "dispatched", "begin", "tx", "returned"}]
      BY <1>8 DEF ProcessDies
    <2>3. [status |-> "ERR", Services |-> {}] \in Replies
      BY DEF Replies
    <2>4. reply' \in [Calls -> Replies]
      BY <1>8, <2>3 DEF ProcessDies
    <2>5. batch' \in [Calls -> SUBSET Entities]
      BY <1>8 DEF ProcessDies
    <2> QED
      BY <2>1, <2>2, <2>4, <2>5, <2>6
  <1>9. ASSUME NEW c \in Calls, ExecContext(c)
        PROVE  TypeOK'
    <2>1. PICK sh \in batch[c] :
             /\ \/ buffer' = InsertStatement(View(c), sh)
                \/ buffer' = UpdateStatement(View(c), sh)
             /\ batch' = [batch EXCEPT ![c] = @ \ {sh}]
      BY <1>9 DEF ExecContext
    <2>2. View(c) \in Seq(Rows) /\ sh \in Entities
      BY DEF View
    <2>3. buffer' \in Seq(Rows)
      <3>1. InsertStatement(View(c), sh) \in Seq(Rows)
        BY <2>2, InsertStatementType
      <3>2. UpdateStatement(View(c), sh) \in Seq(Rows)
        BY <2>2, UpdateStatementType
      <3> QED
        BY <2>1, <3>1, <3>2
    <2> QED
      BY <1>9, <2>1, <2>3 DEF ExecContext
  <1>10. ASSUME NEW c \in Calls, RollbackAndFail(c)
         PROVE  TypeOK'
    BY <1>10 DEF RollbackAndFail, ReleaseLock, Finish, Goto, Replies
  <1>11. ASSUME NEW c \in Calls, Commit(c)
         PROVE  TypeOK'
    BY <1>11 DEF Commit, View, ReleaseLock, Finish, Goto, Replies
  <1>12. ASSUME NEW c \in Calls, Return(c)
         PROVE  TypeOK'
    BY <1>12 DEF Return, Goto, NoReply, Replies
  <1>13. CASE Restart
    BY <1>13 DEF Restart
  <1> QED
    BY <1>1, <1>2, <1>3, <1>4, <1>5, <1>6, <1>7, <1>8, <1>9, <1>10, <1>11, <1>12, <1>13, <1>14
       DEF Next, Arrive, Handle, BeginFails, ExecFails, CommitFails, Crash

\* In every behaviour of the master all variables keep their types.
THEOREM TypeCorrect == Spec => []TypeOK
  <1>1. Init => TypeOK
    BY DEF Init, TypeOK, NoReply, Replies
  <1> QED
    BY <1>1, TypeStep, PTL DEF Spec

-----------------------------------------------------------------------------
(* The inductive invariant is preserved. *)

\* A step of another call leaves the invariant of call d alone: if d writes, the
\* table and the buffer are as before; if not, the table only grew and died.
LEMMA Frame ==
    ASSUME TypeOK, TypeOK', NEW d \in Calls, CallInv(d),
           OnlyDie(table, table'),
           pc'[d] = pc[d], req'[d] = req[d], batch'[d] = batch[d],
           reply'[d] = reply[d], seen'[d] = seen[d],
           writer = d => writer' = d /\ buffer' = buffer /\ table' = table,
           writer' = d => writer = d, up => up'
    PROVE  CallInv(d)'
  <1> USE DEF TypeOK
  <1>0. /\ table \in Seq(Rows) /\ table' \in Seq(Rows) /\ seen[d] \in Seq(Rows)
        /\ Len(table) \in Nat /\ Len(table') \in Nat /\ Len(seen[d]) \in Nat
        /\ OnlyDie(seen[d], table)
        /\ Len(table) <= Len(table') /\ Len(seen[d]) <= Len(table)
    BY LenProperties DEF CallInv, OnlyDie
  <1>1. RequestInv(d)'
    BY DEF CallInv, RequestInv, Writing
  <1>2. OnlyDie(seen[d], table)'
    BY <1>0, OnlyDieTransitive
  <1>3. RegisterInv(d)'
    <2> SUFFICES ASSUME Writing(d), req[d].op = "Register"
                 PROVE  /\ batch[d] \subseteq NewServiceHandlers(req[d])
                        /\ writer' # d => batch[d] = NewServiceHandlers(req[d])
                        /\ writer' = d => PartlyAdded(req[d], batch[d])'
      BY DEF RegisterInv, Writing, NewServiceHandlers, PartlyAdded
    <2>1. writer = d => PartlyAdded(req[d], batch[d])'
      BY DEF CallInv, RegisterInv, PartlyAdded
    <2> QED
      BY <2>1 DEF CallInv, RegisterInv
  <1>4. UnregisterInv(d)'
    <2> SUFFICES ASSUME Writing(d), req[d].op = "Unregister"
                 PROVE  /\ (\A sh \in batch[d] : MarkedEntity(sh, req[d].ServiceId)')
                        /\ writer' = d => PartlyMarked(req[d].ServiceId)'
                        /\ Covered(d, View(d))'
      BY DEF UnregisterInv, Writing, MarkedEntity, PartlyMarked
    <2>1. /\ \A sh \in batch[d] : MarkedEntity(sh, req[d].ServiceId)
          /\ writer = d => PartlyMarked(req[d].ServiceId)
          /\ Covered(d, View(d))
      BY DEF CallInv, UnregisterInv
    <2>2. ASSUME NEW sh \in batch[d]
          PROVE  MarkedEntity(sh, req[d].ServiceId)'
      <3>1. MarkedEntity(sh, req[d].ServiceId)
        BY <2>1
      <3>2. sh.ServiceMethodId \in 1 .. Len(table)
        BY <3>1 DEF MarkedEntity
      <3> QED
        BY <3>1, <3>2, <1>0, OnlyDieRow DEF MarkedEntity
    <2>3. writer' = d => PartlyMarked(req[d].ServiceId)'
      BY <2>1 DEF PartlyMarked
    <2>4. Covered(d, View(d))'
      <3>1. CASE writer = d
        BY <3>1, <2>1 DEF Covered, View
      <3>2. CASE writer # d
        <4> SUFFICES ASSUME "rows" \notin Faults, NEW i \in 1 .. Len(seen[d]),
                            table'[i].InstanceId = req[d].ServiceId
                     PROVE  table'[i].IsAlive = 0 \/ \E sh \in batch[d] : sh.ServiceMethodId = i
          BY <3>2 DEF Covered, View
        <4>1. i \in 1 .. Len(table)
          BY <1>0
        <4>2. /\ table'[i].InstanceId = table[i].InstanceId
              /\ table[i].IsAlive = 0 => table'[i].IsAlive = 0
          BY <4>1, <1>0, OnlyDieRow
        <4> QED
          BY <4>2, <3>2, <2>1 DEF Covered, View
      <3> QED
        BY <3>1, <3>2
    <2> QED
      BY <2>2, <2>3, <2>4
  <1>5. AnswerInv(d)'
    <2>1. AnswerInv(d)
      BY DEF CallInv
    <2>2. ASSUME NEW i \in 1 .. Len(table)
          PROVE  /\ i \in 1 .. Len(table')
                 /\ table'[i].Service = table[i].Service
                 /\ table'[i].InstanceId = table[i].InstanceId
                 /\ table'[i].Handler = table[i].Handler
                 /\ table'[i].IsAlive = 1 => table[i].IsAlive = 1
                 /\ table[i].IsAlive = 0 => table'[i].IsAlive = 0
      BY <1>0, OnlyDieRow
    <2>3. ASSUME NEW h, StoredFor(d, h)
          PROVE  StoredFor(d, h)'
      <3>1. PICK i \in Len(seen[d]) + 1 .. Len(table) :
               /\ table[i].Service = req[d].Service
               /\ table[i].InstanceId = req[d].ServiceId
               /\ table[i].Handler = h
        BY <2>3 DEF StoredFor
      <3>2. i \in 1 .. Len(table) /\ i \in Len(seen[d]) + 1 .. Len(table')
        BY <1>0
      <3> QED
        BY <3>1, <3>2, <2>2 DEF StoredFor
    <2>4. \A i \in 1 .. Len(seen[d]) : i \in 1 .. Len(table)
      BY <1>0
    <2> QED
      BY <2>1, <2>2, <2>3, <2>4 DEF AnswerInv, Acked
  <1> QED
    BY <1>1, <1>2, <1>3, <1>4, <1>5 DEF CallInv

\* A step of call c alone: what is left to show is the invariant of c.
LEMMA OneCall ==
    ASSUME IInv, TypeOK', NEW c \in Calls, OnlyDie(table, table'), up' = up,
           \A d \in Calls : d # c =>
               /\ pc'[d] = pc[d] /\ req'[d] = req[d] /\ batch'[d] = batch[d]
               /\ reply'[d] = reply[d] /\ seen'[d] = seen[d]
               /\ writer = d => writer' = d /\ buffer' = buffer /\ table' = table
               /\ writer' = d => writer = d,
           CallInv(c)', LockHeldInTransaction'
    PROVE  IInv'
  <1>1. ASSUME NEW d \in Calls, d # c
        PROVE  CallInv(d)'
    BY <1>1, Frame DEF IInv
  <1> QED
    BY <1>1 DEF IInv

\* A call that has finished with an error, or has not begun to write, owes
\* nothing but its request and what it saw.
LEMMA NoPromise ==
    ASSUME NEW c \in Calls, \/ pc'[c] = "idle"
                            \/ pc'[c] = "dispatched" /\ up'
                            \/ pc'[c] = "returned" /\ reply'[c].status = "ERR",
           pc'[c] # "idle" => req'[c] \in Requests,
           OnlyDie(seen[c], table)'
    PROVE  CallInv(c)'
  BY DEF CallInv, RequestInv, RegisterInv, UnregisterInv, AnswerInv, Acked, Writing

\* The write lock is with the call whose step it is, or with none.
LEMMA NotWriter ==
    ASSUME LockHeldInTransaction, NEW c \in Calls, pc[c] # "tx"
    PROVE  writer # c
  BY CallsAssumption DEF LockHeldInTransaction

\* A request that arrives, or finds nobody listening, keeps the invariant: the
\* call has promised nothing yet.
LEMMA ArriveStep ==
    ASSUME IInv, TypeOK', NEW c \in Calls, NEW r \in Requests,
           Dispatch(c, r) \/ Refuse(c, r)
    PROVE  IInv'
  <1> USE DEF IInv
  <1>1. pc[c] = "idle" /\ writer # c /\ UNCHANGED <<up, table, writer, buffer, batch>>
    BY NotWriter DEF Dispatch, Refuse
  <1>2. OnlyDie(table, table)
    BY OnlyDieReflexive DEF TypeOK
  <1>3. CallInv(c)'
    <2>1. \/ pc'[c] = "dispatched" /\ up'
          \/ pc'[c] = "returned" /\ reply'[c].status = "ERR"
      BY DEF Dispatch, Refuse, Goto, Finish, TypeOK
    <2>2. req'[c] = r /\ seen'[c] = table
      BY DEF Dispatch, Refuse, TypeOK
    <2> QED
      BY <1>1, <1>2, <2>1, <2>2, NoPromise
  <1>4. LockHeldInTransaction'
    BY <1>1 DEF LockHeldInTransaction, Dispatch, Refuse, Goto, Finish, TypeOK
  <1>5. \A d \in Calls : d # c => /\ pc'[d] = pc[d] /\ req'[d] = req[d]
                                  /\ reply'[d] = reply[d] /\ seen'[d] = seen[d]
    BY DEF Dispatch, Refuse, Goto, Finish, TypeOK
  <1> QED
    BY <1>1, <1>2, <1>3, <1>4, <1>5, OneCall

\* A call that leaves keeps the invariant: it has no lock to leave behind.
LEMMA ReturnStep ==
    ASSUME IInv, TypeOK', NEW c \in Calls, Return(c)
    PROVE  IInv'
  <1> USE DEF IInv
  <1>1. pc[c] = "returned" /\ writer # c /\ UNCHANGED <<up, table, writer, buffer, batch>>
    BY NotWriter DEF Return
  <1>2. OnlyDie(table, table) /\ OnlyDie(<<>>, table)
    BY OnlyDieReflexive, EmptySeq, LenProperties DEF TypeOK, OnlyDie
  <1>3. CallInv(c)'
    <2>1. pc'[c] = "idle" /\ seen'[c] = <<>>
      BY DEF Return, Goto, TypeOK
    <2> QED
      BY <1>1, <1>2, <2>1, NoPromise
  <1>4. LockHeldInTransaction'
    BY <1>1 DEF LockHeldInTransaction, Return, Goto, TypeOK
  <1>5. \A d \in Calls : d # c => /\ pc'[d] = pc[d] /\ req'[d] = req[d]
                                  /\ reply'[d] = reply[d] /\ seen'[d] = seen[d]
    BY DEF Return, Goto, TypeOK
  <1> QED
    BY <1>1, <1>2, <1>3, <1>4, <1>5, OneCall

\* The Register use case up to its transaction keeps the invariant: the batch
\* holds an entity for every handler of the request.
LEMMA RegisterExecuteStep ==
    ASSUME IInv, TypeOK', NEW c \in Calls, RegisterExecute(c)
    PROVE  IInv'
  <1> USE DEF IInv
  <1>1. /\ pc[c] = "dispatched" /\ writer # c /\ req[c].op = "Register"
        /\ UNCHANGED <<up, table, writer, buffer, req, reply, seen>>
    BY NotWriter DEF RegisterExecute
  <1>2. OnlyDie(table, table)
    BY OnlyDieReflexive DEF TypeOK
  <1>3. CallInv(c)'
    <2>1. pc'[c] = "begin" /\ batch'[c] = NewServiceHandlers(req[c])
      BY DEF RegisterExecute, Goto, TypeOK, NewServiceHandlers
    <2>2. req[c] \in Requests /\ OnlyDie(seen[c], table)
      BY <1>1 DEF CallInv, RequestInv
    <2> QED
      BY <1>1, <2>1, <2>2
         DEF CallInv, RequestInv, RegisterInv, UnregisterInv, AnswerInv, Acked,
             Writing, NewServiceHandlers
  <1>4. LockHeldInTransaction'
    BY <1>1 DEF LockHeldInTransaction, RegisterExecute, Goto, TypeOK
  <1>5. \A d \in Calls : d # c => pc'[d] = pc[d] /\ batch'[d] = batch[d]
    BY DEF RegisterExecute, Goto, TypeOK
  <1> QED
    BY <1>1, <1>2, <1>3, <1>4, <1>5, OneCall

\* The SELECT of Unregister keeps the invariant: the batch covers every row of
\* the instance that is in the table.
LEMMA UnregisterExecuteStep ==
    ASSUME IInv, TypeOK', NEW c \in Calls, UnregisterExecute(c)
    PROVE  IInv'
  <1> USE DEF IInv
  <1>1. /\ pc[c] = "dispatched" /\ writer # c /\ req[c].op = "Unregister"
        /\ UNCHANGED <<up, table, writer, buffer, req, reply, seen>>
    BY NotWriter DEF UnregisterExecute
  <1>2. OnlyDie(table, table)
    BY OnlyDieReflexive DEF TypeOK
  <1>3. CallInv(c)'
    <2>1. PICK n \in ScannedRows :
             batch' = [batch EXCEPT ![c] =
                MarkedHandlers(req[c].ServiceId, n)]
      BY DEF UnregisterExecute
    <2>2. n \in 0 .. Len(table) /\ ("rows" \notin Faults => n = Len(table))
      BY LenProperties DEF ScannedRows, TypeOK
    <2>3. batch'[c] = MarkedHandlers(req[c].ServiceId, n)
      BY <2>1 DEF TypeOK
    <2>4. /\ \A sh \in batch'[c] : MarkedEntity(sh, req[c].ServiceId)
          /\ \A i \in 1 .. n : table[i].InstanceId = req[c].ServiceId =>
                \E sh \in batch'[c] : sh.ServiceMethodId = i
      BY <2>2, <2>3, MarkedRows DEF TypeOK
    <2>5. req[c] \in Requests /\ OnlyDie(seen[c], table)
      BY <1>1 DEF CallInv, RequestInv
    <2>6. pc'[c] = "begin"
      BY DEF UnregisterExecute, Goto, TypeOK
    <2>7. "rows" \notin Faults => \A i \in 1 .. Len(seen[c]) : i \in 1 .. n
      BY <2>2, <2>5, LenProperties DEF OnlyDie, TypeOK
    <2>8. Covered(c, View(c))'
      BY <1>1, <2>4, <2>7 DEF Covered
    <2>9. UnregisterInv(c)'
      BY <1>1, <2>4, <2>8 DEF UnregisterInv, MarkedEntity
    <2> QED
      BY <1>1, <2>5, <2>6, <2>9
         DEF CallInv, RequestInv, RegisterInv, AnswerInv, Acked, Writing
  <1>4. LockHeldInTransaction'
    BY <1>1 DEF LockHeldInTransaction, UnregisterExecute, Goto, TypeOK
  <1>5. \A d \in Calls : d # c => pc'[d] = pc[d] /\ batch'[d] = batch[d]
    BY DEF UnregisterExecute, Goto, TypeOK
  <1> QED
    BY <1>1, <1>2, <1>3, <1>4, <1>5, OneCall

\* GetServiceHandlers keeps the invariant: its answer has every address of the
\* handler that is alive in the table, so also of those it saw on arrival.
LEMMA GetAliveServicesExecuteStep ==
    ASSUME IInv, TypeOK', NEW c \in Calls, GetAliveServicesExecute(c)
    PROVE  IInv'
  <1> USE DEF IInv
  <1>1. /\ pc[c] = "dispatched" /\ writer # c /\ req[c].op = "Search"
        /\ UNCHANGED <<up, table, writer, buffer, req, batch, seen>>
    BY NotWriter DEF GetAliveServicesExecute
  <1>2. OnlyDie(table, table)
    BY OnlyDieReflexive DEF TypeOK
  <1>3. PICK n \in ScannedRows :
           Finish(c, "OK", GetAliveServices(req[c].ServiceDefinition, n))
    BY DEF GetAliveServicesExecute
  <1>4. CallInv(c)'
    <2>1. /\ pc'[c] = "returned"
          /\ reply'[c].Services = GetAliveServices(req[c].ServiceDefinition, n)
      BY <1>3 DEF Finish, Goto, TypeOK
    <2>2. req[c] \in Requests /\ OnlyDie(seen[c], table)
      BY <1>1 DEF CallInv, RequestInv
    <2>3. "rows" \notin Faults => \A i \in 1 .. Len(seen[c]) : i \in 1 .. n
      BY <2>2, LenProperties DEF ScannedRows, OnlyDie, TypeOK
    <2>4. \A i \in 1 .. n :
             /\ table[i].Handler = req[c].ServiceDefinition
             /\ table[i].IsAlive = 1
             => table[i].Service \in reply'[c].Services
      BY <2>1 DEF GetAliveServices
    <2>5. AnswerInv(c)'
      BY <1>1, <2>3, <2>4 DEF AnswerInv, Acked
    <2> QED
      BY <1>1, <2>1, <2>2, <2>5
         DEF CallInv, RequestInv, RegisterInv, UnregisterInv, Writing
  <1>5. LockHeldInTransaction'
    BY <1>1, <1>3 DEF LockHeldInTransaction, Finish, Goto, TypeOK
  <1>6. \A d \in Calls : d # c => pc'[d] = pc[d] /\ reply'[d] = reply[d]
    BY <1>3 DEF Finish, Goto, TypeOK
  <1> QED
    BY <1>1, <1>2, <1>4, <1>5, <1>6, OneCall

\* A failed SELECT keeps the invariant: the call had no transaction.
LEMMA QueryFailsStep ==
    ASSUME IInv, TypeOK', NEW c \in Calls, QueryFails(c)
    PROVE  IInv'
  <1> USE DEF IInv
  <1>1. /\ pc[c] = "dispatched" /\ writer # c
        /\ UNCHANGED <<up, table, writer, buffer, req, batch, seen>>
    BY NotWriter DEF QueryFails
  <1>2. OnlyDie(table, table)
    BY OnlyDieReflexive DEF TypeOK
  <1>3. CallInv(c)'
    <2>1. pc'[c] = "returned" /\ reply'[c].status = "ERR"
      BY DEF QueryFails, Finish, Goto, TypeOK
    <2>2. req[c] \in Requests /\ OnlyDie(seen[c], table)
      BY <1>1 DEF CallInv, RequestInv
    <2> QED
      BY <1>1, <2>1, <2>2, NoPromise
  <1>4. LockHeldInTransaction'
    BY <1>1 DEF LockHeldInTransaction, QueryFails, Finish, Goto, TypeOK
  <1>5. \A d \in Calls : d # c => pc'[d] = pc[d] /\ reply'[d] = reply[d]
    BY DEF QueryFails, Finish, Goto, TypeOK
  <1> QED
    BY <1>1, <1>2, <1>3, <1>4, <1>5, OneCall

\* BeginTx keeps the invariant: it takes no lock and writes nothing.
LEMMA BeginTxStep ==
    ASSUME IInv, TypeOK', NEW c \in Calls, BeginTx(c)
    PROVE  IInv'
  <1> USE DEF IInv
  <1>1. /\ pc[c] = "begin" /\ writer # c
        /\ UNCHANGED <<up, table, writer, buffer, req, batch, reply, seen>>
    BY NotWriter DEF BeginTx
  <1>2. OnlyDie(table, table)
    BY OnlyDieReflexive DEF TypeOK
  <1>3. CallInv(c)'
    <2>1. pc'[c] = "tx"
      BY DEF BeginTx, Goto, TypeOK
    <2>2. Writing(c) /\ Writing(c)'
      BY <1>1, <2>1 DEF Writing
    <2>3. RequestInv(c)' /\ OnlyDie(seen[c], table)'
      BY <1>1, <2>1, <2>2 DEF CallInv, RequestInv
    <2>4. RegisterInv(c)'
      BY <1>1, <2>2 DEF CallInv, RegisterInv, NewServiceHandlers
    <2>5. UnregisterInv(c)'
      BY <1>1, <2>2 DEF CallInv, UnregisterInv, MarkedEntity, Covered, View
    <2>6. AnswerInv(c)'
      BY <2>1 DEF AnswerInv, Acked
    <2> QED
      BY <2>3, <2>4, <2>5, <2>6 DEF CallInv
  <1>4. LockHeldInTransaction'
    BY <1>1 DEF LockHeldInTransaction, BeginTx, Goto, TypeOK
  <1>5. \A d \in Calls : d # c => pc'[d] = pc[d]
    BY DEF BeginTx, Goto, TypeOK
  <1> QED
    BY <1>1, <1>2, <1>3, <1>4, <1>5, OneCall

\* A rollback keeps the invariant: it releases the lock, and the call has an
\* error to return.
LEMMA RollbackStep ==
    ASSUME IInv, TypeOK', NEW c \in Calls, pc[c] = "tx", RollbackAndFail(c)
    PROVE  IInv'
  <1> USE DEF IInv
  <1>1. /\ UNCHANGED <<up, table, req, seen>>
        /\ writer' = IF writer = c THEN NoCall ELSE writer
        /\ buffer' = IF writer = c THEN <<>> ELSE buffer
    BY DEF RollbackAndFail, ReleaseLock
  <1>2. OnlyDie(table, table)
    BY OnlyDieReflexive DEF TypeOK
  <1>3. CallInv(c)'
    <2>1. pc'[c] = "returned" /\ reply'[c].status = "ERR"
      BY DEF RollbackAndFail, Finish, Goto, TypeOK
    <2>2. req[c] \in Requests /\ OnlyDie(seen[c], table)
      BY <1>1 DEF CallInv, RequestInv
    <2> QED
      BY <1>1, <2>1, <2>2, NoPromise
  <1>4. LockHeldInTransaction'
    BY <1>1, CallsAssumption
       DEF LockHeldInTransaction, RollbackAndFail, Finish, Goto, TypeOK
  <1>5. \A d \in Calls : d # c =>
           pc'[d] = pc[d] /\ batch'[d] = batch[d] /\ reply'[d] = reply[d]
    BY DEF RollbackAndFail, Finish, Goto, TypeOK
  <1>6. \A d \in Calls : d # c =>
           /\ writer = d => writer' = d /\ buffer' = buffer /\ table' = table
           /\ writer' = d => writer = d
    BY <1>1, CallsAssumption
  <1> QED
    BY <1>1, <1>2, <1>3, <1>4, <1>5, <1>6, OneCall

\* What a writing call is going to commit is the table with rows added, or with
\* rows of one instance marked dead.
LEMMA ViewOnlyDie ==
    ASSUME IInv, NEW c \in Calls, pc[c] = "tx"
    PROVE  View(c) \in Seq(Rows) /\ OnlyDie(table, View(c))
  <1> USE DEF IInv
  <1>1. /\ table \in Seq(Rows) /\ buffer \in Seq(Rows)
        /\ Len(table) \in Nat /\ Len(buffer) \in Nat
    BY LenProperties DEF TypeOK
  <1>2. CASE writer # c
    BY <1>1, <1>2, OnlyDieReflexive DEF View
  <1>3. CASE writer = c /\ req[c].op = "Register"
    <2>1. PartlyAdded(req[c], batch[c])
      BY <1>3 DEF CallInv, RegisterInv, Writing
    <2> QED
      BY <1>1, <1>3, <2>1 DEF PartlyAdded, OnlyDie, View
  <1>4. CASE writer = c /\ req[c].op = "Unregister"
    <2>1. PartlyMarked(req[c].ServiceId)
      BY <1>4 DEF CallInv, UnregisterInv, Writing
    <2> QED
      BY <1>1, <1>4, <2>1 DEF PartlyMarked, OnlyDie, View
  <1> QED
    BY <1>2, <1>3, <1>4 DEF CallInv, RequestInv, Writing

\* The row that Register inserts for a handler says what the request says.
LEMMA NewRowSays ==
    ASSUME NEW r, NEW h
    PROVE  /\ NewRow(r, h).Service = r.Service
           /\ NewRow(r, h).InstanceId = r.ServiceId
           /\ NewRow(r, h).Handler = h
           /\ NewRow(r, h).IsAlive = 1
  BY DEF NewRow, InsertedRow, NewServiceHandler

\* A COMMIT keeps the invariant, and what its answer promises holds: a Register
\* has all its rows in the table, an Unregister has marked all it had to.
LEMMA CommitStep ==
    ASSUME IInv, TypeOK', NEW c \in Calls, Commit(c)
    PROVE  IInv'
  <1> USE DEF IInv
  <1>1. /\ pc[c] = "tx" /\ batch[c] = {} /\ table' = View(c)
        /\ UNCHANGED <<up, req, batch, seen>>
        /\ writer' = IF writer = c THEN NoCall ELSE writer
        /\ buffer' = IF writer = c THEN <<>> ELSE buffer
    BY DEF Commit, ReleaseLock
  <1>2. OnlyDie(table, table')
    BY <1>1, ViewOnlyDie
  <1>3. CallInv(c)'
    <2>0. /\ table \in Seq(Rows) /\ table' \in Seq(Rows) /\ seen[c] \in Seq(Rows)
          /\ Len(table) \in Nat /\ Len(table') \in Nat /\ Len(seen[c]) \in Nat
      BY LenProperties DEF TypeOK
    <2>1. pc'[c] = "returned"
      BY DEF Commit, Finish, Goto, TypeOK
    <2>2. /\ req[c] \in Requests /\ req[c].op \in {"Register", "Unregister"}
          /\ OnlyDie(seen[c], table) /\ Writing(c)
      BY <1>1 DEF CallInv, RequestInv, Writing
    <2>3. OnlyDie(seen[c], table')
      BY <1>2, <2>0, <2>2, OnlyDieTransitive
    <2>4. ASSUME req[c].op = "Register", NEW h \in req[c].Handlers
          PROVE  StoredFor(c, h)'
      <3>1. CASE writer = c
        <4>1. PartlyAdded(req[c], {})
          BY <1>1, <2>2, <2>4, <3>1 DEF CallInv, RegisterInv
        <4>2. PICK i \in Len(table) + 1 .. Len(buffer) : buffer[i] = NewRow(req[c], h)
          BY <4>1 DEF PartlyAdded
        <4>3. table' = buffer /\ i \in Len(seen[c]) + 1 .. Len(table')
          BY <1>1, <2>0, <2>2, <3>1, <4>2 DEF View, OnlyDie
        <4> QED
          BY <1>1, <4>2, <4>3, NewRowSays DEF StoredFor
      <3>2. CASE writer # c
        <4>1. NewServiceHandlers(req[c]) = {}
          BY <1>1, <2>2, <2>4, <3>2 DEF CallInv, RegisterInv
        <4> QED
          BY <4>1, <2>4 DEF NewServiceHandlers
      <3> QED
        BY <3>1, <3>2
    <2>5. ASSUME req[c].op = "Unregister", "rows" \notin Faults,
                 NEW i \in 1 .. Len(seen[c]), table'[i].InstanceId = req[c].ServiceId
          PROVE  table'[i].IsAlive = 0
      <3>1. Covered(c, View(c))
        BY <2>2, <2>5 DEF CallInv, UnregisterInv
      <3>2. i \in 1 .. Len(table)
        BY <2>0, <2>2 DEF OnlyDie
      <3>3. table[i].InstanceId = table'[i].InstanceId
        BY <1>2, <2>0, <3>2, OnlyDieRow
      <3> QED
        BY <1>1, <2>5, <3>1, <3>3 DEF Covered
    <2>6. AnswerInv(c)'
      BY <1>1, <2>2, <2>4, <2>5 DEF AnswerInv, Acked
    <2> QED
      BY <1>1, <2>1, <2>2, <2>3, <2>6
         DEF CallInv, RequestInv, RegisterInv, UnregisterInv, Writing
  <1>4. LockHeldInTransaction'
    BY <1>1, CallsAssumption DEF LockHeldInTransaction, Commit, Finish, Goto, TypeOK
  <1>5. \A d \in Calls : d # c => pc'[d] = pc[d] /\ reply'[d] = reply[d]
    BY DEF Commit, Finish, Goto, TypeOK
  <1>6. \A d \in Calls : d # c =>
           /\ writer = d => writer' = d /\ buffer' = buffer /\ table' = table
           /\ writer' = d => writer = d
    BY <1>1, CallsAssumption DEF View
  <1> QED
    BY <1>1, <1>2, <1>3, <1>4, <1>5, <1>6, OneCall

\* The death of the process keeps the invariant: no call is left in a
\* transaction, and every call in progress has an error to return.
LEMMA ProcessDiesStep ==
    ASSUME IInv, TypeOK', ProcessDies
    PROVE  IInv'
  <1> USE DEF IInv
  <1>1. /\ writer' = NoCall /\ UNCHANGED <<table, req, seen>>
        /\ pc' = [c \in Calls |-> IF pc[c] = "idle" THEN "idle" ELSE "returned"]
        /\ reply' = [c \in Calls |-> IF pc[c] = "idle" THEN reply[c]
                                     ELSE [status |-> "ERR", Services |-> {}]]
    BY DEF ProcessDies
  <1>2. ASSUME NEW c \in Calls
        PROVE  CallInv(c)'
    <2>1. \/ pc'[c] = "idle"
          \/ pc'[c] = "returned" /\ reply'[c].status = "ERR"
      BY <1>1
    <2>2. pc'[c] # "idle" => req'[c] \in Requests
      BY <1>1 DEF CallInv, RequestInv
    <2>3. OnlyDie(seen[c], table)'
      BY <1>1 DEF CallInv
    <2> QED
      BY <2>1, <2>2, <2>3, NoPromise
  <1> QED
    BY <1>1, <1>2 DEF LockHeldInTransaction

\* A restart keeps the invariant.
LEMMA RestartStep ==
    ASSUME IInv, TypeOK', Restart
    PROVE  IInv'
  <1> USE DEF IInv
  <1>1. UNCHANGED <<table, writer, buffer, pc, req, batch, reply, seen>> /\ up' = TRUE
    BY DEF Restart
  <1>2. OnlyDie(table, table')
    BY <1>1, OnlyDieReflexive DEF TypeOK
  <1>3. ASSUME NEW c \in Calls
        PROVE  CallInv(c)'
    BY <1>1, <1>2, Frame
  <1> QED
    BY <1>1, <1>3 DEF LockHeldInTransaction

\* One INSERT of Register keeps what is known of its transaction: the table
\* followed by one row for each handler whose entity is written.
LEMMA InsertKeepsAdded ==
    ASSUME IInv, TypeOK', NEW c \in Calls, pc[c] = "tx", req[c].op = "Register",
           NEW sh \in batch[c], buffer' = InsertStatement(View(c), sh),
           UNCHANGED <<table, req>>, batch'[c] = batch[c] \ {sh}
    PROVE  PartlyAdded(req[c], batch[c])'
  <1> DEFINE r == req[c]
             V == View(c)
             NSH(h) == NewServiceHandler(r.Service, r.ServiceId, h)
  <1>1. /\ table \in Seq(Rows) /\ V \in Seq(Rows) /\ buffer' \in Seq(Rows)
        /\ Len(table) \in Nat /\ Len(V) \in Nat /\ Len(buffer') \in Nat
    BY ViewOnlyDie, LenProperties DEF IInv, TypeOK
  <1>2. sh \in Entities
    BY DEF IInv, TypeOK
  <1>3. /\ Len(buffer') = Len(V) + 1
        /\ buffer'[Len(V) + 1] = InsertedRow(sh)
        /\ \A i \in 1 .. Len(V) : buffer'[i] = V[i]
    BY <1>1, <1>2, InsertStatementType
  <1>4. /\ batch[c] \subseteq NewServiceHandlers(r)
        /\ writer # c => batch[c] = NewServiceHandlers(r)
        /\ writer = c => PartlyAdded(r, batch[c])
    BY DEF IInv, CallInv, RegisterInv, Writing
  <1>5. PICK h0 \in r.Handlers : sh = NSH(h0)
    BY <1>4 DEF NewServiceHandlers
  <1>6. /\ Len(table) <= Len(V)
        /\ \A i \in 1 .. Len(table) : V[i] = table[i]
        /\ \A i \in Len(table) + 1 .. Len(V) :
              \E h \in r.Handlers : V[i] = NewRow(r, h) /\ NSH(h) \notin batch[c]
        /\ \A h \in r.Handlers :
              \/ NSH(h) \in batch[c]
              \/ \E i \in Len(table) + 1 .. Len(V) : V[i] = NewRow(r, h)
        /\ \A i, j \in Len(table) + 1 .. Len(V) : V[i] = V[j] => i = j
    <2>1. CASE writer = c
      BY <1>4, <2>1 DEF View, PartlyAdded
    <2>2. CASE writer # c
      <3>1. V = table /\ \A h \in r.Handlers : NSH(h) \in batch[c]
        BY <1>4, <2>2 DEF View, NewServiceHandlers
      <3>2. Len(table) + 1 .. Len(V) = {}
        BY <3>1, <1>1
      <3> HIDE DEF V, NSH, r
      <3> QED
        BY <3>1, <3>2, <1>1
    <2> QED
      BY <2>1, <2>2
  <1>7. InsertedRow(sh) = NewRow(r, h0)
    BY <1>5 DEF NewRow
  <1>8. \A h : NewRow(r, h) = NewRow(r, h0) => h = h0
    BY NewRowSays
  <1> HIDE DEF V, NSH, r
  <1>9. Len(table) <= Len(buffer') /\ \A i \in 1 .. Len(table) : buffer'[i] = table[i]
    BY <1>1, <1>3, <1>6
  <1>10. ASSUME NEW i \in Len(table) + 1 .. Len(buffer')
         PROVE  \E h \in r.Handlers : buffer'[i] = NewRow(r, h) /\ NSH(h) \notin batch'[c]
    <2>1. CASE i = Len(V) + 1
      BY <2>1, <1>3, <1>5, <1>7
    <2>2. CASE i # Len(V) + 1
      <3>1. i \in Len(table) + 1 .. Len(V) /\ i \in 1 .. Len(V)
        BY <2>2, <1>1, <1>3
      <3> QED
        BY <3>1, <1>3, <1>6
    <2> QED
      BY <2>1, <2>2
  <1>11. ASSUME NEW h \in r.Handlers
         PROVE  \/ NSH(h) \in batch'[c]
                \/ \E i \in Len(table) + 1 .. Len(buffer') : buffer'[i] = NewRow(r, h)
    <2>1. CASE NSH(h) = sh
      <3>1. InsertedRow(sh) = NewRow(r, h)
        BY <2>1 DEF NewRow, NSH
      <3>2. Len(V) + 1 \in Len(table) + 1 .. Len(buffer')
        BY <1>1, <1>3, <1>6
      <3> QED
        BY <3>1, <3>2, <1>3
    <2>2. CASE NSH(h) \in batch[c] /\ NSH(h) # sh
      BY <2>2
    <2>3. CASE NSH(h) \notin batch[c]
      <3>1. PICK i \in Len(table) + 1 .. Len(V) : V[i] = NewRow(r, h)
        BY <2>3, <1>6
      <3>2. i \in 1 .. Len(V) /\ i \in Len(table) + 1 .. Len(buffer')
        BY <1>1, <1>3
      <3> QED
        BY <3>1, <3>2, <1>3
    <2> QED
      BY <2>1, <2>2, <2>3
  <1>12. ASSUME NEW i \in Len(table) + 1 .. Len(V)
         PROVE  buffer'[i] = V[i] /\ buffer'[i] # buffer'[Len(V) + 1]
    <2>1. i \in 1 .. Len(V)
      BY <1>1
    <2>2. PICK h \in r.Handlers : V[i] = NewRow(r, h) /\ NSH(h) \notin batch[c]
      BY <1>6
    <2>3. h # h0
      BY <2>2, <1>5
    <2> QED
      BY <2>1, <2>2, <2>3, <1>3, <1>7, <1>8
  <1>13. ASSUME NEW i \in Len(table) + 1 .. Len(buffer'),
                NEW j \in Len(table) + 1 .. Len(buffer'), buffer'[i] = buffer'[j]
         PROVE  i = j
    <2>1. /\ i = Len(V) + 1 \/ i \in Len(table) + 1 .. Len(V)
          /\ j = Len(V) + 1 \/ j \in Len(table) + 1 .. Len(V)
      BY <1>1, <1>3
    <2> QED
      BY <2>1, <1>12, <1>13, <1>6
  <1> QED
    BY <1>9, <1>10, <1>11, <1>13 DEF PartlyAdded, NSH, r

\* One UPDATE of Unregister keeps what is known of its transaction: rows of the
\* instance are marked dead, and those that are not have their entity left.
LEMMA UpdateKeepsMarked ==
    ASSUME IInv, TypeOK', NEW c \in Calls, pc[c] = "tx", req[c].op = "Unregister",
           NEW sh \in batch[c], buffer' = UpdateStatement(View(c), sh), writer' = c,
           UNCHANGED <<table, req, seen>>, batch'[c] = batch[c] \ {sh}
    PROVE  PartlyMarked(req[c].ServiceId)' /\ Covered(c, View(c))'
  <1> DEFINE id == req[c].ServiceId
             V == View(c)
             k == sh.ServiceMethodId
  <1>1. /\ table \in Seq(Rows) /\ V \in Seq(Rows) /\ buffer' \in Seq(Rows)
        /\ Len(table) \in Nat /\ Len(V) \in Nat /\ Len(buffer') \in Nat
        /\ Len(seen[c]) \in Nat
    BY ViewOnlyDie, LenProperties DEF IInv, TypeOK
  <1>2. sh \in Entities
    BY DEF IInv, TypeOK
  <1>3. /\ Len(buffer') = Len(V)
        /\ \A i \in 1 .. Len(V) : buffer'[i] = IF i = k THEN UpdatedRow(sh) ELSE V[i]
    BY <1>1, <1>2, UpdateStatementType
  <1>4. /\ MarkedEntity(sh, id)
        /\ writer = c => PartlyMarked(id)
        /\ Covered(c, V)
        /\ OnlyDie(seen[c], table)
    BY DEF IInv, CallInv, UnregisterInv, Writing
  <1>5. /\ Len(V) = Len(table)
        /\ \A i \in 1 .. Len(table) :
              \/ V[i] = table[i]
              \/ table[i].InstanceId = id /\ V[i] = [table[i] EXCEPT !.IsAlive = 0]
    BY <1>4 DEF View, PartlyMarked
  <1>6. /\ k \in 1 .. Len(table) /\ table[k].InstanceId = id
        /\ UpdatedRow(sh) = [table[k] EXCEPT !.IsAlive = 0]
        /\ UpdatedRow(sh).IsAlive = 0
    <2>1. k \in 1 .. Len(table) /\ table[k] \in Rows
      BY <1>1, <1>4, ElementOfSeq DEF MarkedEntity
    <2>2. /\ sh.Service = table[k].Service /\ sh.InstanceId = table[k].InstanceId
          /\ sh.Handler = table[k].Handler /\ sh.InstanceId = id
      BY <1>4 DEF MarkedEntity
    <2>3. sh.IsAlive = FALSE
      BY <1>4 DEF MarkedEntity
    <2>4. UpdatedRow(sh) = [Service |-> sh.Service, InstanceId |-> sh.InstanceId,
                            Handler |-> sh.Handler, IsAlive |-> 0]
      BY <2>3, Zenon DEF UpdatedRow
    <2>5. table[k] = [Service |-> table[k].Service, InstanceId |-> table[k].InstanceId,
                      Handler |-> table[k].Handler, IsAlive |-> table[k].IsAlive]
      BY <2>1 DEF Rows
    <2> HIDE DEF k, id
    <2> QED
      BY <2>1, <2>2, <2>4, <2>5
  <1>7. Len(seen[c]) <= Len(table)
    BY <1>4 DEF OnlyDie
  <1> HIDE DEF id, V, k
  <1>8. ASSUME NEW i \in 1 .. Len(table)
        PROVE  \/ buffer'[i] = table[i]
               \/ table[i].InstanceId = id /\ buffer'[i] = [table[i] EXCEPT !.IsAlive = 0]
    BY <1>3, <1>5, <1>6
  <1>9. ASSUME "rows" \notin Faults, NEW i \in 1 .. Len(seen[c]),
               table[i].InstanceId = id
        PROVE  buffer'[i].IsAlive = 0 \/ \E s \in batch'[c] : s.ServiceMethodId = i
    <2>1. i \in 1 .. Len(V)
      BY <1>1, <1>5, <1>7
    <2>2. V[i].IsAlive = 0 \/ \E s \in batch[c] : s.ServiceMethodId = i
      BY <1>4, <1>9 DEF Covered, id
    <2>3. CASE i = k
      BY <2>1, <2>3, <1>3, <1>6
    <2>4. CASE i # k
      BY <2>1, <2>2, <2>4, <1>3 DEF k
    <2> QED
      BY <2>3, <2>4
  <1>10. PartlyMarked(req[c].ServiceId)'
    BY <1>3, <1>5, <1>8 DEF PartlyMarked, id
  <1>11. Covered(c, View(c))'
    BY <1>9 DEF Covered, View, id
  <1> QED
    BY <1>10, <1>11

\* A write statement keeps the invariant.
LEMMA ExecContextStep ==
    ASSUME IInv, TypeOK', NEW c \in Calls, ExecContext(c)
    PROVE  IInv'
  <1> USE DEF IInv
  <1>1. /\ pc[c] = "tx" /\ writer \in {NoCall, c} /\ writer' = c
        /\ UNCHANGED <<up, table, pc, req, reply, seen>>
    BY DEF ExecContext, LockFreeFor
  <1>2. PICK sh \in batch[c] :
           /\ \/ req[c].op = "Register" /\ buffer' = InsertStatement(View(c), sh)
              \/ req[c].op = "Unregister" /\ buffer' = UpdateStatement(View(c), sh)
           /\ batch' = [batch EXCEPT ![c] = @ \ {sh}]
    BY DEF ExecContext
  <1>3. batch'[c] = batch[c] \ {sh} /\ \A d \in Calls : d # c => batch'[d] = batch[d]
    BY <1>2 DEF TypeOK
  <1>4. OnlyDie(table, table)
    BY OnlyDieReflexive DEF TypeOK
  <1>5. CallInv(c)'
    <2>1. RequestInv(c)' /\ OnlyDie(seen[c], table)' /\ AnswerInv(c)'
      BY <1>1 DEF CallInv, RequestInv, Writing, AnswerInv, Acked
    <2>2. RegisterInv(c)'
      <3> SUFFICES ASSUME req[c].op = "Register"
                   PROVE  /\ batch'[c] \subseteq NewServiceHandlers(req[c])
                          /\ PartlyAdded(req[c], batch[c])'
        BY <1>1 DEF RegisterInv, NewServiceHandlers
      <3>1. batch[c] \subseteq NewServiceHandlers(req[c])
        BY <1>1 DEF CallInv, RegisterInv, Writing
      <3> QED
        BY <1>1, <1>2, <1>3, <3>1, InsertKeepsAdded
    <2>3. UnregisterInv(c)'
      <3> SUFFICES ASSUME req[c].op = "Unregister"
                   PROVE  /\ \A s \in batch'[c] : MarkedEntity(s, req[c].ServiceId)
                          /\ PartlyMarked(req[c].ServiceId)'
                          /\ Covered(c, View(c))'
        BY <1>1 DEF UnregisterInv, MarkedEntity
      <3>1. \A s \in batch[c] : MarkedEntity(s, req[c].ServiceId)
        BY <1>1 DEF CallInv, UnregisterInv, Writing
      <3> QED
        BY <1>1, <1>2, <1>3, <3>1, UpdateKeepsMarked
    <2> QED
      BY <2>1, <2>2, <2>3 DEF CallInv
  <1>6. LockHeldInTransaction'
    <2>1. up
      BY <1>1 DEF CallInv, RequestInv
    <2> QED
      BY <1>1, <2>1 DEF LockHeldInTransaction
  <1>7. \A d \in Calls : d # c => writer # d /\ writer' # d
    BY <1>1, CallsAssumption
  <1> QED
    BY <1>1, <1>3, <1>4, <1>5, <1>6, <1>7, OneCall

\* Initially the invariant holds: no call is in progress.
LEMMA InitInv == Init => IInv
  <1> SUFFICES ASSUME Init PROVE IInv
    OBVIOUS
  <1>1. TypeOK
    BY DEF Init, TypeOK, NoReply, Replies
  <1>2. ASSUME NEW c \in Calls
        PROVE  CallInv(c)
    <2>1. pc[c] = "idle" /\ seen[c] = <<>> /\ table = <<>>
      BY DEF Init
    <2>2. OnlyDie(<<>>, <<>>)
      BY OnlyDieReflexive, EmptySeq
    <2> QED
      BY <2>1, <2>2
         DEF CallInv, RequestInv, RegisterInv, UnregisterInv, AnswerInv, Acked, Writing
  <1> QED
    BY <1>1, <1>2 DEF IInv, LockHeldInTransaction, Init

\* Every step of the master preserves the invariant.
LEMMA InvStep == IInv /\ [Next]_vars => IInv'
  <1> SUFFICES ASSUME IInv, [Next]_vars
               PROVE  IInv'
    OBVIOUS
  <1>0. TypeOK'
    BY TypeStep DEF IInv
  <1>1. CASE UNCHANGED vars
    <2>1. OnlyDie(table, table')
      BY <1>1, OnlyDieReflexive DEF vars, IInv, TypeOK
    <2>2. ASSUME NEW c \in Calls
          PROVE  CallInv(c)'
      BY <1>0, <1>1, <2>1, Frame DEF vars, IInv
    <2> QED
      BY <1>0, <1>1, <2>2 DEF vars, IInv, LockHeldInTransaction
  <1>2. ASSUME NEW c \in Calls, Arrive(c)
        PROVE  IInv'
    BY <1>0, <1>2, ArriveStep DEF Arrive
  <1>3. ASSUME NEW c \in Calls, Handle(c)
        PROVE  IInv'
    <2>1. CASE RegisterExecute(c)
      BY <1>0, <2>1, RegisterExecuteStep
    <2>2. CASE UnregisterExecute(c)
      BY <1>0, <2>2, UnregisterExecuteStep
    <2>3. CASE GetAliveServicesExecute(c)
      BY <1>0, <2>3, GetAliveServicesExecuteStep
    <2>4. CASE QueryFails(c)
      BY <1>0, <2>4, QueryFailsStep
    <2>5. CASE BeginTx(c)
      BY <1>0, <2>5, BeginTxStep
    <2>6. CASE BeginFails(c)
      BY <1>0, <2>6, ProcessDiesStep DEF BeginFails
    <2>7. CASE ExecContext(c)
      BY <1>0, <2>7, ExecContextStep
    <2>8. CASE ExecFails(c)
      BY <1>0, <2>8, RollbackStep DEF ExecFails
    <2>9. CASE Commit(c)
      BY <1>0, <2>9, CommitStep
    <2>10. CASE CommitFails(c)
      BY <1>0, <2>10, RollbackStep DEF CommitFails
    <2> QED
      BY <1>3, <2>1, <2>2, <2>3, <2>4, <2>5, <2>6, <2>7, <2>8, <2>9, <2>10 DEF Handle
  <1>4. ASSUME NEW c \in Calls, Return(c)
        PROVE  IInv'
    BY <1>0, <1>4, ReturnStep
  <1>5. CASE Crash
    BY <1>0, <1>5, ProcessDiesStep DEF Crash
  <1>6. CASE Restart
    BY <1>0, <1>6, RestartStep
  <1> QED
    BY <1>1, <1>2, <1>3, <1>4, <1>5, <1>6 DEF Next

\* The invariant holds in every reachable state of the master.
THEOREM InductiveInvariant == Spec => []IInv
  BY InitInv, InvStep, PTL DEF Spec

\* No error path, and no crash, leaves a write lock behind (Rollback and Commit
\* of the repository), for any number of calls.
THEOREM LockDiscipline == Spec => []LockHeldInTransaction
  <1>1. IInv => LockHeldInTransaction
    BY DEF IInv
  <1> QED
    BY <1>1, InductiveInvariant, PTL

\* A Register that was answered OK has its rows in the committed table.
THEOREM RegisterDurable == Spec => []AckedRegisterStored
  <1>1. IInv => AckedRegisterStored
    BY DEF IInv, CallInv, AnswerInv, AckedRegisterStored
  <1> QED
    BY <1>1, InductiveInvariant, PTL

\* Unless result sets may be cut short, an Unregister that was answered OK has
\* left no live row of its instance among those that were there when it arrived.
THEOREM UnregisterEffective ==
    ASSUME "rows" \notin Faults
    PROVE  Spec => []AckedUnregisterDead
  <1>1. IInv => AckedUnregisterDead
    BY DEF IInv, CallInv, AnswerInv, AckedUnregisterDead
  <1> QED
    BY <1>1, InductiveInvariant, PTL

\* Unless result sets may be cut short, an answer of GetServiceHandlers has
\* every address that was there when the call arrived and is still alive.
THEOREM SearchAnswersComplete ==
    ASSUME "rows" \notin Faults
    PROVE  Spec => []SearchComplete
  <1>1. IInv => SearchComplete
    BY DEF IInv, CallInv, AnswerInv, SearchComplete
  <1> QED
    BY <1>1, InductiveInvariant, PTL

\* Only COMMIT changes the table, and what it commits has every row there was,
\* unchanged or marked dead.
LEMMA TableStep == IInv /\ [Next]_vars => OnlyDie(table, table')
  <1> SUFFICES ASSUME IInv, [Next]_vars
               PROVE  OnlyDie(table, table')
    OBVIOUS
  <1>1. OnlyDie(table, table)
    BY OnlyDieReflexive DEF IInv, TypeOK
  <1>2. ASSUME NEW c \in Calls, Commit(c)
        PROVE  OnlyDie(table, table')
    BY <1>2, ViewOnlyDie DEF Commit
  <1>3. CASE UNCHANGED table
    BY <1>1, <1>3
  <1> QED
    BY <1>2, <1>3
       DEF Next, Arrive, Handle, Dispatch, Refuse, RegisterExecute, UnregisterExecute,
           GetAliveServicesExecute, QueryFails, BeginTx, BeginFails, ExecContext,
           ExecFails, CommitFails, RollbackAndFail, ProcessDies, Return, Crash, Restart,
           vars

\* No lost row, no resurrection, in any behaviour of the master.
THEOREM RowsNeverRevive == Spec => RowsOnlyDie
  <1>1. IInv /\ [Next]_vars => [OnlyDie(table, table')]_vars
    BY TableStep
  <1> QED
    BY <1>1, InductiveInvariant, PTL DEF Spec, RowsOnlyDie
=============================================================================
