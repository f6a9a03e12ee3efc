--------------------------- MODULE DiscoveryMaster ---------------------------
(***************************************************************************)
(* The discovery master: a gRPC server with one goroutine per call, over   *)
(* one SQLite table, ServiceHandler.                                       *)
(*                                                                         *)
(* A call is a slot of Calls.  Its goroutine is dispatched by the gRPC     *)
(* server, runs the use case of its request and returns a reply.  The      *)
(* steps of one call that other calls can tell apart are actions of their  *)
(* own: the SELECT that Unregister makes outside its transaction, every    *)
(* INSERT or UPDATE, the COMMIT.  SQLite (external) lets readers see the   *)
(* committed table only, and lets one transaction at a time write: the     *)
(* first write statement of a transaction takes the lock, which is held    *)
(* until COMMIT or ROLLBACK; a statement that waits longer than the busy   *)
(* timeout fails.                                                          *)
(***************************************************************************)
EXTENDS DiscoveryData, FiniteSets

CONSTANTS
    Calls,      \* the calls that can be in progress at one time
    NoCall,     \* "no transaction holds the write lock"
    Faults,     \* the failures that may happen, a subset of FaultKinds
    MaxRows     \* the rows the disk holds: an INSERT past it fails

FaultKinds == {"query",   \* db.Query returns an error
               "rows",    \* the result set ends early: Next() is false, Err() is set
               "begin",   \* BeginTx returns an error
               "busy",    \* the busy timeout runs out while another call writes
               "exec",    \* a write statement fails for another reason
               "commit",  \* COMMIT fails
               "crash"}   \* the process is killed

ASSUME CallsAssumption == NoCall \notin Calls
ASSUME FaultsAssumption == Faults \subseteq FaultKinds
ASSUME MaxRowsAssumption == MaxRows \in Nat

\* entity.ServiceHandler
Entities == [ServiceMethodId : Nat, Service : Urls, InstanceId : Instances,
             Handler : Handlers, IsAlive : BOOLEAN]

VARIABLES
    up,      \* the process runs
    table,   \* the committed rows of ServiceHandler
    writer,  \* the call whose transaction holds the write lock, or NoCall
    buffer,  \* the table as the writer's transaction sees it, <<>> without one
    pc,      \* where each call's goroutine is
    req,     \* the request of each call
    batch,   \* the entities that the call's transaction has still to write
    reply,   \* what the call answers
    seen     \* history: the committed table when the call was dispatched

vars == <<up, table, writer, buffer, pc, req, batch, reply, seen>>

TypeOK ==
    /\ up \in BOOLEAN
    /\ table \in Seq(Rows)
    /\ writer \in Calls \cup {NoCall}
    /\ buffer \in Seq(Rows)
    /\ pc \in [Calls -> {"idle", "dispatched", "begin", "tx", "returned"}]
    /\ req \in [Calls -> Requests \cup {NoRequest}]
    /\ batch \in [Calls -> SUBSET Entities]
    /\ reply \in [Calls -> Replies]
    /\ seen \in [Calls -> Seq(Rows)]

\* main opens the database file, which the image ships with an empty table.
Init ==
    /\ up = TRUE
    /\ table = <<>>
    /\ writer = NoCall
    /\ buffer = <<>>
    /\ pc = [c \in Calls |-> "idle"]
    /\ req = [c \in Calls |-> NoRequest]
    /\ batch = [c \in Calls |-> {}]
    /\ reply = [c \in Calls |-> NoReply]
    /\ seen = [c \in Calls |-> <<>>]

(***************************************************************************)
(* The entity and the statements of the repository.                        *)
(***************************************************************************)
NewServiceHandler(service, instanceId, handler) ==
    [ServiceMethodId |-> 0, Service |-> service, InstanceId |-> instanceId,
     Handler |-> handler, IsAlive |-> TRUE]

\* Faulty variant: a value receiver marks a copy.
MarkAsNotAliveCopy(sh) == sh

MarkAsNotAlive(sh) == [sh EXCEPT !.IsAlive = FALSE]

\* A row scanned into an entity: the BIT column becomes a bool.
Scan(t, i) ==
    [ServiceMethodId |-> i, Service |-> t[i].Service,
     InstanceId |-> t[i].InstanceId, Handler |-> t[i].Handler,
     IsAlive |-> t[i].IsAlive = 1]

\* The columns a statement binds: Insert writes the literal 1 for IsAlive,
\* Update the entity's bool.
InsertedRow(sh) ==
    [Service |-> sh.Service, InstanceId |-> sh.InstanceId,
     Handler |-> sh.Handler, IsAlive |-> 1]
UpdatedRow(sh) ==
    [Service |-> sh.Service, InstanceId |-> sh.InstanceId,
     Handler |-> sh.Handler, IsAlive |-> IF sh.IsAlive THEN 1 ELSE 0]

InsertStatement(t, sh) == Append(t, InsertedRow(sh))
\* Faulty variant: the UPDATE without its WHERE clause.
UpdateWithoutWhere(t, sh) == [i \in DOMAIN t |-> UpdatedRow(sh)]

UpdateStatement(t, sh) == [t EXCEPT ![sh.ServiceMethodId] = UpdatedRow(sh)]

\* The SELECTs scan the table in ServiceMethodId order.  results.Err() is not
\* read after the loop, so a scan that an error stops after n rows is taken
\* for the whole answer.
ScannedRows == IF "rows" \in Faults THEN 0 .. Len(table) ELSE {Len(table)}

GetByServiceId(serviceId, n) ==
    {Scan(table, i) : i \in {j \in 1 .. n : table[j].InstanceId = serviceId}}

\* Faulty variants: the wrong column; an address is hidden by a dead row.
GetAliveInstances(handler, n) ==
    {table[i].InstanceId :
        i \in {j \in 1 .. n : table[j].Handler = handler /\ table[j].IsAlive = 1}}
GetNeverDeadServices(handler, n) ==
    {u \in Urls : \E i \in 1 .. n :
        /\ table[i].Service = u /\ table[i].Handler = handler
        /\ \A j \in 1 .. n : table[j].Service = u => table[j].IsAlive = 1}

GetAliveServices(handler, n) ==
    {table[i].Service :
        i \in {j \in 1 .. n : /\ table[j].Handler = handler
                              /\ table[j].IsAlive = 1}}

(***************************************************************************)
(* Steps common to several actions.                                        *)
(***************************************************************************)
Goto(c, place) == pc' = [pc EXCEPT ![c] = place]

Finish(c, status, services) ==
    /\ Goto(c, "returned")
    /\ reply' = [reply EXCEPT ![c] = [status |-> status, Services |-> services]]

\* What call c sees of the table inside its transaction.
View(c) == IF writer = c THEN buffer ELSE table

LockFreeFor(c) == writer \in {NoCall, c}

\* COMMIT or ROLLBACK releases the write lock, if c has it.
ReleaseLock(c) ==
    /\ writer' = IF writer = c THEN NoCall ELSE writer
    /\ buffer' = IF writer = c THEN <<>> ELSE buffer

\* Faulty variant: the error is returned without tx.Rollback().
FailWithoutRollback(c) ==
    /\ batch' = [batch EXCEPT ![c] = {}]
    /\ Finish(c, "ERR", {})
    /\ UNCHANGED <<up, table, writer, buffer, req, seen>>

\* tx.Rollback() and return err: nothing the transaction wrote is kept.
RollbackAndFail(c) ==
    /\ ReleaseLock(c)
    /\ batch' = [batch EXCEPT ![c] = {}]
    /\ Finish(c, "ERR", {})
    /\ UNCHANGED <<up, table, req, seen>>

\* The process ends.  The open transaction is rolled back by the journal when
\* the file is next opened; every call whose reply has not left the process is
\* answered with an error by its client's gRPC library.
ProcessDies ==
    /\ up' = FALSE
    /\ writer' = NoCall
    /\ buffer' = <<>>
    /\ pc' = [c \in Calls |-> IF pc[c] = "idle" THEN "idle" ELSE "returned"]
    /\ reply' = [c \in Calls |-> IF pc[c] = "idle" THEN reply[c]
                                 ELSE [status |-> "ERR", Services |-> {}]]
    /\ batch' = [c \in Calls |-> {}]
    /\ UNCHANGED <<table, req, seen>>

(***************************************************************************)
(* The gRPC server and the three use cases.                                *)
(***************************************************************************)

\* A request arrives and the server starts a goroutine for it.
Dispatch(c, r) ==
    /\ up
    /\ pc[c] = "idle"
    /\ Goto(c, "dispatched")
    /\ req' = [req EXCEPT ![c] = r]
    /\ seen' = [seen EXCEPT ![c] = table]
    /\ UNCHANGED <<up, table, writer, buffer, batch, reply>>

\* Nobody listens: the client's call fails at once, it does not wait for a
\* connection.
Refuse(c, r) ==
    /\ ~up
    /\ pc[c] = "idle"
    /\ Finish(c, "ERR", {})
    /\ req' = [req EXCEPT ![c] = r]
    /\ seen' = [seen EXCEPT ![c] = table]
    /\ UNCHANGED <<up, table, writer, buffer, batch>>

\* RegisterServiceUseCase.Execute up to repo.Insert
RegisterExecute(c) ==
    /\ pc[c] = "dispatched"
    /\ req[c].op = "Register"
    /\ batch' = [batch EXCEPT ![c] =
                    {NewServiceHandler(req[c].Service, req[c].ServiceId, h) :
                        h \in req[c].Handlers}]
    /\ Goto(c, "begin")
    /\ UNCHANGED <<up, table, writer, buffer, req, reply, seen>>

MarkedHandlers(serviceId, n) ==
    {MarkAsNotAlive(sh) : sh \in GetByServiceId(serviceId, n)}

\* UnregisterServiceUseCase.Execute up to repo.Update: the SELECT runs on a
\* connection of its own, before the transaction begins.
UnregisterExecute(c) ==
    /\ pc[c] = "dispatched"
    /\ req[c].op = "Unregister"
    /\ \E n \in ScannedRows :
          batch' = [batch EXCEPT ![c] = MarkedHandlers(req[c].ServiceId, n)]
    /\ Goto(c, "begin")
    /\ UNCHANGED <<up, table, writer, buffer, req, reply, seen>>

\* GetAliveServicesUseCase.Execute
GetAliveServicesExecute(c) ==
    /\ pc[c] = "dispatched"
    /\ req[c].op = "Search"
    /\ \E n \in ScannedRows :
          Finish(c, "OK", GetAliveServices(req[c].ServiceDefinition, n))
    /\ UNCHANGED <<up, table, writer, buffer, req, batch, seen>>

\* db.Query returns an error and the use case returns it.  Scan cannot fail after a
\* Query that succeeded: no column of a row is NULL, IsAlive is always written as 0
\* or 1, and no context ends.
QueryFails(c) ==
    /\ "query" \in Faults
    /\ pc[c] = "dispatched"
    /\ req[c].op \in {"Unregister", "Search"}
    /\ Finish(c, "ERR", {})
    /\ UNCHANGED <<up, table, writer, buffer, req, batch, seen>>

\* BEGIN is deferred: it takes no lock.
BeginTx(c) ==
    /\ pc[c] = "begin"
    /\ Goto(c, "tx")
    /\ UNCHANGED <<up, table, writer, buffer, req, batch, reply, seen>>

\* The error of BeginTx is dropped: the nil *Tx panics at its first use, no
\* interceptor recovers, and the whole process goes down.
BeginFails(c) ==
    /\ "begin" \in Faults
    /\ pc[c] = "begin"
    /\ ProcessDies

\* Faulty variant: the statements run on the database, not in the transaction.
ExecAutocommit(c) ==
    /\ pc[c] = "tx"
    /\ LockFreeFor(c)
    /\ \E sh \in batch[c] :
          /\ \/ /\ req[c].op = "Register"
                /\ Len(table) < MaxRows
                /\ table' = InsertStatement(table, sh)
             \/ /\ req[c].op = "Unregister"
                /\ table' = UpdateStatement(table, sh)
          /\ batch' = [batch EXCEPT ![c] = @ \ {sh}]
    /\ UNCHANGED <<up, writer, buffer, pc, req, reply, seen>>

\* One turn of the loop of Insert or Update.  The statements of a transaction
\* are seen by others all at once or never, so their order is left open.
ExecContext(c) ==
    /\ pc[c] = "tx"
    /\ LockFreeFor(c)
    /\ \E sh \in batch[c] :
          /\ \/ /\ req[c].op = "Register"
                /\ Len(View(c)) < MaxRows
                /\ buffer' = InsertStatement(View(c), sh)
             \/ /\ req[c].op = "Unregister"
                /\ buffer' = UpdateStatement(View(c), sh)
          /\ batch' = [batch EXCEPT ![c] = @ \ {sh}]
    /\ writer' = c
    /\ UNCHANGED <<up, table, pc, req, reply, seen>>

\* Faulty variant: a statement waits for the lock without a timeout.
ExecFailsNotBusy(c) ==
    /\ pc[c] = "tx"
    /\ batch[c] # {}
    /\ \/ LockFreeFor(c) /\ req[c].op = "Register" /\ Len(View(c)) >= MaxRows
       \/ "exec" \in Faults /\ LockFreeFor(c)
    /\ RollbackAndFail(c)

\* The statement waits for the writer longer than the busy timeout, the disk
\* is full, or it fails otherwise.
ExecFails(c) ==
    /\ pc[c] = "tx"
    /\ batch[c] # {}
    /\ \/ "busy" \in Faults /\ ~LockFreeFor(c)
       \/ LockFreeFor(c) /\ req[c].op = "Register" /\ Len(View(c)) >= MaxRows
       \/ "exec" \in Faults /\ LockFreeFor(c)
    /\ RollbackAndFail(c)

\* tx.Commit() succeeds and the use case answers.  A transaction that wrote
\* nothing has no lock and commits nothing.
Commit(c) ==
    /\ pc[c] = "tx"
    /\ batch[c] = {}
    /\ table' = View(c)
    /\ ReleaseLock(c)
    /\ Finish(c, "OK", {})
    /\ UNCHANGED <<up, req, batch, seen>>

\* Faulty variant: the error of tx.Commit() is dropped.
CommitErrorDropped(c) ==
    /\ "commit" \in Faults
    /\ pc[c] = "tx"
    /\ batch[c] = {}
    /\ ReleaseLock(c)
    /\ Finish(c, "OK", {})
    /\ UNCHANGED <<up, table, req, batch, seen>>

CommitFails(c) ==
    /\ "commit" \in Faults
    /\ pc[c] = "tx"
    /\ batch[c] = {}
    /\ RollbackAndFail(c)

\* The client has its answer; the slot is free for another call.
Return(c) ==
    /\ pc[c] = "returned"
    /\ Goto(c, "idle")
    /\ req' = [req EXCEPT ![c] = NoRequest]
    /\ reply' = [reply EXCEPT ![c] = NoReply]
    /\ seen' = [seen EXCEPT ![c] = <<>>]
    /\ UNCHANGED <<up, table, writer, buffer, batch>>

Crash ==
    /\ "crash" \in Faults
    /\ up
    /\ ProcessDies

\* restart: always
Restart ==
    /\ ~up
    /\ up' = TRUE
    /\ UNCHANGED <<table, writer, buffer, pc, req, batch, reply, seen>>

\* The goroutine of call c runs the use case.
Handle(c) ==
    \/ RegisterExecute(c) \/ UnregisterExecute(c) \/ GetAliveServicesExecute(c)
    \/ QueryFails(c)
    \/ BeginTx(c) \/ BeginFails(c)
    \/ ExecContext(c) \/ ExecFails(c)
    \/ Commit(c) \/ CommitFails(c)

Arrive(c) == \E r \in Requests : Dispatch(c, r) \/ Refuse(c, r)

Next ==
    \/ \E c \in Calls : Arrive(c) \/ Handle(c) \/ Return(c)
    \/ Crash
    \/ Restart

Spec == Init /\ [][Next]_vars

\* Every goroutine that can run keeps running, and the orchestrator restarts
\* the process.  Nothing obliges a client to call.
FairSpec ==
    /\ Spec
    /\ \A c \in Calls : WF_vars(Handle(c)) /\ WF_vars(Return(c))
    /\ WF_vars(Restart)

-----------------------------------------------------------------------------
(***************************************************************************)
(* Properties.                                                             *)
(***************************************************************************)

\* The write lock belongs to a transaction that is open in a running process:
\* no error path of Insert or Update, and no crash, leaves it behind.  A lock
\* left behind would fail every later Register and Unregister as busy.
LockHeldInTransaction ==
    writer # NoCall => up /\ pc[writer] = "tx"

Acked(c, op) == pc[c] = "returned" /\ reply[c].status = "OK" /\ req[c].op = op

StoredFor(c, h) ==
    \E i \in Len(seen[c]) + 1 .. Len(table) :
        /\ table[i].Service = req[c].Service
        /\ table[i].InstanceId = req[c].ServiceId
        /\ table[i].Handler = h

\* A Register answered OK has stored a row of its own for every handler of the
\* request, whatever other calls, failures and crashes came between.
AckedRegisterStored ==
    \A c \in Calls : Acked(c, "Register") => \A h \in req[c].Handlers : StoredFor(c, h)

\* After an Unregister is answered OK, no row of its instance that was stored
\* when the call arrived is alive, though the rows were read outside the
\* transaction that wrote them back.
AckedUnregisterDead ==
    \A c \in Calls : Acked(c, "Unregister") =>
        \A i \in 1 .. Len(seen[c]) :
            table[i].InstanceId = req[c].ServiceId => table[i].IsAlive = 0

\* GetServiceHandlers answers OK only with the whole list: every address that
\* was registered for the handler when the call arrived and is still alive is
\* in it.
SearchComplete ==
    \A c \in Calls : Acked(c, "Search") =>
        \A i \in 1 .. Len(seen[c]) :
            /\ table[i].Handler = req[c].ServiceDefinition
            /\ table[i].IsAlive = 1
            => table[i].Service \in reply[c].Services

\* The rows of old are in new, each unchanged or marked dead.
OnlyDie(old, new) ==
    /\ Len(old) <= Len(new)
    /\ \A i \in 1 .. Len(old) :
          new[i] = old[i] \/ new[i] = [old[i] EXCEPT !.IsAlive = 0]

\* Stored rows are for ever: no step removes one, changes what it says, or
\* brings a dead one back to life, although Update writes back every column
\* from an earlier read.
RowsOnlyDie == [][OnlyDie(table, table')]_vars

\* Every call that is dispatched is answered.
CallsReturn ==
    \A c \in Calls : pc[c] = "dispatched" ~> pc[c] = "returned"

\* The master implements the atomic registry, as long as no result set is cut
\* short: transactions, lock waits, failures and crashes are invisible.
Stage == [c \in Calls |-> IF pc[c] = "idle" THEN "idle"
                          ELSE IF pc[c] = "returned" THEN "answered" ELSE "waiting"]

Registry == INSTANCE ServiceRegistry WITH stage <- Stage

ImplementsRegistry == Registry!Spec
=============================================================================
