----------------------------- MODULE DiscoveryRpc -----------------------------
(***************************************************************************)
(* A unary call of DiscoveryService from the caller's stub to the caller's *)
(* stub: the client interceptor, the message on the wire, the generated    *)
(* handler, the server's logging interceptor around the use case, and the  *)
(* way back.  Agents call Register and Unregister, the gateway Search.     *)
(*                                                                         *)
(* The use cases are those of ServiceRegistry, which the master implements *)
(* (DiscoveryMasterRefinement): the registry's variables are the server's  *)
(* side of a call here.  gRPC and the network are external.                *)
(***************************************************************************)
EXTENDS DiscoveryMessages

CONSTANTS
    Calls,       \* the calls that can be in progress at one time
    MaxRows,     \* the rows the disk holds: a Register past it fails
    RpcFaults    \* the failures that may happen, a subset of RpcFaultKinds

RpcFaultKinds == {"crash",    \* the master's process ends
                  "lose",     \* a request, a reply or the connection is lost
                  "garble"}   \* a request cannot be decoded

ASSUME MaxRowsAssumption == MaxRows \in Nat
ASSUME RpcFaultsAssumption == RpcFaults \subseteq RpcFaultKinds

VARIABLES
    table, stage, req, reply, seen,   \* the registry, see ServiceRegistry
    up,        \* the master listens
    path,      \* how far each call has come
    sent,      \* the request that the caller passed to its stub
    sentAt,    \* history: the table when it did
    packet,    \* the request on the wire
    lines,     \* what the master has logged about the call
    result     \* what goes back to the caller

Server == INSTANCE ServiceRegistry

registryVars == <<table, stage, req, reply, seen>>
rpcVars == <<registryVars, up, path, sent, sentAt, packet, lines, result>>

\* A correlation id is a fresh uuid for each call: the call itself here.  The
\* key is the header it travels in.
NoId == "no id"
Headers == [key : {"correlation-id", "correlation_id"}, id : Calls]
Packets == [method : DOMAIN HandlerOf, header : Headers,
            body : {Marshal(r) : r \in Requests}, garbled : BOOLEAN]
NoPacket == [method |-> "none", header |-> "none", body |-> <<>>, garbled |-> FALSE]
Lines == [what : {"called", "Error when calling", "Duration"}, id : Calls \cup {NoId}]

\* How far a call has come.  At the master it is in the use case, or past the error
\* line of the interceptor; an orphan there has lost its caller.
Positions == {"idle", "wire", "handler", "orphan", "erred", "erredOrphan", "served"}

RpcTypeOK ==
    /\ table \in Seq(Rows)
    /\ stage \in [Calls -> {"idle", "waiting", "answered"}]
    /\ req \in [Calls -> Requests \cup {NoRequest}]
    /\ reply \in [Calls -> Replies]
    /\ seen \in [Calls -> Seq(Rows)]
    /\ up \in BOOLEAN
    /\ path \in [Calls -> Positions]
    /\ sent \in [Calls -> Requests \cup {NoRequest}]
    /\ sentAt \in [Calls -> Seq(Rows)]
    /\ packet \in [Calls -> Packets \cup {NoPacket}]
    /\ lines \in [Calls -> Seq(Lines)]
    /\ result \in [Calls -> Replies]

RpcInit ==
    /\ Server!Init
    /\ up = TRUE
    /\ path = [c \in Calls |-> "idle"]
    /\ sent = [c \in Calls |-> NoRequest]
    /\ sentAt = [c \in Calls |-> <<>>]
    /\ packet = [c \in Calls |-> NoPacket]
    /\ lines = [c \in Calls |-> <<>>]
    /\ result = [c \in Calls |-> NoReply]

Error == [status |-> "ERR", Services |-> {}]

Served(c, r) ==
    /\ path' = [path EXCEPT ![c] = "served"]
    /\ result' = [result EXCEPT ![c] = r]

(***************************************************************************)
(* The caller's side.                                                      *)
(***************************************************************************)

\* Faulty variant: the interceptor draws its id when it is made.
CorrelateOnce(c, r) ==
    [key |-> IF r.op = "Search" THEN "correlation_id" ELSE "correlation-id",
     id |-> CHOOSE d \in Calls : TRUE]

\* The agent's interceptor and the gateway's GetCallOptions: a fresh id in the
\* outgoing metadata, under keys that differ.
Correlate(c, r) ==
    [key |-> IF r.op = "Search" THEN "correlation_id" ELSE "correlation-id", id |-> c]

\* The stub invokes its method.  Without a server the call fails at once.
Invoke(c, r) ==
    /\ path[c] = "idle"
    /\ sent' = [sent EXCEPT ![c] = r]
    /\ sentAt' = [sentAt EXCEPT ![c] = table]
    /\ \/ /\ up
          /\ \E g \in BOOLEAN :
                /\ g => "garble" \in RpcFaults
                /\ packet' = [packet EXCEPT ![c] =
                      [method |-> MethodOf[r.op], header |-> Correlate(c, r),
                       body |-> Marshal(r), garbled |-> g]]
          /\ path' = [path EXCEPT ![c] = "wire"]
          /\ UNCHANGED result
       \/ /\ ~up
          /\ Served(c, Error)
          /\ UNCHANGED packet
    /\ UNCHANGED <<registryVars, up, lines>>

\* The request does not reach the server, its reply does not reach the caller, or
\* the connection ends in between: use cases run under context.Background(), so
\* the handler goes on for a caller that has its error.
Lose(c) ==
    /\ "lose" \in RpcFaults
    /\ path[c] \in {"wire", "handler", "erred", "served"}
    /\ path' = [path EXCEPT ![c] = CASE @ = "handler" -> "orphan"
                                     [] @ = "erred" -> "erredOrphan"
                                     [] OTHER -> "served"]
    /\ result' = [result EXCEPT ![c] = Error]
    /\ UNCHANGED <<registryVars, up, sent, sentAt, packet, lines>>

\* The stub returns the message or the error; the call is over on both sides.
Return(c) ==
    /\ path[c] = "served"
    /\ path' = [path EXCEPT ![c] = "idle"]
    /\ sent' = [sent EXCEPT ![c] = NoRequest]
    /\ sentAt' = [sentAt EXCEPT ![c] = <<>>]
    /\ packet' = [packet EXCEPT ![c] = NoPacket]
    /\ lines' = [lines EXCEPT ![c] = <<>>]
    /\ result' = [result EXCEPT ![c] = NoReply]
    /\ IF stage[c] = "answered" THEN Server!Hangup(c) ELSE UNCHANGED registryVars
    /\ UNCHANGED up

(***************************************************************************)
(* The master's side.                                                      *)
(***************************************************************************)

\* ServerInterceptor reads one header only.
IdOf(c) == IF packet[c].header.key = "correlation-id" THEN packet[c].header.id ELSE NoId

Line(c, what) == [what |-> what, id |-> IdOf(c)]

\* The generated handler decodes the message and calls the interceptor, which
\* logs the call and goes on to the use case.
Handle(c) ==
    /\ path[c] = "wire"
    /\ ~packet[c].garbled
    /\ Server!Ask(c, Unmarshal(HandlerOf[packet[c].method], packet[c].body))
    /\ lines' = [lines EXCEPT ![c] = Append(@, Line(c, "called"))]
    /\ path' = [path EXCEPT ![c] = "handler"]
    /\ UNCHANGED <<up, sent, sentAt, packet, result>>

\* dec fails: the handler returns before it gets to the interceptor.
DecodeFails(c) ==
    /\ path[c] = "wire"
    /\ packet[c].garbled
    /\ Served(c, Error)
    /\ UNCHANGED <<registryVars, up, sent, sentAt, packet, lines>>

\* The tables that the disk has room for after the table.
Grown == UNION {[1 .. n -> Rows] : n \in Len(table) .. MaxRows}

\* The use case answers, or fails.
Execute(c) ==
    /\ path[c] \in {"handler", "orphan"}
    /\ stage[c] = "waiting"
    /\ \/ /\ req[c].op # "Search"
          /\ \E t \in Grown : table' = t
          /\ Server!Register(c) \/ Server!Unregister(c)
       \/ Server!Search(c)
       \/ Server!Fail({c})
    /\ UNCHANGED <<up, path, sent, sentAt, packet, lines, result>>

\* The use case has returned an error, and the interceptor logs it.
InterceptorLogsError(c) ==
    /\ path[c] \in {"handler", "orphan"}
    /\ stage[c] = "answered"
    /\ reply[c].status = "ERR"
    /\ path' = [path EXCEPT ![c] = IF @ = "handler" THEN "erred" ELSE "erredOrphan"]
    /\ lines' = [lines EXCEPT ![c] = Append(@, Line(c, "Error when calling"))]
    /\ UNCHANGED <<registryVars, up, sent, sentAt, packet, result>>

\* The interceptor is past its check for an error.
Checked(c) ==
    \/ path[c] \in {"handler", "orphan"} /\ stage[c] = "answered" /\ reply[c].status = "OK"
    \/ path[c] \in {"erred", "erredOrphan"}

Orphaned(c) == path[c] \in {"orphan", "erredOrphan"}

\* Faulty variant: the interceptor returns the message without the error.
InterceptorDropsError(c) ==
    /\ Checked(c)
    /\ lines' = [lines EXCEPT ![c] = Append(@, Line(c, "Duration"))]
    /\ Served(c, IF Orphaned(c) THEN result[c] ELSE [reply[c] EXCEPT !.status = "OK"])
    /\ UNCHANGED <<registryVars, up, sent, sentAt, packet>>

\* The interceptor logs the duration and returns what the use case returned, if to
\* anybody.
InterceptorReturns(c) ==
    /\ Checked(c)
    /\ lines' = [lines EXCEPT ![c] = Append(@, Line(c, "Duration"))]
    /\ Served(c, IF Orphaned(c) THEN result[c] ELSE reply[c])
    /\ UNCHANGED <<registryVars, up, sent, sentAt, packet>>

\* The process is killed or a use case panics, which no interceptor recovers:
\* every call that it has not answered fails at its caller.
ProcessEnds ==
    /\ "crash" \in RpcFaults
    /\ up
    /\ up' = FALSE
    /\ Server!Fail({c \in Calls : stage[c] # "idle"})
    /\ path' = [c \in Calls |-> IF path[c] = "idle" THEN "idle" ELSE "served"]
    /\ result' = [c \in Calls |-> IF path[c] = "idle" THEN result[c] ELSE Error]
    /\ UNCHANGED <<sent, sentAt, packet, lines>>

\* main opens the database file as the last process left it and listens.
Start ==
    /\ ~up
    /\ up' = TRUE
    /\ UNCHANGED <<registryVars, path, sent, sentAt, packet, lines, result>>

RpcNext ==
    \/ \E c \in Calls :
          \/ \E r \in Requests : Invoke(c, r)
          \/ Lose(c) \/ Return(c)
          \/ Handle(c) \/ DecodeFails(c) \/ Execute(c)
          \/ InterceptorLogsError(c) \/ InterceptorReturns(c)
    \/ ProcessEnds
    \/ Start

RpcSpec == RpcInit /\ [][RpcNext]_rpcVars

-----------------------------------------------------------------------------
(***************************************************************************)
(* Properties.                                                             *)
(***************************************************************************)
Logged(c) == [i \in DOMAIN lines[c] |-> lines[c][i].what]

\* The master's log tells what became of a call: a caller that is answered OK
\* finds the call logged without an error, and a Register that is logged without
\* an error is stored, whether or not its caller ever got the answer.
LogTellsOutcome ==
    \A c \in Calls :
        /\ path[c] = "served" /\ result[c].status = "OK" =>
              Logged(c) = <<"called", "Duration">>
        /\ Logged(c) = <<"called", "Duration">> /\ sent[c].op = "Register" =>
              \A h \in sent[c].Handlers :
                 \E i \in 1 .. Len(table) :
                    /\ i > Len(sentAt[c])
                    /\ table[i].InstanceId = sent[c].ServiceId
                    /\ table[i].Handler = h

\* All lines about an agent's call carry the id that the agent drew for this
\* call, however the calls overlap.
AgentCallsTraceable ==
    \A c \in Calls : sent[c].op \in {"Register", "Unregister"} =>
        \A i \in DOMAIN lines[c] : lines[c][i].id = c

\* What callers see through their stubs is the atomic registry: encoding,
\* dispatch, both interceptors, lost messages and the end of the process are
\* invisible but for calls that fail.  A call whose connection ended counts as
\* waiting while its handler runs: it may take effect after its caller's error.
ClientStage ==
    [c \in Calls |->
        IF path[c] = "idle" THEN "idle"
        ELSE IF path[c] = "served" \/ stage[c] = "answered" THEN "answered" ELSE "waiting"]
Outcome == [c \in Calls |-> IF path[c] = "served" THEN result[c] ELSE reply[c]]

Client == INSTANCE ServiceRegistry
          WITH stage <- ClientStage, req <- sent, reply <- Outcome, seen <- sentAt

CallersSeeRegistry == Client!Spec
=============================================================================
