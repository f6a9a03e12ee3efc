-------------------------- MODULE DiscoveryRpcProofs --------------------------
(***************************************************************************)
(* Proofs about DiscoveryRpc: what a request is on both sides of the wire, *)
(* the invariant of a call, and that callers see the atomic registry.      *)
(***************************************************************************)
EXTENDS DiscoveryRpc, SequenceTheorems, TLAPS

-----------------------------------------------------------------------------
(* The wire. *)

\* Each field of a message has a number of its own.
LEMMA Fields ==
    /\ FieldsOf("Search") = {"ServiceDefinition"}
    /\ FieldsOf("Register") = {"Service", "ServiceId", "Handlers"}
    /\ FieldsOf("Unregister") = {"ServiceId"}
    /\ \A op \in {"Search", "Register", "Unregister"} : \A f, g \in FieldsOf(op) :
          FieldNumber[op][f] = FieldNumber[op][g] => f = g
  BY DEF FieldsOf, FieldNumber

\* What is in an encoded message: the fields that do not have their zero value.
LEMMA Encoded ==
    ASSUME NEW r, r.op \in {"Search", "Register", "Unregister"}, NEW f \in FieldsOf(r.op)
    PROVE  /\ FieldNumber[r.op][f] \in DOMAIN Marshal(r) <=> r[f] # ZeroRequest[r.op][f]
           /\ FieldNumber[r.op][f] \in DOMAIN Marshal(r) =>
                 Marshal(r)[FieldNumber[r.op][f]] = r[f]
  <1> DEFINE number == FieldNumber[r.op]
             present == {g \in FieldsOf(r.op) : r[g] # ZeroRequest[r.op][g]}
             chosen(n) == CHOOSE g \in present : number[g] = n
  <1>1. Marshal(r) = [n \in {number[g] : g \in present} |-> r[chosen(n)]]
    BY DEF Marshal
  <1>2. \A g \in FieldsOf(r.op) : number[f] = number[g] => f = g
    BY Fields
  <1>3. number[f] \in {number[g] : g \in present} <=> f \in present
    BY <1>2
  <1>4. f \in present => chosen(number[f]) = f
    BY <1>2
  <1> HIDE DEF number, present, chosen
  <1>5. number[f] \in DOMAIN Marshal(r) <=> f \in present
    BY <1>1, <1>3
  <1>6. number[f] \in DOMAIN Marshal(r) => Marshal(r)[number[f]] = r[f]
    BY <1>1, <1>3, <1>4, <1>5
  <1> QED
    BY <1>5, <1>6 DEF number, present

\* Every field comes back: sent, or not sent because it is zero.
LEMMA Decoded ==
    ASSUME NEW r, r.op \in {"Search", "Register", "Unregister"}
    PROVE  Unmarshal(r.op, Marshal(r)) = [f \in FieldsOf(r.op) \cup {"op"} |-> r[f]]
  <1>1. "op" \notin FieldsOf(r.op)
    BY Fields
  <1>2. /\ ZeroRequest["Search"]["op"] = "Search"
        /\ ZeroRequest["Register"]["op"] = "Register"
        /\ ZeroRequest["Unregister"]["op"] = "Unregister"
    BY DEF ZeroRequest, ZeroSearchRequest, ZeroRegisterRequest, ZeroUnregisterRequest
  <1>3. ASSUME NEW f \in FieldsOf(r.op) \cup {"op"}
        PROVE  (IF f # "op" /\ FieldNumber[r.op][f] \in DOMAIN Marshal(r)
                THEN Marshal(r)[FieldNumber[r.op][f]]
                ELSE ZeroRequest[r.op][f]) = r[f]
    BY <1>1, <1>2, Encoded
  <1> QED
    BY <1>3 DEF Unmarshal

\* The server decodes the request that the caller encoded, and the method that a
\* stub calls leads to the handler for the message that the stub sends
\* (discovery_grpc.pb.go:34-59, 97-173).
THEOREM RequestArrivesAsSent ==
    ASSUME NEW r \in Requests
    PROVE  Unmarshal(HandlerOf[MethodOf[r.op]], Marshal(r)) = r
  <1>1. CASE r \in SearchRequests
    <2>1. r = [f \in {"ServiceDefinition"} \cup {"op"} |-> r[f]] /\ r.op = "Search"
      BY <1>1 DEF SearchRequests
    <2> QED
      BY <2>1, Decoded, Fields DEF HandlerOf, MethodOf
  <1>2. CASE r \in RegisterRequests
    <2>1. /\ r = [f \in {"Service", "ServiceId", "Handlers"} \cup {"op"} |-> r[f]]
          /\ r.op = "Register"
      BY <1>2 DEF RegisterRequests
    <2> QED
      BY <2>1, Decoded, Fields DEF HandlerOf, MethodOf
  <1>3. CASE r \in UnregisterRequests
    <2>1. r = [f \in {"ServiceId"} \cup {"op"} |-> r[f]] /\ r.op = "Unregister"
      BY <1>3 DEF UnregisterRequests
    <2> QED
      BY <2>1, Decoded, Fields DEF HandlerOf, MethodOf
  <1> QED
    BY <1>1, <1>2, <1>3 DEF Requests

-----------------------------------------------------------------------------
(* The invariant. *)

\* A later table holds the rows of an earlier one, unchanged or dead.
Aged(old, new) ==
    /\ Len(old) <= Len(new)
    /\ \A j \in 1 .. Len(old) :
          /\ new[j].InstanceId = old[j].InstanceId
          /\ new[j].Handler = old[j].Handler
          /\ new[j].IsAlive = 1 => old[j].IsAlive = 1

\* Where the call is on both sides of the wire.
PositionInv(c) ==
    /\ path[c] \in {"idle", "wire"} => stage[c] = "idle"
    /\ path[c] \in {"handler", "orphan"} => stage[c] # "idle"
    /\ path[c] = "served" => stage[c] # "waiting"
    /\ stage[c] = "idle" => reply[c] = NoReply
    /\ stage[c] = "answered" => reply[c].status \in {"OK", "ERR"}
    /\ path[c] \in {"erred", "erredOrphan"} => stage[c] = "answered" /\ reply[c].status = "ERR"
    /\ path[c] \in {"orphan", "erredOrphan"} => result[c] = Error

\* What is on the wire and at the server is what the caller sent.
CarriedInv(c) ==
    /\ path[c] # "idle" => sent[c] \in Requests /\ Aged(sentAt[c], table)
    /\ path[c] \in {"wire", "handler", "orphan", "erred", "erredOrphan"} =>
          packet[c].header = Correlate(c, sent[c])
    /\ path[c] = "wire" => /\ packet[c].method = MethodOf[sent[c].op]
                           /\ packet[c].body = Marshal(sent[c])
    /\ stage[c] # "idle" => req[c] = sent[c] /\ Aged(sentAt[c], seen[c])

\* The rows of a Register are in the table since the caller sent it.
Stored(c) ==
    \A h \in sent[c].Handlers :
        \E i \in 1 .. Len(table) :
            /\ i > Len(sentAt[c])
            /\ table[i].InstanceId = sent[c].ServiceId
            /\ table[i].Handler = h

\* What has been logged so far.
LinesInv(c) ==
    /\ path[c] \in {"idle", "wire"} => lines[c] = <<>>
    /\ path[c] \in {"handler", "orphan"} => lines[c] = <<Line(c, "called")>>
    /\ path[c] \in {"erred", "erredOrphan"} =>
          lines[c] = <<Line(c, "called"), Line(c, "Error when calling")>>

\* What the log means.
LogInv(c) ==
    /\ path[c] = "served" /\ result[c].status = "OK" => Logged(c) = <<"called", "Duration">>
    /\ sent[c].op = "Register" =>
          /\ stage[c] = "answered" /\ reply[c].status = "OK" => Stored(c)
          /\ Logged(c) = <<"called", "Duration">> => Stored(c)
    /\ sent[c].op \in {"Register", "Unregister"} =>
          \A i \in DOMAIN lines[c] : lines[c][i].id = c

CallInv(c) == PositionInv(c) /\ CarriedInv(c) /\ LinesInv(c) /\ LogInv(c)

RpcInv == RpcTypeOK /\ \A c \in Calls : CallInv(c)

\* A step that leaves a call alone.
Untouched(c) ==
    /\ stage'[c] = stage[c] /\ req'[c] = req[c]
    /\ reply'[c] = reply[c] /\ seen'[c] = seen[c]
    /\ path'[c] = path[c] /\ sent'[c] = sent[c] /\ sentAt'[c] = sentAt[c]
    /\ packet'[c] = packet[c] /\ lines'[c] = lines[c] /\ result'[c] = result[c]

-----------------------------------------------------------------------------
(* Lemmas about tables and data. *)

LEMMA SameData ==
    /\ Server!Requests = Requests /\ Client!Requests = Requests
    /\ Server!NoRequest = NoRequest /\ Client!NoRequest = NoRequest
    /\ Server!NoReply = NoReply /\ Client!NoReply = NoReply
    /\ \A r, h : Server!RowFor(r, h) = Client!RowFor(r, h)
    /\ \A r, old, new : Server!RowsAdded(r, old, new) = Client!RowsAdded(r, old, new)
    /\ \A id, n, old, new : Server!RowsMarked(id, n, old, new) = Client!RowsMarked(id, n, old, new)
  BY DEF Server!Requests, Server!RegisterRequests, Server!UnregisterRequests,
         Server!SearchRequests, Server!NoRequest, Server!NoReply, Server!RowFor,
         Client!Requests, Client!RegisterRequests, Client!UnregisterRequests,
         Client!SearchRequests, Client!NoRequest, Client!NoReply, Client!RowFor,
         Requests, RegisterRequests, UnregisterRequests, SearchRequests, NoRequest, NoReply,
         Server!RowsAdded, Client!RowsAdded, Server!RowsMarked, Client!RowsMarked

LEMMA AgedReflexive ==
    ASSUME NEW t \in Seq(Rows)
    PROVE  Aged(t, t)
  BY DEF Aged

LEMMA AgedTransitive ==
    ASSUME NEW t \in Seq(Rows), NEW u \in Seq(Rows), NEW v \in Seq(Rows),
           Aged(t, u), Aged(u, v)
    PROVE  Aged(t, v)
  BY DEF Aged

\* The use cases only add rows and mark rows dead.
LEMMA RegisterAges ==
    ASSUME NEW r, NEW t \in Seq(Rows), NEW u \in Seq(Rows), Server!RowsAdded(r, t, u)
    PROVE  Aged(t, u)
  BY DEF Aged, Server!RowsAdded

LEMMA UnregisterAges ==
    ASSUME NEW id, NEW n, NEW t \in Seq(Rows), NEW u \in Seq(Rows),
           Server!RowsMarked(id, n, t, u)
    PROVE  Aged(t, u)
  <1>1. Len(u) = Len(t)
    BY DEF Server!RowsMarked
  <1>2. ASSUME NEW i \in 1 .. Len(t)
        PROVE  u[i] = t[i] \/ u[i] = [t[i] EXCEPT !.IsAlive = 0]
    BY <1>2 DEF Server!RowsMarked
  <1>3. ASSUME NEW i \in 1 .. Len(t)
        PROVE  /\ u[i].InstanceId = t[i].InstanceId
               /\ u[i].Handler = t[i].Handler
               /\ u[i].IsAlive = 1 => t[i].IsAlive = 1
    <2>1. t[i] \in Rows
      OBVIOUS
    <2> QED
      BY <1>2, <2>1 DEF Rows
  <1> QED
    BY <1>1, <1>3 DEF Aged

LEMMA PairIsTuple ==
    ASSUME NEW S, NEW s \in Seq(S), Len(s) = 2
    PROVE  s = <<s[1], s[2]>>
  OBVIOUS

LEMMA TripleIsTuple ==
    ASSUME NEW S, NEW s \in Seq(S), Len(s) = 3
    PROVE  s = <<s[1], s[2], s[3]>>
  OBVIOUS

LEMMA ElementOfPair ==
    ASSUME NEW s, NEW x, NEW y, s = <<x, y>>, NEW i \in DOMAIN s
    PROVE  s[i] \in {x, y}
  OBVIOUS

LEMMA WhatOfPair ==
    ASSUME NEW s, NEW x, NEW y, s = <<x, y>>
    PROVE  [i \in DOMAIN s |-> s[i].what] = <<x.what, y.what>>
  OBVIOUS

LEMMA ErrorInPair ==
    ASSUME NEW x, NEW y, y = "Error when calling"
    PROVE  <<x, y>> # <<"called", "Duration">>
  OBVIOUS

LEMMA ElementOfTriple ==
    ASSUME NEW s, NEW x, NEW y, NEW z, s = <<x, y, z>>, NEW i \in DOMAIN s
    PROVE  s[i] \in {x, y, z}
  OBVIOUS

LEMMA WhatOfTriple ==
    ASSUME NEW s, NEW x, NEW y, NEW z, s = <<x, y, z>>
    PROVE  [i \in DOMAIN s |-> s[i].what] = <<x.what, y.what, z.what>>
  OBVIOUS

LEMMA ErrorInTriple ==
    ASSUME NEW x, NEW y, NEW z, y = "Error when calling"
    PROVE  <<x, y, z>> # <<"called", "Duration">>
  OBVIOUS

\* What becomes of one line when one or two are appended.
LEMMA AppendOne ==
    ASSUME NEW S, NEW x \in S, NEW y \in S
    PROVE  Append(<<x>>, y) \in Seq(S) /\ Append(<<x>>, y) = <<x, y>>
  <1> DEFINE t == Append(<<x>>, y)
  <1>1. <<x>> \in Seq(S) /\ Len(<<x>>) = 1
    OBVIOUS
  <1>2. t \in Seq(S) /\ Len(t) = 2 /\ t[1] = x /\ t[2] = y
    BY <1>1, AppendProperties
  <1> HIDE DEF t
  <1>3. t = <<t[1], t[2]>>
    BY <1>2, PairIsTuple
  <1> QED
    BY <1>2, <1>3 DEF t

LEMMA AppendTwo ==
    ASSUME NEW S, NEW x \in S, NEW y \in S, NEW z \in S
    PROVE  /\ Append(Append(<<x>>, y), z) \in Seq(S)
           /\ Append(Append(<<x>>, y), z) = <<x, y, z>>
  <1> DEFINE s == Append(<<x>>, y)
             t == Append(s, z)
  <1>1. s \in Seq(S) /\ s = <<x, y>>
    BY AppendOne
  <1> HIDE DEF s
  <1>2. Len(s) = 2 /\ s[1] = x /\ s[2] = y
    BY <1>1
  <1>3. t \in Seq(S) /\ Len(t) = 3 /\ t[1] = x /\ t[2] = y /\ t[3] = z
    BY <1>1, <1>2, AppendProperties
  <1> HIDE DEF t
  <1>4. t = <<t[1], t[2], t[3]>>
    BY <1>3, TripleIsTuple
  <1> QED
    BY <1>3, <1>4 DEF s, t

\* Rows that were stored stay stored.
LEMMA StoredStays ==
    ASSUME table \in Seq(Rows), table' \in Seq(Rows), Aged(table, table'),
           NEW c \in Calls, sent'[c] = sent[c], sentAt'[c] = sentAt[c], Stored(c)
    PROVE  Stored(c)'
  BY DEF Stored, Aged

-----------------------------------------------------------------------------
(* What the steps do to the calls. *)

\* A call that a step leaves alone keeps its invariant while the table ages.
LEMMA Frame ==
    ASSUME RpcTypeOK, RpcTypeOK', NEW c \in Calls, CallInv(c), Untouched(c),
           Aged(table, table')
    PROVE  CallInv(c)'
  <1>1. /\ table \in Seq(Rows) /\ table' \in Seq(Rows) /\ sentAt[c] \in Seq(Rows)
    BY DEF RpcTypeOK
  <1>2. PositionInv(c)'
    BY DEF CallInv, PositionInv, Untouched, Error, NoReply
  <1>3. CarriedInv(c)'
    BY <1>1, AgedTransitive DEF CallInv, CarriedInv, Untouched, Correlate
  <1>4. /\ Logged(c)' = Logged(c)
        /\ Line(c, "called")' = Line(c, "called")
        /\ Line(c, "Error when calling")' = Line(c, "Error when calling")
    BY DEF Untouched, Logged, Line, IdOf
  <1>5. Stored(c) => Stored(c)'
    BY <1>1, StoredStays DEF Untouched
  <1>6. LinesInv(c)'
    BY <1>4 DEF CallInv, LinesInv, Untouched
  <1>7. LogInv(c)'
    BY <1>4, <1>5 DEF CallInv, LogInv, Untouched
  <1> QED
    BY <1>2, <1>3, <1>6, <1>7 DEF CallInv

\* The calls that a step of call c leaves alone.
LEMMA InvokeTypes ==
    ASSUME RpcTypeOK, NEW c \in Calls, NEW r \in Requests, Invoke(c, r)
    PROVE  RpcTypeOK' /\ table' = table /\ \A d \in Calls \ {c} : Untouched(d)
  <1>1. Correlate(c, r) \in Headers
    BY DEF Correlate, Headers
  <1>2. MethodOf[r.op] \in DOMAIN HandlerOf
    BY DEF Requests, RegisterRequests, UnregisterRequests, SearchRequests, MethodOf, HandlerOf
  <1>3. Error \in Replies
    BY DEF Error, Replies
  <1>4. UNCHANGED <<table, stage, req, reply, seen, up, lines>>
    BY DEF Invoke, registryVars
  <1>5. sent' \in [Calls -> Requests \cup {NoRequest}] /\ sentAt' \in [Calls -> Seq(Rows)]
    BY DEF Invoke, RpcTypeOK
  <1>6. /\ path' \in [Calls -> Positions]
        /\ result' \in [Calls -> Replies]
    <2>1. \/ path' = [path EXCEPT ![c] = "wire"] /\ result' = result
          \/ Served(c, Error)
      BY DEF Invoke
    <2>2. /\ path \in [Calls -> Positions]
          /\ result \in [Calls -> Replies]
      BY DEF RpcTypeOK
    <2> QED
      BY <1>3, <2>1, <2>2 DEF Served, Positions
  <1>7. packet' \in [Calls -> Packets \cup {NoPacket}]
    <2>1. \/ packet' = packet
          \/ \E g \in BOOLEAN : packet' = [packet EXCEPT ![c] =
                      [method |-> MethodOf[r.op], header |-> Correlate(c, r),
                       body |-> Marshal(r), garbled |-> g]]
      BY DEF Invoke
    <2>2. packet \in [Calls -> Packets \cup {NoPacket}]
      BY DEF RpcTypeOK
    <2>3. \A g \in BOOLEAN : [method |-> MethodOf[r.op], header |-> Correlate(c, r),
                              body |-> Marshal(r), garbled |-> g] \in Packets
      BY <1>1, <1>2 DEF Packets
    <2> QED
      BY <2>1, <2>2, <2>3
  <1>8. RpcTypeOK'
    BY <1>4, <1>5, <1>6, <1>7 DEF RpcTypeOK
  <1>9. ASSUME NEW d \in Calls \ {c} PROVE Untouched(d)
    BY <1>4 DEF Invoke, Served, Untouched, RpcTypeOK
  <1> QED
    BY <1>4, <1>8, <1>9

\* A step of one call keeps the invariant if it does so for that call.
LEMMA OneCall ==
    ASSUME RpcInv, RpcTypeOK', NEW c \in Calls, Aged(table, table'),
           \A d \in Calls \ {c} : Untouched(d), CallInv(c)'
    PROVE  RpcInv'
  <1>1. ASSUME NEW d \in Calls \ {c} PROVE CallInv(d)'
    BY <1>1, Frame DEF RpcInv
  <1> QED
    BY <1>1 DEF RpcInv

LEMMA InvokeKeepsInv ==
    ASSUME RpcInv, NEW c \in Calls, NEW r \in Requests, Invoke(c, r)
    PROVE  RpcInv'
  <1>1. RpcTypeOK' /\ table' = table /\ \A d \in Calls \ {c} : Untouched(d)
    BY InvokeTypes DEF RpcInv
  <1>2. RpcTypeOK /\ CallInv(c) /\ path[c] = "idle"
    BY DEF RpcInv, Invoke
  <1>3. Aged(table, table') /\ Aged(sentAt[c], table)'
    BY <1>1, <1>2, AgedReflexive DEF RpcTypeOK, Invoke
  <1>4. /\ sent'[c] = r /\ lines'[c] = <<>> /\ stage'[c] = "idle" /\ reply'[c] = NoReply
    BY <1>2 DEF RpcTypeOK, Invoke, registryVars, CallInv, PositionInv, LinesInv
  <1>5. \/ path'[c] = "served" /\ result'[c] = Error
        \/ /\ path'[c] = "wire"
           /\ packet'[c].header = Correlate(c, r)
           /\ packet'[c].method = MethodOf[r.op]
           /\ packet'[c].body = Marshal(r)
    BY <1>2 DEF RpcTypeOK, Invoke, Served
  <1>6. PositionInv(c)'
    BY <1>4, <1>5 DEF PositionInv
  <1>7. CarriedInv(c)'
    BY <1>3, <1>4, <1>5 DEF CarriedInv, Correlate
  <1>8. LinesInv(c)' /\ LogInv(c)'
    BY <1>4, <1>5 DEF LinesInv, LogInv, Logged, Error
  <1> QED
    BY <1>1, <1>3, <1>6, <1>7, <1>8, OneCall DEF CallInv

LEMMA LoseKeepsInv ==
    ASSUME RpcInv, NEW c \in Calls, Lose(c)
    PROVE  RpcInv'
  <1>1. RpcTypeOK /\ CallInv(c)
    BY DEF RpcInv
  <1>2. /\ UNCHANGED <<table, stage, req, reply, seen, up, sent, sentAt, packet, lines>>
        /\ path' = [path EXCEPT ![c] = CASE @ = "handler" -> "orphan"
                                        [] @ = "erred" -> "erredOrphan"
                                        [] OTHER -> "served"]
        /\ result' = [result EXCEPT ![c] = Error]
        /\ path[c] \in {"wire", "handler", "erred", "served"}
    BY DEF Lose, registryVars
  <1>3. RpcTypeOK'
    BY <1>1, <1>2 DEF RpcTypeOK, Positions, Error, Replies
  <1>4. \A d \in Calls \ {c} : Untouched(d)
    BY <1>1, <1>2 DEF RpcTypeOK, Untouched
  <1>5. Aged(table, table')
    BY <1>1, <1>2, AgedReflexive DEF RpcTypeOK
  <1>6. /\ path[c] = "handler" => path'[c] = "orphan"
        /\ path[c] = "erred" => path'[c] = "erredOrphan"
        /\ path[c] \in {"wire", "served"} => path'[c] = "served"
        /\ result'[c] = Error
    BY <1>1, <1>2 DEF RpcTypeOK
  <1>7. PositionInv(c)'
    BY <1>1, <1>2, <1>6 DEF CallInv, PositionInv
  <1>8. CarriedInv(c)'
    BY <1>1, <1>2, <1>6 DEF CallInv, CarriedInv
  <1>9. LinesInv(c)'
    <2>1. /\ Line(c, "called")' = Line(c, "called")
          /\ Line(c, "Error when calling")' = Line(c, "Error when calling")
      BY <1>2 DEF Line, IdOf
    <2> QED
      BY <1>1, <1>2, <1>6, <2>1 DEF CallInv, LinesInv
  <1>10. LogInv(c)'
    <2>1. Logged(c)' = Logged(c) /\ Stored(c)' = Stored(c)
      BY <1>2 DEF Logged, Stored
    <2> QED
      BY <1>1, <1>2, <1>6, <2>1 DEF CallInv, LogInv, Error
  <1> QED
    BY <1>3, <1>4, <1>5, <1>7, <1>8, <1>9, <1>10, OneCall DEF CallInv

LEMMA ReturnKeepsInv ==
    ASSUME RpcInv, NEW c \in Calls, Return(c)
    PROVE  RpcInv'
  <1>1. RpcTypeOK /\ CallInv(c) /\ path[c] = "served"
    BY DEF RpcInv, Return
  <1>2. table' = table /\ up' = up
    BY DEF Return, registryVars, Server!Hangup
  <1>3. /\ stage' \in [Calls -> {"idle", "waiting", "answered"}]
        /\ req' \in [Calls -> Requests \cup {NoRequest}]
        /\ reply' \in [Calls -> Replies]
        /\ seen' \in [Calls -> Seq(Rows)]
        /\ stage'[c] = "idle" /\ reply'[c] = NoReply
        /\ \A d \in Calls \ {c} : /\ stage'[d] = stage[d] /\ req'[d] = req[d]
                                  /\ reply'[d] = reply[d] /\ seen'[d] = seen[d]
    <2>1. CASE stage[c] = "answered"
      <3>1. /\ stage' = [stage EXCEPT ![c] = "idle"]
            /\ req' = [req EXCEPT ![c] = NoRequest]
            /\ reply' = [reply EXCEPT ![c] = NoReply]
            /\ seen' = [seen EXCEPT ![c] = <<>>]
        BY <2>1, SameData DEF Return, Server!Hangup
      <3>2. NoReply \in Replies /\ <<>> \in Seq(Rows)
        BY DEF NoReply, Replies
      <3> QED
        BY <1>1, <3>1, <3>2 DEF RpcTypeOK
    <2>2. CASE stage[c] # "answered"
      <3>1. UNCHANGED <<stage, req, reply, seen>>
        BY <2>2 DEF Return, registryVars
      <3>2. stage[c] = "idle" /\ reply[c] = NoReply
        BY <1>1, <2>2 DEF RpcTypeOK, CallInv, PositionInv
      <3> QED
        BY <1>1, <3>1, <3>2 DEF RpcTypeOK
    <2> QED
      BY <2>1, <2>2
  <1>4. /\ path' = [path EXCEPT ![c] = "idle"]
        /\ sent' = [sent EXCEPT ![c] = NoRequest]
        /\ sentAt' = [sentAt EXCEPT ![c] = <<>>]
        /\ packet' = [packet EXCEPT ![c] = NoPacket]
        /\ lines' = [lines EXCEPT ![c] = <<>>]
        /\ result' = [result EXCEPT ![c] = NoReply]
    BY DEF Return
  <1>5. RpcTypeOK'
    BY <1>1, <1>2, <1>3, <1>4 DEF RpcTypeOK, Positions, NoReply, Replies
  <1>6. \A d \in Calls \ {c} : Untouched(d)
    BY <1>1, <1>3, <1>4 DEF RpcTypeOK, Untouched
  <1>7. Aged(table, table')
    BY <1>1, <1>2, AgedReflexive DEF RpcTypeOK
  <1>8. path'[c] = "idle" /\ sent'[c] = NoRequest /\ lines'[c] = <<>>
    BY <1>1, <1>4 DEF RpcTypeOK
  <1>9. CallInv(c)'
    BY <1>3, <1>8 DEF CallInv, PositionInv, CarriedInv, LinesInv, LogInv, NoRequest
  <1> QED
    BY <1>5, <1>6, <1>7, <1>9, OneCall

LEMMA HandleKeepsInv ==
    ASSUME RpcInv, NEW c \in Calls, Handle(c)
    PROVE  RpcInv'
  <1>1. RpcTypeOK /\ CallInv(c) /\ path[c] = "wire"
    BY DEF RpcInv, Handle
  <1>2. Unmarshal(HandlerOf[packet[c].method], packet[c].body) = sent[c] /\ sent[c] \in Requests
    BY <1>1, RequestArrivesAsSent DEF CallInv, CarriedInv
  <1>3. /\ UNCHANGED <<table, reply, up, sent, sentAt, packet, result>>
        /\ stage' = [stage EXCEPT ![c] = "waiting"]
        /\ req' = [req EXCEPT ![c] = sent[c]]
        /\ seen' = [seen EXCEPT ![c] = table]
        /\ lines' = [lines EXCEPT ![c] = Append(@, Line(c, "called"))]
        /\ path' = [path EXCEPT ![c] = "handler"]
    BY <1>2 DEF Handle, Server!Ask
  <1>4. packet[c].header = Correlate(c, sent[c]) /\ Correlate(c, sent[c]) \in Headers
    BY <1>1 DEF CallInv, CarriedInv, Correlate, Headers
  <1>5. /\ IdOf(c) \in Calls \cup {NoId}
        /\ sent[c].op \in {"Register", "Unregister"} => IdOf(c) = c
    BY <1>4 DEF IdOf, Correlate
  <1>6. lines[c] = <<>> /\ lines'[c] = <<Line(c, "called")>>
    BY <1>1, <1>3 DEF CallInv, LinesInv, RpcTypeOK
  <1>7. Line(c, "called") \in Lines
    BY <1>5 DEF Line, Lines
  <1>8. RpcTypeOK'
    <2>1. lines' \in [Calls -> Seq(Lines)]
      BY <1>1, <1>3, <1>7 DEF RpcTypeOK
    <2> QED
      BY <1>1, <1>2, <1>3, <2>1 DEF RpcTypeOK, Positions
  <1>9. \A d \in Calls \ {c} : Untouched(d)
    BY <1>1, <1>3 DEF RpcTypeOK, Untouched
  <1>10. Aged(table, table')
    BY <1>1, <1>3, AgedReflexive DEF RpcTypeOK
  <1>11. /\ stage'[c] = "waiting" /\ req'[c] = sent[c] /\ seen'[c] = table
         /\ path'[c] = "handler"
    BY <1>1, <1>3 DEF RpcTypeOK
  <1>12. PositionInv(c)'
    BY <1>11 DEF PositionInv
  <1>13. CarriedInv(c)'
    BY <1>1, <1>3, <1>11 DEF CallInv, CarriedInv, Correlate
  <1>14. LinesInv(c)'
    <2>1. Line(c, "called")' = Line(c, "called")
      BY <1>3 DEF Line, IdOf
    <2> QED
      BY <1>6, <1>11, <2>1 DEF LinesInv
  <1>15. LogInv(c)'
    <2>2. Logged(c)' = <<"called">>
      BY <1>6 DEF Logged, Line
    <2>3. \A i \in DOMAIN lines'[c] : lines'[c][i].id = IdOf(c)
      BY <1>6 DEF Line
    <2>4. Logged(c)' # <<"called", "Duration">>
      BY <2>2
    <2> QED
      BY <1>3, <1>5, <1>6, <1>11, <2>3, <2>4 DEF LogInv
  <1> QED
    BY <1>8, <1>9, <1>10, <1>12, <1>13, <1>14, <1>15, OneCall DEF CallInv

LEMMA DecodeFailsKeepsInv ==
    ASSUME RpcInv, NEW c \in Calls, DecodeFails(c)
    PROVE  RpcInv'
  <1>1. RpcTypeOK /\ CallInv(c) /\ path[c] = "wire"
    BY DEF RpcInv, DecodeFails
  <1>2. /\ UNCHANGED <<table, stage, req, reply, seen, up, sent, sentAt, packet, lines>>
        /\ path' = [path EXCEPT ![c] = "served"]
        /\ result' = [result EXCEPT ![c] = Error]
    BY DEF DecodeFails, Served, registryVars
  <1>3. RpcTypeOK'
    BY <1>1, <1>2 DEF RpcTypeOK, Positions, Error, Replies
  <1>4. \A d \in Calls \ {c} : Untouched(d)
    BY <1>1, <1>2 DEF RpcTypeOK, Untouched
  <1>5. Aged(table, table')
    BY <1>1, <1>2, AgedReflexive DEF RpcTypeOK
  <1>6. path'[c] = "served" /\ result'[c] = Error
    BY <1>1, <1>2 DEF RpcTypeOK
  <1>7. PositionInv(c)' /\ CarriedInv(c)' /\ LinesInv(c)'
    BY <1>1, <1>2, <1>6 DEF CallInv, PositionInv, CarriedInv, LinesInv
  <1>8. LogInv(c)'
    <2>1. Logged(c)' = Logged(c) /\ Stored(c)' = Stored(c)
      BY <1>2 DEF Logged, Stored
    <2> QED
      BY <1>1, <1>2, <1>6, <2>1 DEF CallInv, LogInv, Error
  <1> QED
    BY <1>3, <1>4, <1>5, <1>7, <1>8, OneCall DEF CallInv

LEMMA StartKeepsInv ==
    ASSUME RpcInv, Start
    PROVE  RpcInv'
  <1>1. /\ UNCHANGED <<table, stage, req, reply, seen, path, sent, sentAt, packet, lines, result>>
        /\ up' = TRUE
    BY DEF Start, registryVars
  <1>2. RpcTypeOK'
    BY <1>1 DEF RpcInv, RpcTypeOK
  <1>3. Aged(table, table')
    BY <1>1, AgedReflexive DEF RpcInv, RpcTypeOK
  <1>4. \A d \in Calls : Untouched(d)
    BY <1>1 DEF Untouched
  <1> QED
    BY <1>2, <1>3, <1>4, Frame DEF RpcInv

\* The use case answers or fails: the effect on its call and on the table.
LEMMA ExecuteEffect ==
    ASSUME RpcInv, NEW c \in Calls, Execute(c)
    PROVE  /\ table' \in Seq(Rows)
           /\ Aged(table, table')
           /\ \E r \in Replies :
                 /\ r.status \in {"OK", "ERR"}
                 /\ stage' = [stage EXCEPT ![c] = "answered"]
                 /\ reply' = [reply EXCEPT ![c] = r]
                 /\ sent[c].op = "Register" /\ r.status = "OK" =>
                       Server!RowsAdded(sent[c], table, table')
           /\ UNCHANGED <<req, seen>>
  <1>1. RpcTypeOK /\ CallInv(c) /\ stage[c] = "waiting" /\ req[c] = sent[c]
    BY DEF RpcInv, Execute, CallInv, CarriedInv
  <1>2. table \in Seq(Rows)
    BY <1>1 DEF RpcTypeOK
  <1>3. ASSUME \E t \in Grown : table' = t
        PROVE  table' \in Seq(Rows)
    BY <1>2, <1>3, MaxRowsAssumption DEF Grown
  <1>4. /\ [status |-> "OK", Services |-> {}] \in Replies
        /\ [status |-> "ERR", Services |-> {}] \in Replies
    BY DEF Replies
  <1>5. CASE Server!Register(c) /\ \E t \in Grown : table' = t
    <2>1. /\ Server!RowsAdded(sent[c], table, table')
          /\ Server!Answer(c, "OK", {})
          /\ UNCHANGED <<req, seen>>
      BY <1>1, <1>5 DEF Server!Register
    <2>2. table' \in Seq(Rows)
      BY <1>3, <1>5
    <2>3. Aged(table, table')
      BY <1>2, <2>1, <2>2, RegisterAges
    <2> QED
      BY <1>4, <2>1, <2>2, <2>3 DEF Server!Answer
  <1>6. CASE Server!Unregister(c) /\ \E t \in Grown : table' = t
    <2>1. /\ Server!RowsMarked(sent[c].ServiceId, Len(seen[c]), table, table')
          /\ Server!Answer(c, "OK", {})
          /\ UNCHANGED <<req, seen>>
          /\ sent[c].op = "Unregister"
      BY <1>1, <1>6 DEF Server!Unregister
    <2>2. table' \in Seq(Rows)
      BY <1>3, <1>6
    <2>3. Aged(table, table')
      BY <1>2, <2>1, <2>2, UnregisterAges
    <2> QED
      BY <1>4, <2>1, <2>2, <2>3 DEF Server!Answer
  <1>7. CASE Server!Search(c)
    <2> DEFINE found == Server!AliveServices(sent[c].ServiceDefinition)
    <2>1. /\ sent[c].op = "Search"
          /\ UNCHANGED <<table, req, seen>>
          /\ Server!Answer(c, "OK", found)
      BY <1>1, <1>7 DEF Server!Search
    <2>2. found \subseteq Urls
      <3>1. \A i \in 1 .. Len(table) : table[i] \in Rows
        BY <1>2
      <3> QED
        BY <3>1 DEF Server!AliveServices, Rows
    <2>3. [status |-> "OK", Services |-> found] \in Replies
      BY <2>2 DEF Replies
    <2> HIDE DEF found
    <2> QED
      BY <1>2, <2>1, <2>3, AgedReflexive DEF Server!Answer
  <1>8. CASE Server!Fail({c})
    <2>1. /\ UNCHANGED <<table, req, seen>>
          /\ stage' = [d \in Calls |-> IF d \in {c} THEN "answered" ELSE stage[d]]
          /\ reply' = [d \in Calls |-> IF d \in {c}
                                      THEN [status |-> "ERR", Services |-> {}]
                                      ELSE reply[d]]
      BY <1>8 DEF Server!Fail
    <2>2. /\ stage' = [stage EXCEPT ![c] = "answered"]
          /\ reply' = [reply EXCEPT ![c] = [status |-> "ERR", Services |-> {}]]
      BY <1>1, <2>1 DEF RpcTypeOK
    <2> QED
      BY <1>2, <1>4, <2>1, <2>2, AgedReflexive
  <1> QED
    BY <1>5, <1>6, <1>7, <1>8 DEF Execute

\* A Register that has just added its rows is stored.
LEMMA AddedIsStored ==
    ASSUME RpcInv, NEW c \in Calls, path[c] # "idle", table' \in Seq(Rows),
           UNCHANGED <<sent, sentAt>>, Server!RowsAdded(sent[c], table, table')
    PROVE  Stored(c)'
  <1>1. Len(sentAt[c]) <= Len(table) /\ Len(table) \in Nat /\ Len(sentAt[c]) \in Nat
    BY DEF RpcInv, RpcTypeOK, CallInv, CarriedInv, Aged
  <1>2. ASSUME NEW h \in sent[c].Handlers
        PROVE  \E i \in 1 .. Len(table') :
                  /\ i > Len(sentAt[c])
                  /\ table'[i].InstanceId = sent[c].ServiceId
                  /\ table'[i].Handler = h
    <2>1. PICK i \in Len(table) + 1 .. Len(table') : table'[i] = Server!RowFor(sent[c], h)
      BY DEF Server!RowsAdded
    <2>2. i \in 1 .. Len(table') /\ i > Len(sentAt[c])
      BY <1>1, <2>1
    <2> QED
      BY <2>1, <2>2 DEF Server!RowFor
  <1> QED
    BY <1>2 DEF Stored

LEMMA ExecuteKeepsInv ==
    ASSUME RpcInv, NEW c \in Calls, Execute(c)
    PROVE  RpcInv'
  <1>1. RpcTypeOK /\ CallInv(c) /\ path[c] \in {"handler", "orphan"}
    BY DEF RpcInv, Execute
  <1>2. /\ table' \in Seq(Rows) /\ Aged(table, table')
        /\ UNCHANGED <<req, seen, up, path, sent, sentAt, packet, lines, result>>
    BY ExecuteEffect DEF Execute
  <1>3. PICK r \in Replies :
            /\ r.status \in {"OK", "ERR"}
            /\ stage' = [stage EXCEPT ![c] = "answered"]
            /\ reply' = [reply EXCEPT ![c] = r]
            /\ sent[c].op = "Register" /\ r.status = "OK" =>
                  Server!RowsAdded(sent[c], table, table')
    BY ExecuteEffect
  <1>4. RpcTypeOK'
    BY <1>1, <1>2, <1>3 DEF RpcTypeOK
  <1>5. \A d \in Calls \ {c} : Untouched(d)
    BY <1>1, <1>2, <1>3 DEF RpcTypeOK, Untouched
  <1>6. stage'[c] = "answered" /\ reply'[c] = r
    BY <1>1, <1>3 DEF RpcTypeOK
  <1>7. PositionInv(c)'
    BY <1>1, <1>2, <1>3, <1>6 DEF CallInv, PositionInv
  <1>8. CarriedInv(c)'
    <2>1. sentAt[c] \in Seq(Rows) /\ table \in Seq(Rows) /\ stage[c] # "idle"
      BY <1>1 DEF RpcTypeOK, CallInv, PositionInv
    <2>2. Aged(sentAt[c], table')
      BY <1>1, <1>2, <2>1, AgedTransitive DEF CallInv, CarriedInv
    <2> QED
      BY <1>1, <1>2, <1>6, <2>1, <2>2 DEF CallInv, CarriedInv, Correlate
  <1>9. LinesInv(c)'
    <2>1. Line(c, "called")' = Line(c, "called")
      BY <1>2 DEF Line, IdOf
    <2> QED
      BY <1>1, <1>2, <2>1 DEF CallInv, LinesInv
  <1>10. LogInv(c)'
    <2>1. sent[c].op = "Register" /\ r.status = "OK" => Stored(c)'
      BY <1>1, <1>2, <1>3, AddedIsStored
    <2>2. lines[c] = <<Line(c, "called")>> /\ lines'[c] = lines[c]
      BY <1>1, <1>2 DEF CallInv, LinesInv
    <2>3. Logged(c)' # <<"called", "Duration">>
      <3>1. Logged(c)' = <<"called">>
        BY <2>2 DEF Logged, Line
      <3> QED
        BY <3>1
    <2> QED
      BY <1>1, <1>2, <1>6, <2>1, <2>2, <2>3 DEF CallInv, LogInv
  <1> QED
    BY <1>2, <1>4, <1>5, <1>7, <1>8, <1>9, <1>10, OneCall DEF CallInv

LEMMA InterceptorLogsErrorKeepsInv ==
    ASSUME RpcInv, NEW c \in Calls, InterceptorLogsError(c)
    PROVE  RpcInv'
  <1> DEFINE called == Line(c, "called")
             err == Line(c, "Error when calling")
  <1>1. /\ RpcTypeOK /\ CallInv(c)
        /\ path[c] \in {"handler", "orphan"} /\ stage[c] = "answered" /\ reply[c].status = "ERR"
    BY DEF RpcInv, InterceptorLogsError
  <1>2. /\ UNCHANGED <<table, stage, req, reply, seen, up, sent, sentAt, packet, result>>
        /\ path' = [path EXCEPT ![c] = IF @ = "handler" THEN "erred" ELSE "erredOrphan"]
        /\ lines' = [lines EXCEPT ![c] = Append(@, err)]
    BY DEF InterceptorLogsError, registryVars
  <1>3. lines[c] = <<called>>
    BY <1>1 DEF CallInv, LinesInv
  <1>4. /\ IdOf(c) \in Calls \cup {NoId}
        /\ sent[c].op \in {"Register", "Unregister"} => IdOf(c) = c
    BY <1>1 DEF CallInv, CarriedInv, IdOf, Correlate
  <1>5. /\ called \in Lines /\ err \in Lines
        /\ called.id = IdOf(c) /\ err.id = IdOf(c) /\ err.what = "Error when calling"
    BY <1>4 DEF Line, Lines
  <1>6. called' = called /\ err' = err
    BY <1>2 DEF Line, IdOf
  <1> HIDE DEF called, err
  <1>7. Append(lines[c], err) \in Seq(Lines) /\ Append(lines[c], err) = <<called, err>>
    BY <1>3, <1>5, AppendOne
  <1>8. RpcTypeOK'
    <2>1. path' \in [Calls -> Positions] /\ lines' \in [Calls -> Seq(Lines)]
      BY <1>1, <1>2, <1>7 DEF RpcTypeOK, Positions
    <2> QED
      BY <1>1, <1>2, <2>1 DEF RpcTypeOK
  <1>9. \A d \in Calls \ {c} : Untouched(d)
    BY <1>1, <1>2 DEF RpcTypeOK, Untouched
  <1>10. Aged(table, table')
    BY <1>1, <1>2, AgedReflexive DEF RpcTypeOK
  <1>11. /\ path'[c] = IF path[c] = "handler" THEN "erred" ELSE "erredOrphan"
         /\ lines'[c] = <<called, err>>
    BY <1>1, <1>2, <1>7 DEF RpcTypeOK
  <1>12. PositionInv(c)' /\ CarriedInv(c)'
    BY <1>1, <1>2, <1>11 DEF CallInv, PositionInv, CarriedInv, Correlate
  <1>13. LogInv(c)'
    <2>1. Logged(c)' # <<"called", "Duration">>
      <3>1. Logged(c)' = <<called.what, err.what>>
        BY <1>11, WhatOfPair DEF Logged
      <3> QED
        BY <1>5, <3>1, ErrorInPair
    <2>2. ASSUME NEW i \in DOMAIN lines'[c] PROVE lines'[c][i].id = IdOf(c)
      <3>1. lines'[c][i] \in {called, err}
        BY <1>11, ElementOfPair
      <3> QED
        BY <1>5, <3>1
    <2> QED
      BY <1>1, <1>2, <1>4, <1>11, <2>1, <2>2 DEF LogInv
  <1>14. LinesInv(c)'
    BY <1>1, <1>6, <1>11 DEF LinesInv, called, err
  <1> QED
    BY <1>8, <1>9, <1>10, <1>12, <1>13, <1>14, OneCall DEF CallInv

\* What the log of a call becomes when the interceptor returns.
LEMMA DurationLine ==
    ASSUME RpcInv, NEW c \in Calls, Checked(c)
    PROVE  /\ Append(lines[c], Line(c, "Duration")) \in Seq(Lines)
           /\ reply[c].status = "OK" =>
                 /\ path[c] \in {"handler", "orphan"}
                 /\ Append(lines[c], Line(c, "Duration"))
                       = <<Line(c, "called"), Line(c, "Duration")>>
           /\ reply[c].status = "ERR" =>
                 Append(lines[c], Line(c, "Duration"))
                   = <<Line(c, "called"), Line(c, "Error when calling"), Line(c, "Duration")>>
           /\ stage[c] = "answered"
           /\ reply[c].status \in {"OK", "ERR"}
           /\ IdOf(c) \in Calls \cup {NoId}
           /\ sent[c].op \in {"Register", "Unregister"} => IdOf(c) = c
  <1> DEFINE called == Line(c, "called")
             err == Line(c, "Error when calling")
             last == Line(c, "Duration")
  <1>1. CallInv(c) /\ path[c] \in {"handler", "orphan", "erred", "erredOrphan"}
    BY DEF RpcInv, Checked
  <1>2. /\ IdOf(c) \in Calls \cup {NoId}
        /\ sent[c].op \in {"Register", "Unregister"} => IdOf(c) = c
    BY <1>1 DEF CallInv, CarriedInv, IdOf, Correlate
  <1>3. called \in Lines /\ err \in Lines /\ last \in Lines
    BY <1>2 DEF Line, Lines
  <1>4. CASE path[c] \in {"handler", "orphan"}
    <2>1. lines[c] = <<called>> /\ stage[c] = "answered" /\ reply[c].status = "OK"
      BY <1>1, <1>4 DEF CallInv, LinesInv, Checked
    <2> HIDE DEF called, err, last
    <2>2. Append(lines[c], last) \in Seq(Lines) /\ Append(lines[c], last) = <<called, last>>
      BY <1>3, <2>1, AppendOne
    <2> QED
      BY <1>2, <1>4, <2>1, <2>2 DEF called, last
  <1>5. CASE path[c] \in {"erred", "erredOrphan"}
    <2>1. lines[c] = <<called, err>> /\ stage[c] = "answered" /\ reply[c].status = "ERR"
      BY <1>1, <1>5 DEF CallInv, LinesInv, PositionInv
    <2> HIDE DEF called, err, last
    <2>2. Append(<<called>>, err) = <<called, err>>
      BY <1>3, AppendOne
    <2>3. /\ Append(Append(<<called>>, err), last) \in Seq(Lines)
          /\ Append(Append(<<called>>, err), last) = <<called, err, last>>
      BY <1>3, AppendTwo
    <2>4. Append(lines[c], last) \in Seq(Lines) /\ Append(lines[c], last) = <<called, err, last>>
      BY <2>1, <2>2, <2>3
    <2> QED
      BY <1>2, <2>1, <2>4 DEF called, err, last
  <1> QED
    BY <1>1, <1>4, <1>5

LEMMA InterceptorReturnsKeepsInv ==
    ASSUME RpcInv, NEW c \in Calls, InterceptorReturns(c)
    PROVE  RpcInv'
  <1> DEFINE r == IF Orphaned(c) THEN result[c] ELSE reply[c]
             called == Line(c, "called")
             last == Line(c, "Duration")
             err == Line(c, "Error when calling")
  <1>1. RpcTypeOK /\ CallInv(c) /\ Checked(c)
    BY DEF RpcInv, InterceptorReturns
  <1>2. /\ UNCHANGED <<table, stage, req, reply, seen, up, sent, sentAt, packet>>
        /\ path' = [path EXCEPT ![c] = "served"]
        /\ result' = [result EXCEPT ![c] = r]
        /\ lines' = [lines EXCEPT ![c] = Append(@, last)]
    BY DEF InterceptorReturns, Served, registryVars
  <1>3. /\ Append(lines[c], last) \in Seq(Lines)
        /\ reply[c].status = "OK" => Append(lines[c], last) = <<called, last>>
        /\ reply[c].status = "ERR" => Append(lines[c], last) = <<called, err, last>>
    BY <1>1, DurationLine
  <1>4. /\ stage[c] = "answered" /\ reply[c].status \in {"OK", "ERR"}
        /\ IdOf(c) \in Calls \cup {NoId}
        /\ sent[c].op \in {"Register", "Unregister"} => IdOf(c) = c
    BY <1>1, DurationLine
  <1>5. /\ called.id = IdOf(c) /\ err.id = IdOf(c) /\ last.id = IdOf(c)
        /\ called.what = "called" /\ err.what = "Error when calling" /\ last.what = "Duration"
    BY DEF Line
  <1>6. reply[c].status = "ERR" => r.status = "ERR"
    BY <1>1 DEF Orphaned, CallInv, PositionInv, Error
  <1> HIDE DEF called, err, last
  <1>7. r \in Replies
    BY <1>1 DEF RpcTypeOK
  <1> HIDE DEF r
  <1>8. RpcTypeOK'
    <2>1. /\ path' \in [Calls -> Positions] /\ lines' \in [Calls -> Seq(Lines)]
          /\ result' \in [Calls -> Replies]
      BY <1>1, <1>2, <1>3, <1>7 DEF RpcTypeOK, Positions
    <2> QED
      BY <1>1, <1>2, <2>1 DEF RpcTypeOK
  <1>9. \A d \in Calls \ {c} : Untouched(d)
    BY <1>1, <1>2 DEF RpcTypeOK, Untouched
  <1>10. Aged(table, table')
    BY <1>1, <1>2, AgedReflexive DEF RpcTypeOK
  <1>11. path'[c] = "served" /\ result'[c] = r /\ lines'[c] = Append(lines[c], last)
    BY <1>1, <1>2 DEF RpcTypeOK
  <1>12. PositionInv(c)' /\ CarriedInv(c)' /\ LinesInv(c)'
    <2>1. path[c] # "idle"
      BY <1>1 DEF Checked
    <2> QED
      BY <1>1, <1>2, <1>4, <1>11, <2>1 DEF CallInv, PositionInv, CarriedInv, LinesInv
  <1>13. LogInv(c)'
    <2>1. CASE reply[c].status = "ERR"
      <3>1. lines'[c] = <<called, err, last>>
        BY <1>3, <1>11, <2>1
      <3>2. Logged(c)' = <<called.what, err.what, last.what>>
        BY <3>1, WhatOfTriple DEF Logged
      <3>3. Logged(c)' # <<"called", "Duration">>
        BY <1>5, <3>2, ErrorInTriple
      <3>4. ASSUME NEW i \in DOMAIN lines'[c] PROVE lines'[c][i].id = IdOf(c)
        <4>1. lines'[c][i] \in {called, err, last}
          BY <3>1, ElementOfTriple
        <4> QED
          BY <1>5, <4>1
      <3> QED
        BY <1>2, <1>4, <1>6, <1>11, <2>1, <3>3, <3>4 DEF LogInv
    <2>2. CASE reply[c].status = "OK"
      <3>1. lines'[c] = <<called, last>>
        BY <1>3, <1>11, <2>2
      <3>2. Logged(c)' = <<"called", "Duration">>
        <4>1. Logged(c)' = <<called.what, last.what>>
          BY <3>1, WhatOfPair DEF Logged
        <4> QED
          BY <1>5, <4>1
      <3>3. sent[c].op = "Register" => Stored(c)
        BY <1>1, <1>4, <2>2 DEF CallInv, LogInv
      <3>4. Stored(c)' = Stored(c)
        BY <1>2 DEF Stored
      <3>5. ASSUME NEW i \in DOMAIN lines'[c] PROVE lines'[c][i].id = IdOf(c)
        <4>1. lines'[c][i] \in {called, last}
          BY <3>1, ElementOfPair
        <4> QED
          BY <1>5, <4>1
      <3> QED
        BY <1>2, <1>4, <1>11, <3>2, <3>3, <3>4, <3>5 DEF LogInv
    <2> QED
      BY <1>4, <2>1, <2>2
  <1> QED
    BY <1>8, <1>9, <1>10, <1>12, <1>13, OneCall DEF CallInv

LEMMA ProcessEndsKeepsInv ==
    ASSUME RpcInv, ProcessEnds
    PROVE  RpcInv'
  <1>1. RpcTypeOK /\ \A c \in Calls : CallInv(c)
    BY DEF RpcInv
  <1>2. /\ UNCHANGED <<table, req, seen, sent, sentAt, packet, lines>>
        /\ up' = FALSE
        /\ stage' = [c \in Calls |-> IF stage[c] # "idle" THEN "answered" ELSE stage[c]]
        /\ reply' = [c \in Calls |-> IF stage[c] # "idle" THEN Error ELSE reply[c]]
        /\ path' = [c \in Calls |-> IF path[c] = "idle" THEN "idle" ELSE "served"]
        /\ result' = [c \in Calls |-> IF path[c] = "idle" THEN result[c] ELSE Error]
    BY DEF ProcessEnds, Server!Fail, Error
  <1>3. RpcTypeOK'
    BY <1>1, <1>2 DEF RpcTypeOK, Positions, Error, Replies
  <1>4. ASSUME NEW c \in Calls
        PROVE  CallInv(c)'
    <2>1. /\ stage'[c] = IF stage[c] # "idle" THEN "answered" ELSE stage[c]
          /\ reply'[c] = IF stage[c] # "idle" THEN Error ELSE reply[c]
          /\ path'[c] = IF path[c] = "idle" THEN "idle" ELSE "served"
          /\ result'[c] = IF path[c] = "idle" THEN result[c] ELSE Error
      BY <1>2
    <2>2. PositionInv(c)'
      BY <1>1, <2>1 DEF CallInv, PositionInv, Error
    <2>3. CarriedInv(c)' /\ LinesInv(c)'
      BY <1>1, <1>2, <2>1 DEF CallInv, CarriedInv, LinesInv
    <2>4. Logged(c)' = Logged(c) /\ Stored(c)' = Stored(c)
      BY <1>2 DEF Logged, Stored
    <2>5. LogInv(c)'
      BY <1>1, <1>2, <2>1, <2>4 DEF CallInv, LogInv, Error
    <2> QED
      BY <2>2, <2>3, <2>5 DEF CallInv
  <1> QED
    BY <1>3, <1>4 DEF RpcInv

-----------------------------------------------------------------------------
(* The invariant holds, and with it what the runs check. *)

LEMMA InitInv == RpcInit => RpcInv
  <1> SUFFICES ASSUME RpcInit PROVE RpcInv
    OBVIOUS
  <1>1. /\ table = <<>>
        /\ stage = [c \in Calls |-> "idle"]
        /\ req = [c \in Calls |-> NoRequest]
        /\ reply = [c \in Calls |-> NoReply]
        /\ seen = [c \in Calls |-> <<>>]
    BY SameData DEF RpcInit, Server!Init
  <1>2. RpcTypeOK
    BY <1>1 DEF RpcInit, RpcTypeOK, Positions, NoReply, Replies
  <1>3. ASSUME NEW c \in Calls PROVE CallInv(c)
    <2>1. sent[c] = NoRequest /\ path[c] = "idle" /\ stage[c] = "idle"
          /\ reply[c] = NoReply /\ lines[c] = <<>>
      BY <1>1 DEF RpcInit
    <2> QED
      BY <2>1 DEF CallInv, PositionInv, CarriedInv, LinesInv, LogInv, NoRequest
  <1> QED
    BY <1>2, <1>3 DEF RpcInv

LEMMA StepKeepsInv == RpcInv /\ [RpcNext]_rpcVars => RpcInv'
  <1> SUFFICES ASSUME RpcInv, [RpcNext]_rpcVars PROVE RpcInv'
    OBVIOUS
  <1>1. ASSUME NEW c \in Calls, NEW r \in Requests, Invoke(c, r) PROVE RpcInv'
    BY <1>1, InvokeKeepsInv
  <1>2. ASSUME NEW c \in Calls, Lose(c) PROVE RpcInv'
    BY <1>2, LoseKeepsInv
  <1>3. ASSUME NEW c \in Calls, Return(c) PROVE RpcInv'
    BY <1>3, ReturnKeepsInv
  <1>4. ASSUME NEW c \in Calls, Handle(c) PROVE RpcInv'
    BY <1>4, HandleKeepsInv
  <1>5. ASSUME NEW c \in Calls, DecodeFails(c) PROVE RpcInv'
    BY <1>5, DecodeFailsKeepsInv
  <1>6. ASSUME NEW c \in Calls, Execute(c) PROVE RpcInv'
    BY <1>6, ExecuteKeepsInv
  <1>7. ASSUME NEW c \in Calls, InterceptorLogsError(c) \/ InterceptorReturns(c) PROVE RpcInv'
    BY <1>7, InterceptorLogsErrorKeepsInv, InterceptorReturnsKeepsInv
  <1>8. CASE ProcessEnds
    BY <1>8, ProcessEndsKeepsInv
  <1>9. CASE Start
    BY <1>9, StartKeepsInv
  <1>10. CASE UNCHANGED rpcVars
    <2>1. UNCHANGED <<table, stage, req, reply, seen, up, path, sent, sentAt, packet, lines, result>>
      BY <1>10 DEF rpcVars, registryVars
    <2>2. RpcTypeOK' /\ Aged(table, table')
      BY <2>1, AgedReflexive DEF RpcInv, RpcTypeOK
    <2>3. \A c \in Calls : Untouched(c)
      BY <2>1 DEF Untouched
    <2> QED
      BY <2>2, <2>3, Frame DEF RpcInv
  <1> QED
    BY <1>1, <1>2, <1>3, <1>4, <1>5, <1>6, <1>7, <1>8, <1>9, <1>10 DEF RpcNext

LEMMA RpcInvariant == RpcSpec => []RpcInv
  BY InitInv, StepKeepsInv, PTL DEF RpcSpec

\* The variables of a call keep their types; in particular what the generated
\* handlers pass to the use cases is always a request.
THEOREM RpcTypeCorrect == RpcSpec => []RpcTypeOK
  <1>1. RpcInv => RpcTypeOK
    BY DEF RpcInv
  <1> QED
    BY <1>1, RpcInvariant, PTL

\* The lines that ServerInterceptor logs tell the outcome of the call
\* (logging_interceptor.go:29-45), for any calls that overlap, whatever gets lost
\* and whenever the process ends.
THEOREM LogIsTrue == RpcSpec => []LogTellsOutcome
  <1>1. RpcInv => LogTellsOutcome
    BY DEF RpcInv, CallInv, LogInv, LogTellsOutcome, Stored
  <1> QED
    BY <1>1, RpcInvariant, PTL

\* All lines about an agent's call carry the id that its interceptor drew.
THEOREM AgentCallsAreTraceable == RpcSpec => []AgentCallsTraceable
  <1>1. RpcInv => AgentCallsTraceable
    BY DEF RpcInv, CallInv, LogInv, AgentCallsTraceable
  <1> QED
    BY <1>1, RpcInvariant, PTL

-----------------------------------------------------------------------------
(* Callers see the registry: what each step looks like to them. *)

\* One call's stage and outcome change, or none.
LEMMA ClientStageOf ==
    ASSUME NEW c \in Calls, \A d \in Calls \ {c} : Untouched(d)
    PROVE  /\ ClientStage' = [ClientStage EXCEPT ![c] = ClientStage'[c]]
           /\ Outcome' = [Outcome EXCEPT ![c] = Outcome'[c]]
  BY DEF ClientStage, Outcome, Untouched

\* A call fails at its caller.
LEMMA FailsAtCaller ==
    ASSUME RpcInv, NEW c \in Calls, path[c] # "idle", path'[c] = "served",
           result'[c] = Error, UNCHANGED <<table, sent, sentAt>>,
           \A d \in Calls \ {c} : Untouched(d)
    PROVE  Client!Fail({c})
  <1>1. ClientStage[c] # "idle"
    BY DEF ClientStage
  <1>2. ClientStage'[c] = "answered" /\ Outcome'[c] = [status |-> "ERR", Services |-> {}]
    BY DEF ClientStage, Outcome, Error
  <1>3. /\ ClientStage' = [d \in Calls |-> IF d \in {c} THEN "answered" ELSE ClientStage[d]]
        /\ Outcome' = [d \in Calls |-> IF d \in {c} THEN [status |-> "ERR", Services |-> {}]
                                        ELSE Outcome[d]]
    <2>1. \A d \in Calls \ {c} : ClientStage'[d] = ClientStage[d] /\ Outcome'[d] = Outcome[d]
      BY DEF ClientStage, Outcome, Untouched
    <2>2. /\ ClientStage' = [d \in Calls |-> ClientStage'[d]]
          /\ Outcome' = [d \in Calls |-> Outcome'[d]]
      BY DEF ClientStage, Outcome
    <2> QED
      BY <1>2, <2>1, <2>2
  <1> QED
    BY <1>1, <1>3 DEF Client!Fail

LEMMA InvokeSeen ==
    ASSUME RpcInv, NEW c \in Calls, NEW r \in Requests, Invoke(c, r)
    PROVE  Client!Ask(c, r) \/ Client!Refuse(c, r)
  <1>1. /\ RpcTypeOK /\ path[c] = "idle" /\ stage[c] = "idle" /\ reply[c] = NoReply
        /\ sent' = [sent EXCEPT ![c] = r] /\ sentAt' = [sentAt EXCEPT ![c] = table]
        /\ UNCHANGED <<table, stage, reply>>
    BY DEF RpcInv, Invoke, registryVars, CallInv, PositionInv
  <1>2. \A d \in Calls \ {c} : Untouched(d)
    BY InvokeTypes DEF RpcInv
  <1>3. ClientStage[c] = "idle" /\ Outcome[c] = NoReply
    BY <1>1 DEF ClientStage, Outcome
  <1>4. CASE path'[c] = "wire"
    <2>1. ClientStage'[c] = "waiting" /\ Outcome'[c] = Outcome[c]
      BY <1>1, <1>3, <1>4 DEF ClientStage, Outcome
    <2>2. ClientStage' = [ClientStage EXCEPT ![c] = "waiting"] /\ Outcome' = Outcome
      BY <1>2, <2>1, ClientStageOf DEF Outcome
    <2> QED
      BY <1>1, <1>3, <2>2 DEF Client!Ask
  <1>5. CASE path'[c] = "served" /\ result'[c] = Error
    <2>1. ClientStage'[c] = "answered" /\ Outcome'[c] = [status |-> "ERR", Services |-> {}]
      BY <1>1, <1>5 DEF ClientStage, Outcome, Error
    <2>2. Client!Answer(c, "ERR", {})
      BY <1>2, <2>1, ClientStageOf DEF Client!Answer
    <2> QED
      BY <1>1, <1>3, <2>2 DEF Client!Refuse
  <1>6. path'[c] = "wire" \/ (path'[c] = "served" /\ result'[c] = Error)
    BY <1>1 DEF Invoke, Served, RpcTypeOK
  <1> QED
    BY <1>4, <1>5, <1>6

LEMMA LoseSeen ==
    ASSUME RpcInv, NEW c \in Calls, Lose(c)
    PROVE  Client!Fail({c}) \/ UNCHANGED Client!vars
  <1>1. /\ RpcTypeOK /\ path[c] \in {"wire", "handler", "erred", "served"}
        /\ path[c] = "erred" => stage[c] = "answered"
        /\ UNCHANGED <<table, stage, req, reply, seen, up, sent, sentAt, packet, lines>>
        /\ path' = [path EXCEPT ![c] = CASE @ = "handler" -> "orphan"
                                        [] @ = "erred" -> "erredOrphan"
                                        [] OTHER -> "served"]
        /\ result' = [result EXCEPT ![c] = Error]
    BY DEF RpcInv, Lose, registryVars, CallInv, PositionInv
  <1>2. \A d \in Calls \ {c} : Untouched(d)
    BY <1>1 DEF RpcTypeOK, Untouched
  <1>3. CASE path[c] \in {"handler", "erred"}
    <2>1. path'[c] \in {"orphan", "erredOrphan"}
      BY <1>1, <1>3 DEF RpcTypeOK
    <2>2. ClientStage'[c] = ClientStage[c] /\ Outcome'[c] = Outcome[c]
      BY <1>1, <1>3, <2>1 DEF ClientStage, Outcome
    <2>3. \A d \in Calls : ClientStage'[d] = ClientStage[d] /\ Outcome'[d] = Outcome[d]
      BY <1>2, <2>2 DEF ClientStage, Outcome, Untouched
    <2>4. ClientStage' = ClientStage /\ Outcome' = Outcome
      BY <2>3 DEF ClientStage, Outcome
    <2> QED
      BY <1>1, <2>4 DEF Client!vars
  <1>4. CASE path[c] \notin {"handler", "erred"}
    <2>1. path'[c] = "served" /\ result'[c] = Error
      BY <1>1, <1>4 DEF RpcTypeOK
    <2> QED
      BY <1>1, <1>2, <2>1, FailsAtCaller
  <1> QED
    BY <1>3, <1>4

LEMMA ReturnSeen ==
    ASSUME RpcInv, NEW c \in Calls, Return(c)
    PROVE  Client!Hangup(c)
  <1>1. /\ RpcTypeOK /\ CallInv(c) /\ path[c] = "served"
        /\ path' = [path EXCEPT ![c] = "idle"]
        /\ sent' = [sent EXCEPT ![c] = NoRequest] /\ sentAt' = [sentAt EXCEPT ![c] = <<>>]
        /\ packet' = [packet EXCEPT ![c] = NoPacket] /\ lines' = [lines EXCEPT ![c] = <<>>]
        /\ result' = [result EXCEPT ![c] = NoReply]
    BY DEF RpcInv, Return
  <1>2. \/ /\ UNCHANGED <<table, stage, req, reply, seen>>
           /\ stage[c] = "idle"
        \/ /\ table' = table
           /\ stage' = [stage EXCEPT ![c] = "idle"]
           /\ req' = [req EXCEPT ![c] = NoRequest]
           /\ reply' = [reply EXCEPT ![c] = NoReply]
           /\ seen' = [seen EXCEPT ![c] = <<>>]
    BY <1>1, SameData DEF Return, registryVars, Server!Hangup, CallInv, PositionInv, RpcTypeOK
  <1>3. \A d \in Calls \ {c} : Untouched(d)
    BY <1>1, <1>2 DEF RpcTypeOK, Untouched
  <1>4. reply'[c] = NoReply
    BY <1>1, <1>2 DEF RpcTypeOK, CallInv, PositionInv
  <1>5. ClientStage'[c] = "idle" /\ Outcome'[c] = NoReply /\ ClientStage[c] = "answered"
    BY <1>1, <1>4 DEF RpcTypeOK, ClientStage, Outcome
  <1>6. /\ ClientStage' = [ClientStage EXCEPT ![c] = "idle"]
        /\ Outcome' = [Outcome EXCEPT ![c] = NoReply]
    BY <1>3, <1>5, ClientStageOf
  <1> QED
    BY <1>1, <1>2, <1>5, <1>6, SameData DEF Client!Hangup

LEMMA HandleSeen ==
    ASSUME RpcInv, NEW c \in Calls, Handle(c)
    PROVE  UNCHANGED Client!vars
  <1>1. /\ RpcTypeOK /\ path[c] = "wire" /\ stage[c] = "idle"
        /\ UNCHANGED <<table, reply, sent, sentAt, packet, result>>
        /\ stage' = [stage EXCEPT ![c] = "waiting"]
        /\ path' = [path EXCEPT ![c] = "handler"]
    BY DEF RpcInv, Handle, Server!Ask
  <1>2. \A d \in Calls : ClientStage'[d] = ClientStage[d] /\ Outcome'[d] = Outcome[d]
    BY <1>1 DEF RpcTypeOK, ClientStage, Outcome
  <1>3. ClientStage' = ClientStage /\ Outcome' = Outcome
    BY <1>2 DEF ClientStage, Outcome
  <1> QED
    BY <1>1, <1>3 DEF Client!vars

LEMMA DecodeFailsSeen ==
    ASSUME RpcInv, NEW c \in Calls, DecodeFails(c)
    PROVE  Client!Fail({c})
  <1>1. /\ RpcTypeOK /\ path[c] = "wire"
        /\ UNCHANGED <<table, stage, req, reply, seen, sent, sentAt, packet, lines>>
        /\ path' = [path EXCEPT ![c] = "served"]
        /\ result' = [result EXCEPT ![c] = Error]
    BY DEF RpcInv, DecodeFails, Served, registryVars
  <1>2. \A d \in Calls \ {c} : Untouched(d)
    BY <1>1 DEF RpcTypeOK, Untouched
  <1>3. path'[c] = "served" /\ result'[c] = Error
    BY <1>1 DEF RpcTypeOK
  <1> QED
    BY <1>1, <1>2, <1>3, FailsAtCaller

\* When the use case answers or fails, so does the registry of the callers.
LEMMA ExecuteSeen ==
    ASSUME RpcInv, NEW c \in Calls, Execute(c)
    PROVE  Client!Next
  <1>1. /\ RpcTypeOK /\ path[c] \in {"handler", "orphan"} /\ stage[c] = "waiting"
        /\ req[c] = sent[c] /\ Aged(sentAt[c], seen[c])
        /\ UNCHANGED <<path, sent, sentAt, packet, lines, result>>
    BY DEF RpcInv, Execute, CallInv, CarriedInv
  <1>2. /\ sentAt[c] \in Seq(Rows) /\ seen[c] \in Seq(Rows)
        /\ Len(sentAt[c]) \in Nat /\ Len(seen[c]) \in Nat /\ Len(sentAt[c]) <= Len(seen[c])
    BY <1>1 DEF RpcTypeOK, Aged
  <1>3. ClientStage[c] = "waiting"
    BY <1>1 DEF ClientStage
  <1>4. ASSUME NEW status, NEW services, Server!Answer(c, status, services),
               UNCHANGED <<req, seen>>
        PROVE  Client!Answer(c, status, services)
    <2>1. /\ stage' = [stage EXCEPT ![c] = "answered"]
          /\ reply' = [reply EXCEPT ![c] = [status |-> status, Services |-> services]]
      BY <1>4 DEF Server!Answer
    <2>2. \A d \in Calls \ {c} : Untouched(d)
      BY <1>1, <1>4, <2>1 DEF RpcTypeOK, Untouched
    <2>3. /\ ClientStage'[c] = "answered"
          /\ Outcome'[c] = [status |-> status, Services |-> services]
      BY <1>1, <2>1 DEF RpcTypeOK, ClientStage, Outcome
    <2> QED
      BY <2>2, <2>3, ClientStageOf DEF Client!Answer
  <1>5. CASE Server!Register(c)
    <2>1. /\ sent[c].op = "Register" /\ Client!RowsAdded(sent[c], table, table')
          /\ Server!Answer(c, "OK", {}) /\ UNCHANGED <<req, seen>>
      BY <1>1, <1>5, SameData DEF Server!Register
    <2> QED
      BY <1>1, <1>3, <1>4, <2>1 DEF Client!Register, Client!Next
  <1>6. CASE Server!Unregister(c)
    <2>1. /\ sent[c].op = "Unregister"
          /\ Server!RowsMarked(sent[c].ServiceId, Len(seen[c]), table, table')
          /\ Server!Answer(c, "OK", {}) /\ UNCHANGED <<req, seen>>
      BY <1>1, <1>6 DEF Server!Unregister
    <2>2. Client!RowsMarked(sent[c].ServiceId, Len(sentAt[c]), table, table')
      <3>1. Len(table) \in Nat
        BY <1>1 DEF RpcTypeOK
      <3> QED
        BY <1>2, <2>1, <3>1 DEF Server!RowsMarked, Client!RowsMarked
    <2> QED
      BY <1>1, <1>3, <1>4, <2>1, <2>2 DEF Client!Unregister, Client!Next
  <1>7. CASE Server!Search(c)
    <2>1. /\ sent[c].op = "Search" /\ UNCHANGED <<table, req, seen>>
          /\ Server!Answer(c, "OK", Server!AliveServices(sent[c].ServiceDefinition))
      BY <1>1, <1>7 DEF Server!Search
    <2>2. Server!AliveServices(sent[c].ServiceDefinition)
            = Client!AliveServices(sent[c].ServiceDefinition)
      BY DEF Server!AliveServices, Client!AliveServices
    <2>3. Client!Answer(c, "OK", Client!AliveServices(sent[c].ServiceDefinition))
      BY <1>4, <2>1, <2>2
    <2> QED
      BY <1>1, <1>3, <2>1, <2>3 DEF Client!Search, Client!Next
  <1>8. CASE Server!Fail({c})
    <2>1. /\ UNCHANGED <<table, req, seen>>
          /\ stage' = [d \in Calls |-> IF d \in {c} THEN "answered" ELSE stage[d]]
          /\ reply' = [d \in Calls |-> IF d \in {c} THEN [status |-> "ERR", Services |-> {}]
                                      ELSE reply[d]]
      BY <1>8 DEF Server!Fail
    <2>2. \A d \in Calls :
            /\ ClientStage'[d] = IF d \in {c} THEN "answered" ELSE ClientStage[d]
            /\ Outcome'[d] = IF d \in {c} THEN [status |-> "ERR", Services |-> {}] ELSE Outcome[d]
      BY <1>1, <2>1 DEF ClientStage, Outcome
    <2>3. /\ ClientStage' = [d \in Calls |-> ClientStage'[d]]
          /\ Outcome' = [d \in Calls |-> Outcome'[d]]
      BY DEF ClientStage, Outcome
    <2>4. Client!Fail({c})
      BY <1>1, <1>3, <2>1, <2>2, <2>3 DEF Client!Fail
    <2> QED
      BY <2>4 DEF Client!Next
  <1> QED
    BY <1>5, <1>6, <1>7, <1>8 DEF Execute

LEMMA InterceptorLogsErrorSeen ==
    ASSUME RpcInv, NEW c \in Calls, InterceptorLogsError(c)
    PROVE  UNCHANGED Client!vars
  <1>1. /\ RpcTypeOK /\ path[c] \in {"handler", "orphan"} /\ stage[c] = "answered"
        /\ UNCHANGED <<table, stage, req, reply, seen, up, sent, sentAt, packet, result>>
        /\ path' = [path EXCEPT ![c] = IF @ = "handler" THEN "erred" ELSE "erredOrphan"]
    BY DEF RpcInv, InterceptorLogsError, registryVars
  <1>2. \A d \in Calls : ClientStage'[d] = ClientStage[d] /\ Outcome'[d] = Outcome[d]
    BY <1>1 DEF RpcTypeOK, ClientStage, Outcome
  <1>3. ClientStage' = ClientStage /\ Outcome' = Outcome
    BY <1>2 DEF ClientStage, Outcome
  <1> QED
    BY <1>1, <1>3 DEF Client!vars

LEMMA InterceptorReturnsSeen ==
    ASSUME RpcInv, NEW c \in Calls, InterceptorReturns(c)
    PROVE  Client!Fail({c}) \/ UNCHANGED Client!vars
  <1>1. /\ RpcTypeOK /\ stage[c] = "answered"
        /\ path[c] \in {"handler", "orphan", "erred", "erredOrphan"}
        /\ Orphaned(c) => result[c] = Error
        /\ UNCHANGED <<table, stage, req, reply, seen, up, sent, sentAt, packet>>
        /\ path' = [path EXCEPT ![c] = "served"]
        /\ result' = [result EXCEPT ![c] = IF Orphaned(c) THEN result[c] ELSE reply[c]]
    BY DEF RpcInv, InterceptorReturns, Checked, Orphaned, Served, registryVars, CallInv, PositionInv
  <1>2. \A d \in Calls \ {c} : lines'[d] = lines[d]
    BY <1>1 DEF InterceptorReturns, RpcTypeOK
  <1>3. \A d \in Calls \ {c} : Untouched(d)
    BY <1>1, <1>2 DEF RpcTypeOK, Untouched
  <1>4. /\ path'[c] = "served"
        /\ result'[c] = IF Orphaned(c) THEN result[c] ELSE reply[c]
    BY <1>1 DEF RpcTypeOK
  <1>5. CASE Orphaned(c)
    BY <1>1, <1>3, <1>4, <1>5, FailsAtCaller
  <1>6. CASE ~Orphaned(c)
    <2>1. \A d \in Calls : ClientStage'[d] = ClientStage[d] /\ Outcome'[d] = Outcome[d]
      BY <1>1, <1>3, <1>4, <1>6 DEF ClientStage, Outcome, Untouched
    <2>2. ClientStage' = ClientStage /\ Outcome' = Outcome
      BY <2>1 DEF ClientStage, Outcome
    <2> QED
      BY <1>1, <2>2 DEF Client!vars
  <1> QED
    BY <1>5, <1>6

\* The end of the process fails every call that has begun.
LEMMA ProcessEndsSeen ==
    ASSUME RpcInv, ProcessEnds
    PROVE  Client!Next
  <1> DEFINE C == {c \in Calls : path[c] # "idle"}
  <1>1. /\ RpcTypeOK /\ \A c \in Calls : path[c] = "idle" => stage[c] = "idle"
        /\ UNCHANGED <<table, req, seen, sent, sentAt>>
        /\ stage' = [c \in Calls |-> IF stage[c] # "idle" THEN "answered" ELSE stage[c]]
        /\ reply' = [c \in Calls |-> IF stage[c] # "idle" THEN Error ELSE reply[c]]
        /\ path' = [c \in Calls |-> IF path[c] = "idle" THEN "idle" ELSE "served"]
        /\ result' = [c \in Calls |-> IF path[c] = "idle" THEN result[c] ELSE Error]
    BY DEF ProcessEnds, RpcInv, CallInv, PositionInv, Server!Fail, Error
  <1>2. \A c \in C : ClientStage[c] # "idle"
    BY DEF ClientStage
  <1>3. \A d \in Calls :
            /\ ClientStage'[d] = IF d \in C THEN "answered" ELSE ClientStage[d]
            /\ Outcome'[d] = IF d \in C THEN Error ELSE Outcome[d]
    BY <1>1 DEF ClientStage, Outcome
  <1>4. /\ ClientStage' = [d \in Calls |-> ClientStage'[d]]
        /\ Outcome' = [d \in Calls |-> Outcome'[d]]
    BY DEF ClientStage, Outcome
  <1>5. Client!Fail(C)
    BY <1>1, <1>2, <1>3, <1>4 DEF Client!Fail, Error
  <1> QED
    BY <1>5 DEF Client!Next

LEMMA StepSeen == RpcInv /\ [RpcNext]_rpcVars => [Client!Next]_Client!vars
  <1> SUFFICES ASSUME RpcInv, [RpcNext]_rpcVars PROVE Client!Next \/ UNCHANGED Client!vars
    OBVIOUS
  <1>1. ASSUME NEW c \in Calls, NEW r \in Requests, Invoke(c, r) PROVE Client!Next
    BY <1>1, InvokeSeen, SameData DEF Client!Next
  <1>2. ASSUME NEW c \in Calls, Client!Fail({c}) PROVE Client!Next
    BY <1>2 DEF Client!Next
  <1>3. ASSUME NEW c \in Calls, Lose(c) PROVE Client!Next \/ UNCHANGED Client!vars
    BY <1>2, <1>3, LoseSeen
  <1>4. ASSUME NEW c \in Calls, Return(c) PROVE Client!Next
    BY <1>4, ReturnSeen DEF Client!Next
  <1>5. ASSUME NEW c \in Calls, Handle(c) PROVE UNCHANGED Client!vars
    BY <1>5, HandleSeen
  <1>6. ASSUME NEW c \in Calls, DecodeFails(c) PROVE Client!Next
    BY <1>2, <1>6, DecodeFailsSeen
  <1>7. ASSUME NEW c \in Calls, Execute(c) PROVE Client!Next
    BY <1>7, ExecuteSeen
  <1>8. ASSUME NEW c \in Calls, InterceptorLogsError(c) \/ InterceptorReturns(c)
        PROVE  Client!Next \/ UNCHANGED Client!vars
    BY <1>2, <1>8, InterceptorLogsErrorSeen, InterceptorReturnsSeen
  <1>9. CASE ProcessEnds
    BY <1>9, ProcessEndsSeen
  <1>10. CASE Start \/ UNCHANGED rpcVars
    <2>1. UNCHANGED <<table, stage, reply, path, sent, sentAt, result>>
      BY <1>10 DEF Start, rpcVars, registryVars
    <2> QED
      BY <2>1 DEF Client!vars, ClientStage, Outcome
  <1> QED
    BY <1>1, <1>3, <1>4, <1>5, <1>6, <1>7, <1>8, <1>9, <1>10 DEF RpcNext

LEMMA InitSeen == RpcInit => Client!Init
  BY SameData DEF RpcInit, Server!Init, Client!Init, ClientStage, Outcome

\* What callers see through their stubs is the atomic registry.  With
\* MasterImplementsRegistry of DiscoveryMasterRefinement, which puts the master's
\* use cases in the place of the registry's, it spans the path of a call from the
\* stub of an agent to SQLite and back.
THEOREM CallersSeeTheRegistry == RpcSpec => CallersSeeRegistry
  <1>1. RpcInv /\ [RpcNext]_rpcVars => [Client!Next]_Client!vars
    BY StepSeen
  <1> QED
    BY <1>1, InitSeen, RpcInvariant, PTL DEF RpcSpec, CallersSeeRegistry, Client!Spec

=============================================================================
