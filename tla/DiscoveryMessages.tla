-------------------------- MODULE DiscoveryMessages --------------------------
(***************************************************************************)
(* The messages of DiscoveryService on the wire, as protoc generated them  *)
(* for the master and the agents (grpc_gen) and for the gateway.  An       *)
(* encoded message is a function from field numbers to values.  A field    *)
(* that has its zero value is not sent, and a field that was not sent has  *)
(* its zero value in the decoded message.                                  *)
(***************************************************************************)
EXTENDS DiscoveryData

\* new(T): the zero value of each message's struct.
ZeroSearchRequest == [op |-> "Search", ServiceDefinition |-> ""]
ZeroRegisterRequest == [op |-> "Register", Service |-> "", ServiceId |-> "", Handlers |-> {}]
ZeroUnregisterRequest == [op |-> "Unregister", ServiceId |-> ""]
ZeroRequest == [Search |-> ZeroSearchRequest, Register |-> ZeroRegisterRequest,
                Unregister |-> ZeroUnregisterRequest]

\* The raw descriptor: the number of each field.
FieldNumber == [Search |-> [ServiceDefinition |-> 1],
                Register |-> [Service |-> 1, ServiceId |-> 2, Handlers |-> 3],
                Unregister |-> [ServiceId |-> 1]]

FieldsOf(op) == DOMAIN FieldNumber[op]

\* proto.Marshal and proto.Unmarshal.
Marshal(r) ==
    LET number == FieldNumber[r.op]
        present == {f \in FieldsOf(r.op) : r[f] # ZeroRequest[r.op][f]}
    IN  [n \in {number[f] : f \in present} |-> r[CHOOSE f \in present : number[f] = n]]

\* Faulty variant: the server was built from a contract with two numbers swapped.
UnmarshalRenumbered(op, body) ==
    [f \in FieldsOf(op) \cup {"op"} |->
        IF f = "op" THEN op
        ELSE LET n == IF f = "Service" THEN 2 ELSE IF f = "ServiceId" /\ op = "Register" THEN 1
                      ELSE FieldNumber[op][f]
             IN  IF n \in DOMAIN body THEN body[n] ELSE ZeroRequest[op][f]]

Unmarshal(op, body) ==
    [f \in FieldsOf(op) \cup {"op"} |->
        IF f # "op" /\ FieldNumber[op][f] \in DOMAIN body
        THEN body[FieldNumber[op][f]]
        ELSE ZeroRequest[op][f]]

\* The stub of each request calls the method of its name; the service descriptor
\* names the handler of each method, which decodes the method's input message
\* and calls the server.
MethodOf == [Search |-> "GetServiceHandlers", Register |-> "RegisterServiceHandlers",
             Unregister |-> "UnregisterService"]
\* Faulty variant: an entry of the descriptor names another method's handler.
HandlerCopied == [GetServiceHandlers |-> "Search", RegisterServiceHandlers |-> "Register",
                  UnregisterService |-> "Search"]

HandlerOf == [GetServiceHandlers |-> "Search", RegisterServiceHandlers |-> "Register",
              UnregisterService |-> "Unregister"]
=============================================================================
