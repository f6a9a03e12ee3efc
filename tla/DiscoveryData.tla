---------------------------- MODULE DiscoveryData ----------------------------
(***************************************************************************)
(* What the discovery master stores and what travels between it and its    *)
(* clients: the rows of table ServiceHandler and the requests and replies  *)
(* of the DiscoveryService.  Names are opaque values.                      *)
(***************************************************************************)
EXTENDS Integers, Sequences

CONSTANTS
    Urls,       \* service addresses (column Service)
    Instances,  \* agent instance ids (column InstanceId)
    Handlers,   \* names of gRPC services (column Handler)
    HandlerSets \* the sets of handlers that a Register request carries

ASSUME HandlerSetsAssumption == HandlerSets \subseteq SUBSET Handlers

\* gRPC reflection lists each service of a server once, so the list of names
\* that a Register request carries is a set.
RegisterRequests == [op : {"Register"}, Service : Urls, ServiceId : Instances,
                     Handlers : HandlerSets]
UnregisterRequests == [op : {"Unregister"}, ServiceId : Instances]
SearchRequests == [op : {"Search"}, ServiceDefinition : Handlers]
Requests == RegisterRequests \cup UnregisterRequests \cup SearchRequests
NoRequest == [op |-> "None"]

\* A row of the table; its ServiceMethodId is its position in the table.
Rows == [Service : Urls, InstanceId : Instances, Handler : Handlers,
         IsAlive : {0, 1}]

\* A gRPC reply: OK with a response message, or an error.
NoReply == [status |-> "none", Services |-> {}]
Replies == [status : {"none", "OK", "ERR"}, Services : SUBSET Urls]
=============================================================================
