--------------------------- MODULE ServiceRegistry ---------------------------
(***************************************************************************)
(* What the discovery master promises to its clients: every call that is   *)
(* answered OK takes effect in one step between its arrival and its        *)
(* answer, and a call that fails has taken effect in one step or not at    *)
(* all.  There are no transactions, no locks and no partial writes here.   *)
(***************************************************************************)
EXTENDS DiscoveryData

CONSTANT Calls

VARIABLES
    table,   \* all rows ever registered, in the order they were added
    stage,   \* "idle", "waiting" or "answered", for each call
    req,     \* the request of each call
    reply,   \* its answer
    seen     \* the table when the call arrived

vars == <<table, stage, req, reply, seen>>

Init ==
    /\ table = <<>>
    /\ stage = [c \in Calls |-> "idle"]
    /\ req = [c \in Calls |-> NoRequest]
    /\ reply = [c \in Calls |-> NoReply]
    /\ seen = [c \in Calls |-> <<>>]

Answer(c, status, services) ==
    /\ stage' = [stage EXCEPT ![c] = "answered"]
    /\ reply' = [reply EXCEPT ![c] = [status |-> status, Services |-> services]]

Ask(c, r) ==
    /\ stage[c] = "idle"
    /\ stage' = [stage EXCEPT ![c] = "waiting"]
    /\ req' = [req EXCEPT ![c] = r]
    /\ seen' = [seen EXCEPT ![c] = table]
    /\ UNCHANGED <<table, reply>>

\* The request's rows, and no others, are added: one for each handler, alive.
RowFor(r, h) == [Service |-> r.Service, InstanceId |-> r.ServiceId,
                 Handler |-> h, IsAlive |-> 1]

RowsAdded(r, old, new) ==
    /\ Len(old) <= Len(new)
    /\ \A i \in 1 .. Len(old) : new[i] = old[i]
    /\ \A i \in Len(old) + 1 .. Len(new) :
          \E h \in r.Handlers : new[i] = RowFor(r, h)
    /\ \A h \in r.Handlers :
          \E i \in Len(old) + 1 .. Len(new) : new[i] = RowFor(r, h)
    /\ \A i, j \in Len(old) + 1 .. Len(new) : new[i] = new[j] => i = j

Register(c) ==
    /\ stage[c] = "waiting"
    /\ req[c].op = "Register"
    /\ RowsAdded(req[c], table, table')
    /\ Answer(c, "OK", {})
    /\ UNCHANGED <<req, seen>>

\* The instance's rows are marked dead, all those the call could know of
\* (added before it arrived) and perhaps some added since; no other changes.
RowsMarked(id, known, old, new) ==
    /\ Len(new) = Len(old)
    /\ \A i \in 1 .. Len(old) :
          \/ /\ old[i].InstanceId = id
             /\ new[i] = [old[i] EXCEPT !.IsAlive = 0]
          \/ /\ old[i].InstanceId = id => i > known
             /\ new[i] = old[i]

Unregister(c) ==
    /\ stage[c] = "waiting"
    /\ req[c].op = "Unregister"
    /\ RowsMarked(req[c].ServiceId, Len(seen[c]), table, table')
    /\ Answer(c, "OK", {})
    /\ UNCHANGED <<req, seen>>

\* A search lists the addresses that have a row alive for the handler at one
\* moment of the call, each once.
AliveServices(handler) ==
    {table[i].Service :
        i \in {j \in 1 .. Len(table) : table[j].Handler = handler /\ table[j].IsAlive = 1}}

Search(c) ==
    /\ stage[c] = "waiting"
    /\ req[c].op = "Search"
    /\ Answer(c, "OK", AliveServices(req[c].ServiceDefinition))
    /\ UNCHANGED <<table, req, seen>>

\* Calls fail, one alone or all that are in progress when the process dies.
Fail(C) ==
    /\ \A c \in C : stage[c] # "idle"
    /\ stage' = [c \in Calls |-> IF c \in C THEN "answered" ELSE stage[c]]
    /\ reply' = [c \in Calls |-> IF c \in C THEN [status |-> "ERR", Services |-> {}]
                                 ELSE reply[c]]
    /\ UNCHANGED <<table, req, seen>>

\* Nobody is there to take the call.
Refuse(c, r) ==
    /\ stage[c] = "idle"
    /\ Answer(c, "ERR", {})
    /\ req' = [req EXCEPT ![c] = r]
    /\ seen' = [seen EXCEPT ![c] = table]
    /\ UNCHANGED table

Hangup(c) ==
    /\ stage[c] = "answered"
    /\ stage' = [stage EXCEPT ![c] = "idle"]
    /\ req' = [req EXCEPT ![c] = NoRequest]
    /\ reply' = [reply EXCEPT ![c] = NoReply]
    /\ seen' = [seen EXCEPT ![c] = <<>>]
    /\ UNCHANGED table

Next ==
    \/ \E c \in Calls :
          \/ \E r \in Requests : Ask(c, r) \/ Refuse(c, r)
          \/ Register(c) \/ Unregister(c) \/ Search(c)
          \/ Hangup(c)
    \/ \E C \in SUBSET Calls : Fail(C)

Spec == Init /\ [][Next]_vars
=============================================================================
