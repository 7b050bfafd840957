------------------------------ MODULE Dashboard ------------------------------
(***************************************************************************)
(* The dashboard hub of the SMF (internal/smf/dashboard.go): one goroutine  *)
(* that owns the set of client channels, and one HTTP handler per browser   *)
(* that streams what arrives on its channel.                                *)
(*                                                                         *)
(* `register' and `unregister' have no buffer: a handler waits there until  *)
(* the hub is back at its select.  Both sends of an event are dropped when  *)
(* the channel is full.  A handler may be held by a browser that does not   *)
(* read, for ever: the response has no write deadline.                      *)
(***************************************************************************)
EXTENDS Naturals, Sequences

CONSTANTS
  Client,        \* browsers, one stream each
  BroadcastCap,  \* capacity of `broadcast' (200)
  ClientCap,     \* capacity of a client channel (20)
  MaxEvents      \* bound of the model: events broadcast

ASSUME DashboardAssumption ==
  /\ BroadcastCap \in Nat \ {0}
  /\ ClientCap \in Nat \ {0}
  /\ MaxEvents \in Nat

VARIABLES
  events,     \* number of BroadcastEvent calls; an event is known by its number
  broadcast,  \* events waiting for the hub
  message,    \* the event the hub took last
  todo,       \* clients it has not offered that event to yet
  clients,    \* the registered channels
  buffer,     \* the channel of each client
  closed,     \* clients whose channel is closed
  pc,         \* ServeHTTP of each client
  shown,      \* the event each handler took from its channel last
  left        \* clients that closed their connection

hubVars == <<message, todo, clients, closed>>
handlerVars == <<pc, shown, left>>
vars == <<events, broadcast, buffer, hubVars, handlerVars>>

HandlerState == {"idle", "registering", "writing", "streaming", "leaving", "gone"}
Event == 1 .. MaxEvents

TypeOK ==
  /\ events \in 0 .. MaxEvents
  /\ broadcast \in Seq(Event)
  /\ message \in 0 .. MaxEvents
  /\ todo \in SUBSET Client
  /\ clients \in SUBSET Client
  /\ buffer \in [Client -> Seq(Event)]
  /\ closed \in SUBSET Client
  /\ pc \in [Client -> HandlerState]
  /\ shown \in [Client -> 0 .. MaxEvents]
  /\ left \in SUBSET Client

Init ==
  /\ events = 0
  /\ broadcast = <<>>
  /\ message = 0
  /\ todo = {}
  /\ clients = {}
  /\ buffer = [c \in Client |-> <<>>]
  /\ closed = {}
  /\ pc = [c \in Client |-> "idle"]
  /\ shown = [c \in Client |-> 0]
  /\ left = {}

-----------------------------------------------------------------------------
(* Whoever has an event for the dashboards; it never waits. *)

BroadcastEvent ==
  /\ events < MaxEvents
  /\ events' = events + 1
  /\ \/ Len(broadcast) < BroadcastCap /\ broadcast' = Append(broadcast, events + 1)
     \/ Len(broadcast) = BroadcastCap /\ UNCHANGED broadcast
  /\ UNCHANGED <<buffer, hubVars, handlerVars>>

-----------------------------------------------------------------------------
(* The hub goroutine. *)

AtSelect == todo = {}

Goto(c, from, to) == pc[c] = from /\ pc' = [pc EXCEPT ![c] = to]

(* The new handler goes on to write the first "ping". *)
Register(c) ==
  /\ AtSelect
  /\ Goto(c, "registering", "writing")
  /\ clients' = clients \cup {c}
  /\ UNCHANGED <<events, broadcast, buffer, message, todo, closed, shown, left>>

(* Mutant: the channel is closed but stays in the map. *)
UnregisterKeeps(c) ==
  /\ AtSelect
  /\ Goto(c, "leaving", "gone")
  /\ closed' = closed \cup {c}
  /\ UNCHANGED <<events, broadcast, buffer, message, todo, clients, shown, left>>

Unregister(c) ==
  /\ AtSelect
  /\ Goto(c, "leaving", "gone")
  /\ clients' = clients \ {c}
  /\ closed' = closed \cup (clients \cap {c})
  /\ UNCHANGED <<events, broadcast, buffer, message, todo, shown, left>>

TakeEvent ==
  /\ AtSelect
  /\ broadcast # <<>>
  /\ message' = Head(broadcast)
  /\ broadcast' = Tail(broadcast)
  /\ todo' = clients
  /\ UNCHANGED <<events, buffer, clients, closed, handlerVars>>

(* Mutant: an event that finds a full channel is offered again later. *)
OfferAgain(c) ==
  /\ c \in todo
  /\ todo' = todo \ {c}
  /\ \/ /\ Len(buffer[c]) < ClientCap
        /\ buffer' = [buffer EXCEPT ![c] = Append(@, message)]
        /\ UNCHANGED broadcast
     \/ /\ Len(buffer[c]) = ClientCap
        /\ Len(broadcast) < BroadcastCap
        /\ broadcast' = Append(broadcast, message)
        /\ UNCHANGED buffer
  /\ UNCHANGED <<events, message, clients, closed, handlerVars>>

(* Mutant: the send has no default case. *)
OfferBlocks(c) ==
  /\ c \in todo
  /\ Len(buffer[c]) < ClientCap
  /\ todo' = todo \ {c}
  /\ buffer' = [buffer EXCEPT ![c] = Append(@, message)]
  /\ UNCHANGED <<events, broadcast, message, clients, closed, handlerVars>>

(* One turn of the loop over the map, in whatever order it has. *)
Offer(c) ==
  /\ c \in todo
  /\ todo' = todo \ {c}
  /\ \/ /\ Len(buffer[c]) < ClientCap
        /\ buffer' = [buffer EXCEPT ![c] = Append(@, message)]
     \/ Len(buffer[c]) = ClientCap /\ UNCHANGED buffer
  /\ UNCHANGED <<events, broadcast, message, clients, closed, handlerVars>>

HubStep == TakeEvent \/ \E c \in Client : Register(c) \/ Unregister(c) \/ Offer(c)

-----------------------------------------------------------------------------
(* ServeHTTP, one goroutine per client. *)

Connect(c) ==
  /\ Goto(c, "idle", "registering")
  /\ UNCHANGED <<events, broadcast, buffer, hubVars, shown, left>>

(* The browser goes away, at any point of its stream. *)
Disconnect(c) ==
  /\ pc[c] \in {"registering", "writing", "streaming"}
  /\ c \notin left
  /\ left' = left \cup {c}
  /\ UNCHANGED <<events, broadcast, buffer, hubVars, pc, shown>>

Receive(c) ==
  /\ Goto(c, "streaming", "writing")
  /\ buffer[c] # <<>>
  /\ shown' = [shown EXCEPT ![c] = Head(buffer[c])]
  /\ buffer' = [buffer EXCEPT ![c] = Tail(@)]
  /\ UNCHANGED <<events, broadcast, hubVars, left>>

(* Write and Flush return, when the browser reads or the connection is gone. *)
Written(c) ==
  /\ Goto(c, "writing", "streaming")
  /\ UNCHANGED <<events, broadcast, buffer, hubVars, shown, left>>

(* Mutant: the handler waits for its channel only. *)
LeaveClosed(c) ==
  /\ Goto(c, "streaming", "leaving")
  /\ c \in closed /\ buffer[c] = <<>>
  /\ UNCHANGED <<events, broadcast, buffer, hubVars, shown, left>>

(* The request's context is done, or the channel was closed. *)
Leave(c) ==
  /\ Goto(c, "streaming", "leaving")
  /\ c \in left \/ (c \in closed /\ buffer[c] = <<>>)
  /\ UNCHANGED <<events, broadcast, buffer, hubVars, shown, left>>

HandlerStep(c) ==
  Connect(c) \/ Disconnect(c) \/ Receive(c) \/ Written(c) \/ Leave(c)

Next == BroadcastEvent \/ HubStep \/ \E c \in Client : HandlerStep(c)

Spec == Init /\ [][Next]_vars

(* The hub runs, and its select, which picks uniformly among the cases that *)
(* are ready, does not pass over one for ever; nor does a handler's.  A     *)
(* write to a closed connection returns; nothing is assumed of a browser    *)
(* that is connected.                                                       *)
Fairness ==
  /\ WF_vars(HubStep)
  /\ \A c \in Client :
       /\ SF_vars(Register(c)) /\ SF_vars(Unregister(c)) /\ SF_vars(Leave(c))
       /\ WF_vars(c \in left /\ Written(c))

FairSpec == Spec /\ Fairness

-----------------------------------------------------------------------------
Serving == {"writing", "streaming", "leaving"}

(* The hub sends only to channels that are open: a channel is registered    *)
(* from the moment its handler starts to serve until the hub closes it, and *)
(* closed exactly once (dashboard.go:37-53, 83-85).  A send to a closed     *)
(* channel would panic and end the SMF.                                     *)
RegisteredIsOpen ==
  /\ clients = {c \in Client : pc[c] \in Serving}
  /\ todo \subseteq clients
  /\ closed = {c \in Client : pc[c] = "gone"}

(* What a browser is shown is in the order in which it was broadcast, with  *)
(* nothing twice, whatever was dropped on the way (dashboard.go:44-53, 66). *)
ShownInOrder ==
  [][\A c \in Client :
       pc[c] = "streaming" /\ pc'[c] = "writing" => shown[c] < shown'[c]]_vars

(* A new browser is let in, however many others do not read their streams   *)
(* (dashboard.go:47-51).                                                    *)
NewIsAdmitted == \A c \in Client : pc[c] = "registering" ~> pc[c] # "registering"

(* A browser that goes away is let go: its handler ends and its channel is  *)
(* taken out of the map, whatever the others do (dashboard.go:83-108).      *)
GoneIsReleased == \A c \in Client : c \in left ~> pc[c] = "gone" /\ c \notin clients
=============================================================================
