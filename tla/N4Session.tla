------------------------------ MODULE N4Session ------------------------------
(***************************************************************************)
(* The N4 layer as it is built: the PFCP client of each SMF instance        *)
(* (internal/smf/pfcp_client.go), the UDP path, and the UPF server          *)
(* (internal/upf/server.go).                                                *)
(*                                                                         *)
(* Every PDU session job makes one establishment call.  A client allocates  *)
(* a sequence number, registers a one-place channel under it in `pending',  *)
(* writes the request and waits for the channel or for two seconds.  A      *)
(* receive goroutine looks the answer's sequence number up under a read     *)
(* lock and sends to the channel after the unlock.  The UPF keeps its       *)
(* sessions by sequence number alone.                                       *)
(*                                                                         *)
(* `Smf' is the set of client instances: pods of one deployment, or the     *)
(* incarnations of a pod that is restarted.  Each counts from zero.         *)
(***************************************************************************)
EXTENDS Naturals

CONSTANTS
  Call,       \* establishment calls, one per PDU session job
  Smf,        \* PFCP client instances, each with its own UDP port
  Owner,      \* the instance that makes each call
  Address,    \* UE addresses
  IpOf,       \* the address each call asks the UPF to install
  SeqSpace,   \* number of sequence numbers (2^32 in the code)
  NoCall,     \* an unused entry of `pending'
  NoIp        \* an unused entry of the UPF's `sessions'

ASSUME N4Assumption ==
  /\ Owner \in [Call -> Smf]
  /\ IpOf \in [Call -> Address]
  /\ SeqSpace \in Nat \ {0}
  /\ NoCall \notin Call
  /\ NoIp \notin Address

VARIABLES
  seqCounter,   \* atomic counter of each client
  pending,      \* pending[s][n]: the call whose channel client s has under n
  pc,           \* where each call stands in SendSessionEstablishmentRequest
  seq,          \* the sequence number of each call
  inbox,        \* TRUE when the call's one-place channel holds an answer
  result,       \* what the call returns
  routing,      \* channels held by goroutines of handleResponse after the lookup
  requests,     \* datagrams ever written to the UPF
  responses,    \* datagrams ever written by the UPF
  sessions      \* the UPF's sessions, by sequence number

clientVars == <<seqCounter, pending, pc, seq, inbox, result, routing>>
n4sVars == <<seqCounter, pending, pc, seq, inbox, result, routing,
             requests, responses, sessions>>

SeqNum == 0 .. (SeqSpace - 1)
CallState == {"idle", "allocated", "registered", "waiting", "closing", "returned"}
Request == [seq : SeqNum, from : Smf, ip : Address]
Response == [seq : SeqNum, to : Smf]

TypeOK ==
  /\ seqCounter \in [Smf -> SeqNum]
  /\ pending \in [Smf -> [SeqNum -> Call \cup {NoCall}]]
  /\ pc \in [Call -> CallState]
  /\ seq \in [Call -> SeqNum]
  /\ inbox \in [Call -> BOOLEAN]
  /\ result \in [Call -> {"none", "ok", "error"}]
  /\ routing \in SUBSET Call
  /\ requests \in SUBSET Request
  /\ responses \in SUBSET Response
  /\ sessions \in [SeqNum -> Address \cup {NoIp}]

Init ==
  /\ seqCounter = [s \in Smf |-> 0]
  /\ pending = [s \in Smf |-> [n \in SeqNum |-> NoCall]]
  /\ pc = [c \in Call |-> "idle"]
  /\ seq = [c \in Call |-> 0]
  /\ inbox = [c \in Call |-> FALSE]
  /\ result = [c \in Call |-> "none"]
  /\ routing = {}
  /\ requests = {}
  /\ responses = {}
  /\ sessions = [n \in SeqNum |-> NoIp]

-----------------------------------------------------------------------------
(* The calling worker. *)

(* Mutant: the number is cut to a narrower field. *)
NextSeqNarrow(n) == (n + 1) % 2

NextSeq(n) == (n + 1) % SeqSpace

RequestOf(c) == [seq |-> seq[c], from |-> Owner[c], ip |-> IpOf[c]]

Goto(c, from, to) == pc[c] = from /\ pc' = [pc EXCEPT ![c] = to]

(* atomic.AddUint32 and EncodeRequest, whose address is always valid here. *)
Allocate(c) ==
  /\ Goto(c, "idle", "allocated")
  /\ seqCounter' = [seqCounter EXCEPT ![Owner[c]] = NextSeq(@)]
  /\ seq' = [seq EXCEPT ![c] = NextSeq(seqCounter[Owner[c]])]
  /\ UNCHANGED <<pending, inbox, result, routing, requests, responses, sessions>>

(* A fresh channel goes under the number, whatever was there. *)
Register(c) ==
  /\ Goto(c, "allocated", "registered")
  /\ pending' = [pending EXCEPT ![Owner[c]][seq[c]] = c]
  /\ UNCHANGED <<seqCounter, seq, inbox, result, routing, requests, responses, sessions>>

WriteRequest(c) ==
  /\ Goto(c, "registered", "waiting")
  /\ requests' = requests \cup {RequestOf(c)}
  /\ UNCHANGED <<seqCounter, pending, seq, inbox, result, routing, responses, sessions>>

(* Mutant: the delete is not deferred, and this way out forgets it. *)
WriteFailsLeaks(c) ==
  /\ Goto(c, "registered", "returned")
  /\ result' = [result EXCEPT ![c] = "error"]
  /\ UNCHANGED <<seqCounter, pending, seq, inbox, routing, requests, responses, sessions>>

WriteFails(c) ==
  /\ Goto(c, "registered", "closing")
  /\ result' = [result EXCEPT ![c] = "error"]
  /\ UNCHANGED <<seqCounter, pending, seq, inbox, routing, requests, responses, sessions>>

(* The UPF answers nothing but cause 1, so an answer taken is a success. *)
TakeResponse(c) ==
  /\ inbox[c]
  /\ Goto(c, "waiting", "closing")
  /\ inbox' = [inbox EXCEPT ![c] = FALSE]
  /\ result' = [result EXCEPT ![c] = "ok"]
  /\ UNCHANGED <<seqCounter, pending, seq, routing, requests, responses, sessions>>

(* Mutant: the select has no timer. *)
TimeOutNever(c) == FALSE /\ UNCHANGED n4sVars

(* Two seconds are over.  The select may choose this with an answer at hand. *)
TimeOut(c) ==
  /\ Goto(c, "waiting", "closing")
  /\ result' = [result EXCEPT ![c] = "error"]
  /\ UNCHANGED <<seqCounter, pending, seq, inbox, routing, requests, responses, sessions>>

(* The deferred delete, on every way out. *)
Unregister(c) ==
  /\ Goto(c, "closing", "returned")
  /\ pending' = [pending EXCEPT ![Owner[c]][seq[c]] = NoCall]
  /\ UNCHANGED <<seqCounter, seq, inbox, result, routing, requests, responses, sessions>>

CallStep(c) ==
  \/ Register(c)
  \/ WriteRequest(c) \/ WriteFails(c)
  \/ TakeResponse(c) \/ TimeOut(c)
  \/ Unregister(c)

-----------------------------------------------------------------------------
(* The UPF and the two goroutine families.  A datagram once written may be  *)
(* handled late, in any order, more than once or never.                     *)

(* Mutant: an answer goes out although the session is not stored. *)
HandlePacketNoSave(q) ==
  /\ responses' = responses \cup {[seq |-> q.seq, to |-> q.from]}
  /\ UNCHANGED <<clientVars, requests, sessions>>

HandlePacket(q) ==
  /\ sessions' = [sessions EXCEPT ![q.seq] = q.ip]
  /\ responses' = responses \cup {[seq |-> q.seq, to |-> q.from]}
  /\ UNCHANGED <<clientVars, requests>>

(* The lookup, under the read lock; an unknown number is dropped. *)
RouteResponse(m) ==
  /\ pending[m.to][m.seq] # NoCall
  /\ routing' = routing \cup {pending[m.to][m.seq]}
  /\ UNCHANGED <<seqCounter, pending, pc, seq, inbox, result, requests, responses, sessions>>

(* The send that does not block; a full channel drops the answer. *)
DeliverResponse(c) ==
  /\ c \in routing
  /\ routing' = routing \ {c}
  /\ inbox' = [inbox EXCEPT ![c] = TRUE]
  /\ UNCHANGED <<seqCounter, pending, pc, seq, result, requests, responses, sessions>>

Next ==
  \/ \E c \in Call : Allocate(c) \/ CallStep(c) \/ DeliverResponse(c)
  \/ \E q \in requests : HandlePacket(q)
  \/ \E m \in responses : RouteResponse(m)

Spec == Init /\ [][Next]_n4sVars

(* A goroutine that can run is scheduled; nothing is assumed of the network. *)
Fairness == \A c \in Call : WF_n4sVars(CallStep(c))

FairSpec == Spec /\ Fairness

-----------------------------------------------------------------------------
(* What the SMF relies on. *)

(* All calls are made by one client: one pod, never restarted.              *)
OneClient == \A c, d \in Call : Owner[c] = Owner[d]

Started(c) == pc[c] # "idle"
Open(c) == pc[c] \in {"registered", "waiting", "closing"}
Installed(c) == Started(c) /\ sessions[seq[c]] = IpOf[c]

(* A call that returned, or is about to return, success has its address in  *)
(* the UPF under its own number, and keeps it there (server.go:105-112): a  *)
(* late, duplicated or foreign answer never makes a call succeed, and no    *)
(* later request takes the session over.                                    *)
AcceptedIsInstalled == \A c \in Call : result[c] = "ok" => Installed(c)

(* The registrations of a client are exactly its open calls: none is leaked *)
(* by a way out of the call (the map of pfcp_client.go:19 would grow for    *)
(* ever) and none is lost or taken over while its owner waits for it.       *)
PendingIsOpen ==
  /\ \A c \in Call : Open(c) => pending[Owner[c]][seq[c]] = c
  /\ \A s \in Smf, n \in SeqNum :
       pending[s][n] # NoCall =>
         Open(pending[s][n]) /\ Owner[pending[s][n]] = s /\ seq[pending[s][n]] = n

(* A worker that started a call gets out of it, answered or not             *)
(* (pfcp_client.go:138-146): it is never held by the network.               *)
CallReturns == \A c \in Call : Started(c) ~> pc[c] = "returned"

(* What the caller knows of its call. *)
OutcomeOf(c) ==
  CASE pc[c] \in {"idle", "allocated"} -> "idle"
    [] pc[c] \in {"registered", "waiting"} -> "waiting"
    [] OTHER -> IF result[c] = "ok" THEN "ok" ELSE "failed"

N4 == INSTANCE N4Transaction WITH
  outcome <- [c \in Call |-> OutcomeOf(c)],
  installed <- {c \in Call : Installed(c)}

(* The client, the network and the UPF keep the promise of the N4 layer:    *)
(* every step of theirs is a step of N4Transaction or none                  *)
(* (pfcp_client.go:111-147 with server.go:86-126).                          *)
ImplementsTransaction == N4!N4Spec
=============================================================================
