------------------------------- MODULE UpfServer -------------------------------
(***************************************************************************)
(* The UPF's UDP server (internal/upf/server.go) byte by byte: listenLoop   *)
(* reads every datagram into the one buffer it has, copies it and starts a  *)
(* goroutine of handlePacket; the goroutines decode, store under the lock   *)
(* and answer side by side.                                                 *)
(*                                                                         *)
(* N4Session has the establishments of the system with its client; here are *)
(* the codec, the modification, which nothing in the system sends yet, and  *)
(* datagrams that are no requests.                                          *)
(***************************************************************************)
EXTENDS PfcpWire, FiniteSets

CONSTANTS
  Datagram,    \* what may arrive at the port, any of it more than once
  Goroutine    \* bound on the datagrams of a behaviour

ASSUME UpfAssumption == Datagram \subseteq Seq(Byte)

VARIABLES
  loop,       \* where listenLoop is
  buf,        \* its buffer
  taken,      \* what ReadFromUDP has returned so far
  handler, data,   \* each goroutine of handlePacket and the datagram it has
  stored,     \* the UPF's sessions by sequence number
  answers     \* datagrams written

upfVars == <<loop, buf, taken, handler, data, stored, answers>>

Session == [pdnType : Byte, ip : Seq(Byte)]

UpfTypeOK ==
  /\ loop \in {"reading", "read", "stopped"}
  /\ buf \in Datagram \cup {<<>>}
  /\ taken \in SUBSET Datagram
  /\ handler \in [Goroutine -> {"none", "handling", "stored", "done"}]
  /\ data \in [Goroutine -> Datagram \cup {<<>>}]
  /\ \A n \in DOMAIN stored :
       stored[n].pdnType \in Byte /\ Len(stored[n].ip) = 4
  /\ answers \in SUBSET Seq(Byte)

UpfInit ==
  /\ loop = "reading" /\ buf = <<>>
  /\ taken = {}
  /\ handler = [g \in Goroutine |-> "none"]
  /\ data = [g \in Goroutine |-> <<>>]
  /\ stored = <<>>
  /\ answers = {}

(* Mutant: the goroutines are given the buffer, not a copy. *)
ReadShared(d) ==
  /\ loop = "reading" /\ loop' = "read"
  /\ buf' = d
  /\ data' = [g \in Goroutine |-> IF handler[g] = "handling" THEN d ELSE data[g]]
  /\ taken' = taken \cup {d}
  /\ UNCHANGED <<handler, stored, answers>>

ReadFromUDP(d) ==
  /\ loop = "reading" /\ loop' = "read"
  /\ buf' = d
  /\ taken' = taken \cup {d}
  /\ UNCHANGED <<handler, data, stored, answers>>

StartHandler(g) ==
  /\ loop = "read" /\ loop' = "reading"
  /\ handler[g] = "none"
  /\ handler' = [handler EXCEPT ![g] = "handling"]
  /\ data' = [data EXCEPT ![g] = buf]
  /\ UNCHANGED <<buf, taken, stored, answers>>

(* Closing the connection ends the loop; the handlers go on. *)
Stop ==
  /\ loop = "reading" /\ loop' = "stopped"
  /\ UNCHANGED <<buf, taken, handler, data, stored, answers>>

MoveHandler(g, from, to) ==
  /\ handler[g] = from
  /\ handler' = [handler EXCEPT ![g] = to]
  /\ UNCHANGED <<loop, buf, taken, data>>

Handled(d) == Len(d) >= 2 /\ IsRequest(d) /\ d[2] \in {EstablishmentRequest, ModificationRequest}

Ignore(g) ==
  /\ ~Handled(data[g])
  /\ MoveHandler(g, "handling", "done")
  /\ UNCHANGED <<stored, answers>>

Put(n, s) == stored' = [m \in DOMAIN stored \cup {n} |-> IF m = n THEN s ELSE stored[m]]

(* A modification of a number without a session makes one. *)
Store(g) ==
  /\ Handled(data[g])
  /\ MoveHandler(g, "handling", "stored")
  /\ LET req == DecodeRequest(data[g])
     IN  Put(req.header.seq, [pdnType |-> req.pdnType, ip |-> req.ip])
  /\ UNCHANGED answers

AnswerType(type) ==
  IF type = EstablishmentRequest THEN EstablishmentResponse ELSE ModificationResponse

(* The answer is written, or cannot be. *)
Respond(g) ==
  /\ MoveHandler(g, "stored", "done")
  /\ LET head == DecodeRequest(data[g]).header
     IN  \/ answers' = answers \cup {EncodeResponse(AnswerType(head.type), head.seq, 1)}
         \/ UNCHANGED answers
  /\ UNCHANGED stored

UpfNext ==
  \/ \E d \in Datagram : ReadFromUDP(d)
  \/ \E g \in Goroutine : StartHandler(g) \/ Ignore(g) \/ Store(g) \/ Respond(g)
  \/ Stop

UpfSpec == UpfInit /\ [][UpfNext]_upfVars

-----------------------------------------------------------------------------
(* What was read has been handled when every handler is done: requests have *)
(* a session under their own number, however many datagrams came meanwhile  *)
(* (server.go:79-81, 94-152).                                               *)
AllReadAreStored ==
  loop # "read" /\ (\A g \in Goroutine : handler[g] \in {"none", "done"}) =>
    \A d \in taken : Handled(d) => DecodeRequest(d).header.seq \in DOMAIN stored

(* A session has the address some request asked for under its number; the   *)
(* rest of what arrives leaves no trace (server.go:86-101, 128-152).        *)
StoredIsAsked ==
  \A n \in DOMAIN stored : \E d \in taken :
    /\ Handled(d)
    /\ SubSeq(d, 5, 8) = U32(n)
    /\ stored[n].ip = SubSeq(d, 10, 13)

(* The client can read every answer, finds in it the number and the kind of *)
(* a request that was read, and the UPF has the session                     *)
(* (server.go:115-121, 155-161, pfcp.go:66-94).                             *)
AnswersAreTrue ==
  \A a \in answers :
    /\ IsResponse(a) /\ DecodeResponse(a).cause = 1
    /\ LET head == DecodeResponse(a).header
       IN  /\ head.length = Len(a) - 8
           /\ head.seq \in DOMAIN stored
           /\ \E d \in taken : Handled(d) /\ d[2] = head.type - 1 /\ SubSeq(d, 5, 8) = U32(head.seq)

(* Concurrent handlers, late copies and datagrams that are no requests put  *)
(* nothing into the table or on the wire that no request asked for          *)
(* (server.go:77-161).                                                      *)
NothingInvented == StoredIsAsked /\ AnswersAreTrue
=============================================================================
