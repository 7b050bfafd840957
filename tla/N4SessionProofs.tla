--------------------------- MODULE N4SessionProofs ---------------------------
(***************************************************************************)
(* Proofs about N4Session, for any number of calls, clients, addresses and  *)
(* sequence numbers.                                                        *)
(*                                                                         *)
(* PendingIsOpen needs that a client does not run out of sequence numbers.  *)
(* AcceptedIsInstalled and the refinement of N4Transaction need, besides,   *)
(* that one client makes all the calls: MCN4SessionTwoPods shows how they   *)
(* fail otherwise.                                                          *)
(*                                                                         *)
(* And about UpfServer, for any number of goroutines and any datagrams.     *)
(***************************************************************************)
EXTENDS N4Session, UpfServer, SequenceTheorems, FiniteSetTheorems, TLAPS

(* Fewer calls than sequence numbers, so that none is used twice. *)
EnoughNumbers == IsFiniteSet(Call) /\ Cardinality(Call) < SeqSpace

-----------------------------------------------------------------------------
(* The inductive invariant. *)

StartedBy(s) == {c \in Call : Started(c) /\ Owner[c] = s}

(* A client has counted its calls, and did not wrap. *)
Counted == \A s \in Smf : seqCounter[s] = Cardinality(StartedBy(s))

(* A started call has a number its client gave out, and no other call of    *)
(* that client has it.                                                      *)
Numbered ==
  /\ \A c \in Call : Started(c) => seq[c] > 0 /\ seq[c] <= seqCounter[Owner[c]]
  /\ \A c, d \in Call :
       Started(c) /\ Started(d) /\ Owner[c] = Owner[d] /\ seq[c] = seq[d] => c = d

(* What is on the wire comes from a call, what is in the UPF from a request. *)
Written(c) == pc[c] \in {"waiting", "closing", "returned"}

FromCall ==
  /\ \A q \in requests : \E c \in Call : Written(c) /\ q = RequestOf(c)
  /\ \A n \in SeqNum : sessions[n] # NoIp =>
       \E c \in Call : Started(c) /\ seq[c] = n /\ sessions[n] = IpOf[c]

(* An answer, wherever it is on its way, says that the UPF has a session    *)
(* under the number.                                                        *)
Answered(c) == c \in routing \/ inbox[c] \/ result[c] = "ok"

AnswerIsTrue ==
  /\ \A m \in responses : sessions[m.seq] # NoIp
  /\ \A c \in Call : Answered(c) => Started(c) /\ sessions[seq[c]] # NoIp

ResultIsFinal ==
  \A c \in Call : result[c] # "none" <=> pc[c] \in {"closing", "returned"}

N4Inv ==
  /\ TypeOK
  /\ Counted
  /\ Numbered
  /\ PendingIsOpen
  /\ FromCall
  /\ AnswerIsTrue
  /\ ResultIsFinal

-----------------------------------------------------------------------------
(* Counting up in a space of SeqSpace numbers stays in it. *)
LEMMA NextSeqType ==
  ASSUME NEW n \in SeqNum
  PROVE  NextSeq(n) \in SeqNum
BY N4Assumption DEF SeqNum, NextSeq

(* Below the end of the space it is plain addition. *)
LEMMA NextSeqNoWrap ==
  ASSUME NEW n \in SeqNum, n + 1 < SeqSpace
  PROVE  NextSeq(n) = n + 1
BY N4Assumption DEF SeqNum, NextSeq

-----------------------------------------------------------------------------
(* The initial values have their types. *)
LEMMA TypeInit ==
  ASSUME Init
  PROVE  TypeOK
<1>1. 0 \in SeqNum
  BY N4Assumption DEF SeqNum
<1> QED
  BY <1>1, N4Assumption DEF Init, TypeOK, CallState

(* No step takes a variable out of its type. *)
LEMMA TypeStep ==
  ASSUME TypeOK, [Next]_n4sVars
  PROVE  TypeOK'
<1> USE DEF TypeOK
<1>1. ASSUME NEW c \in Call, Allocate(c) PROVE TypeOK'
  <2>1. Owner[c] \in Smf /\ NextSeq(seqCounter[Owner[c]]) \in SeqNum
    BY N4Assumption, NextSeqType
  <2> QED
    BY <1>1, <2>1 DEF Allocate, Goto, CallState
<1>2. ASSUME NEW c \in Call, Register(c) PROVE TypeOK'
  BY <1>2, N4Assumption DEF Register, Goto, CallState
<1>3. ASSUME NEW c \in Call, WriteRequest(c) PROVE TypeOK'
  <2>1. RequestOf(c) \in Request
    BY N4Assumption DEF RequestOf, Request
  <2> QED
    BY <1>3, <2>1 DEF WriteRequest, Goto, CallState
<1>4. ASSUME NEW c \in Call, WriteFails(c) PROVE TypeOK'
  BY <1>4 DEF WriteFails, Goto, CallState
<1>5. ASSUME NEW c \in Call, TakeResponse(c) PROVE TypeOK'
  BY <1>5 DEF TakeResponse, Goto, CallState
<1>6. ASSUME NEW c \in Call, TimeOut(c) PROVE TypeOK'
  BY <1>6 DEF TimeOut, Goto, CallState
<1>7. ASSUME NEW c \in Call, Unregister(c) PROVE TypeOK'
  BY <1>7, N4Assumption DEF Unregister, Goto, CallState
<1>8. ASSUME NEW c \in Call, DeliverResponse(c) PROVE TypeOK'
  BY <1>8 DEF DeliverResponse
<1>9. ASSUME NEW q \in requests, HandlePacket(q) PROVE TypeOK'
  <2>1. q.seq \in SeqNum /\ q.ip \in Address /\ q.from \in Smf
    BY DEF Request
  <2>2. [seq |-> q.seq, to |-> q.from] \in Response
    BY <2>1 DEF Response
  <2> QED
    BY <1>9, <2>1, <2>2 DEF HandlePacket, clientVars
<1>10. ASSUME NEW m \in responses, RouteResponse(m) PROVE TypeOK'
  BY <1>10 DEF RouteResponse, Response
<1>11. CASE UNCHANGED n4sVars
  BY <1>11 DEF n4sVars
<1> QED
  BY <1>1, <1>2, <1>3, <1>4, <1>5, <1>6, <1>7, <1>8, <1>9, <1>10, <1>11
  DEF Next, CallStep

(* Every variable keeps its type, wrap or not, one client or many.          *)
THEOREM TypeCorrect == Spec => []TypeOK
<1>1. Init => TypeOK
  BY TypeInit
<1>2. TypeOK /\ [Next]_n4sVars => TypeOK'
  BY TypeStep
<1> QED
  BY <1>1, <1>2, PTL DEF Spec

-----------------------------------------------------------------------------
(* Apart from Allocate, no step starts a call or touches the numbers.       *)
LEMMA OnlyAllocateStarts ==
  ASSUME TypeOK, [Next]_n4sVars,
         \A c \in Call : ~Allocate(c)
  PROVE  /\ UNCHANGED <<seqCounter, seq>>
         /\ \A c \in Call : Started(c)' <=> Started(c)
         /\ \A c \in Call : Written(c) => Written(c)'
<1> USE DEF Started, Written
<1>1. ASSUME NEW c \in Call, CallStep(c)
      PROVE  /\ UNCHANGED <<seqCounter, seq>>
             /\ \A d \in Call : Started(d)' <=> Started(d)
             /\ \A d \in Call : Written(d) => Written(d)'
  <2>1. pc' = [pc EXCEPT ![c] = pc'[c]]
    BY <1>1 DEF CallStep, Register, WriteRequest, WriteFails, TakeResponse, TimeOut,
                Unregister, Goto, TypeOK
  <2>2. pc[c] # "idle" /\ pc'[c] \in {"registered", "waiting", "closing", "returned"}
    BY <1>1 DEF CallStep, Register, WriteRequest, WriteFails, TakeResponse, TimeOut,
                Unregister, Goto, TypeOK
  <2>3. Written(c) => Written(c)'
    BY <1>1 DEF CallStep, Register, WriteRequest, WriteFails, TakeResponse, TimeOut,
                Unregister, Goto, TypeOK
  <2>4. UNCHANGED <<seqCounter, seq>>
    BY <1>1 DEF CallStep, Register, WriteRequest, WriteFails, TakeResponse, TimeOut,
                Unregister
  <2> QED
    BY <2>1, <2>2, <2>3, <2>4 DEF TypeOK
<1>2. ASSUME UNCHANGED <<seqCounter, seq, pc>>
      PROVE  /\ UNCHANGED <<seqCounter, seq>>
             /\ \A d \in Call : Started(d)' <=> Started(d)
             /\ \A d \in Call : Written(d) => Written(d)'
  BY <1>2
<1> QED
  BY <1>1, <1>2 DEF Next, HandlePacket, RouteResponse, DeliverResponse, clientVars, n4sVars

(* A call that starts is counted, and its number is beyond all others.      *)
LEMMA AllocateCounts ==
  ASSUME TypeOK, EnoughNumbers, Counted, NEW c \in Call, Allocate(c)
  PROVE  /\ seqCounter' = [seqCounter EXCEPT ![Owner[c]] = @ + 1]
         /\ seq' = [seq EXCEPT ![c] = seqCounter[Owner[c]] + 1]
         /\ Counted'
<1> DEFINE o == Owner[c]
<1>1. o \in Smf /\ seqCounter[o] \in SeqNum /\ seqCounter[o] \in Nat
  BY N4Assumption DEF TypeOK, SeqNum
<1>2. ~Started(c) /\ \A d \in Call : Started(d)' <=> Started(d) \/ d = c
  BY DEF Allocate, Goto, Started, TypeOK
<1>3. StartedBy(o)' = StartedBy(o) \cup {c}
  BY <1>2 DEF StartedBy
<1>4. c \notin StartedBy(o) /\ IsFiniteSet(StartedBy(o))
  BY <1>2, FS_Subset DEF StartedBy, EnoughNumbers
<1>5. Cardinality(StartedBy(o)') = Cardinality(StartedBy(o)) + 1
  BY <1>3, <1>4, FS_AddElement
<1>6. Cardinality(StartedBy(o)') <= Cardinality(Call)
  BY FS_Subset DEF StartedBy, EnoughNumbers
<1>7. seqCounter[o] + 1 < SeqSpace
  <2>1. Cardinality(StartedBy(o)) = seqCounter[o]
    BY <1>1 DEF Counted
  <2>2. Cardinality(Call) \in Nat /\ Cardinality(Call) < SeqSpace /\ SeqSpace \in Nat
    BY FS_CardinalityType, N4Assumption DEF EnoughNumbers
  <2> QED
    BY <1>1, <1>5, <1>6, <2>1, <2>2
<1>8. NextSeq(seqCounter[o]) = seqCounter[o] + 1
  BY <1>1, <1>7, NextSeqNoWrap
<1>9. /\ seqCounter' = [seqCounter EXCEPT ![o] = seqCounter[o] + 1]
      /\ seq' = [seq EXCEPT ![c] = seqCounter[o] + 1]
  BY <1>8 DEF Allocate, TypeOK
<1>10. \A s \in Smf : seqCounter'[s] = Cardinality(StartedBy(s)')
  <2> TAKE s \in Smf
  <2>1. CASE s = o
    BY <2>1, <1>1, <1>5, <1>9 DEF Counted, TypeOK
  <2>2. CASE s # o
    <3>1. StartedBy(s)' = StartedBy(s)
      BY <2>2, <1>2 DEF StartedBy
    <3> QED
      BY <2>2, <3>1, <1>9 DEF Counted, TypeOK
  <2> QED
    BY <2>1, <2>2
<1> QED
  BY <1>9, <1>10 DEF Counted

(* Clients keep counting right, and give no number out twice.               *)
LEMMA NumbersStep ==
  ASSUME TypeOK, EnoughNumbers, Counted, Numbered, [Next]_n4sVars
  PROVE  Counted' /\ Numbered'
<1>1. ASSUME NEW c \in Call, Allocate(c)
      PROVE  Counted' /\ Numbered'
  <2> DEFINE o == Owner[c]
  <2>1. /\ seqCounter' = [seqCounter EXCEPT ![o] = @ + 1]
        /\ seq' = [seq EXCEPT ![c] = seqCounter[o] + 1]
        /\ Counted'
    BY <1>1, AllocateCounts
  <2>2. \A d \in Call : Started(d)' <=> Started(d) \/ d = c
    BY <1>1 DEF Allocate, Goto, Started, TypeOK
  <2>3. \A s \in Smf : seqCounter[s] \in Nat
    BY N4Assumption DEF TypeOK, SeqNum
  <2>4. \A d \in Call : Owner[d] \in Smf /\ seq[d] \in Nat
    BY N4Assumption DEF TypeOK, SeqNum
  <2>5. ASSUME NEW d \in Call, Started(d)'
        PROVE  seq'[d] > 0 /\ seq'[d] <= seqCounter'[Owner[d]]
    BY <2>1, <2>2, <2>3, <2>4, <2>5 DEF Numbered, TypeOK
  <2>6. ASSUME NEW d \in Call, NEW e \in Call, Started(d)', Started(e)',
               Owner[d] = Owner[e], seq'[d] = seq'[e]
        PROVE  d = e
    BY <2>1, <2>2, <2>3, <2>4, <2>6 DEF Numbered, TypeOK
  <2> QED
    BY <2>1, <2>5, <2>6 DEF Numbered
<1>2. CASE \A c \in Call : ~Allocate(c)
  <2>1. /\ UNCHANGED <<seqCounter, seq>>
        /\ \A c \in Call : Started(c)' <=> Started(c)
    BY <1>2, OnlyAllocateStarts
  <2>2. \A s \in Smf : StartedBy(s)' = StartedBy(s)
    BY <2>1 DEF StartedBy
  <2> QED
    BY <2>1, <2>2 DEF Counted, Numbered
<1> QED
  BY <1>1, <1>2

(* The registrations stay the open calls: a new one is under a number no    *)
(* other open call of the client has, and a closed one takes only its own.  *)
LEMMA PendingStep ==
  ASSUME TypeOK, TypeOK', Numbered, PendingIsOpen, [Next]_n4sVars
  PROVE  PendingIsOpen'
<1> USE DEF PendingIsOpen, Open, TypeOK
<1>1. ASSUME NEW c \in Call, Allocate(c) PROVE PendingIsOpen'
  BY <1>1 DEF Allocate, Goto
<1>2. ASSUME NEW c \in Call, Register(c) PROVE PendingIsOpen'
  <2>1. /\ pc[c] = "allocated" /\ pc' = [pc EXCEPT ![c] = "registered"]
        /\ pending' = [pending EXCEPT ![Owner[c]][seq[c]] = c]
        /\ UNCHANGED seq
    BY <1>2 DEF Register, Goto
  <2>2. Owner[c] \in Smf /\ seq[c] \in SeqNum
    BY N4Assumption
  <2>3. ASSUME NEW d \in Call, d # c, Open(d)
        PROVE  Owner[d] # Owner[c] \/ seq[d] # seq[c]
    BY <2>1, <2>3 DEF Numbered, Started
  <2>4. ASSUME NEW d \in Call, Open(d)'
        PROVE  pending'[Owner[d]][seq'[d]] = d
    <3>1. Owner[d] \in Smf /\ seq[d] \in SeqNum
      BY N4Assumption
    <3> QED
      BY <2>1, <2>2, <2>3, <2>4, <3>1
  <2>5. ASSUME NEW s \in Smf, NEW n \in SeqNum, pending'[s][n] # NoCall
        PROVE  /\ Open(pending[s][n])'
               /\ Owner[pending'[s][n]] = s
               /\ seq'[pending'[s][n]] = n
    BY <2>1, <2>2, <2>5
  <2> QED
    BY <2>1, <2>4, <2>5
<1>3. ASSUME NEW c \in Call, WriteRequest(c) PROVE PendingIsOpen'
  BY <1>3 DEF WriteRequest, Goto
<1>4. ASSUME NEW c \in Call, WriteFails(c) PROVE PendingIsOpen'
  BY <1>4 DEF WriteFails, Goto
<1>5. ASSUME NEW c \in Call, TakeResponse(c) PROVE PendingIsOpen'
  BY <1>5 DEF TakeResponse, Goto
<1>6. ASSUME NEW c \in Call, TimeOut(c) PROVE PendingIsOpen'
  BY <1>6 DEF TimeOut, Goto
<1>7. ASSUME NEW c \in Call, Unregister(c) PROVE PendingIsOpen'
  <2>1. /\ pc[c] = "closing" /\ pc' = [pc EXCEPT ![c] = "returned"]
        /\ pending' = [pending EXCEPT ![Owner[c]][seq[c]] = NoCall]
        /\ UNCHANGED seq
    BY <1>7 DEF Unregister, Goto
  <2>2. Owner[c] \in Smf /\ seq[c] \in SeqNum /\ pending[Owner[c]][seq[c]] = c
    BY <2>1, N4Assumption
  <2>3. ASSUME NEW d \in Call, Open(d)'
        PROVE  pending'[Owner[d]][seq'[d]] = d
    <3>1. d # c /\ Open(d)
      BY <2>1, <2>3
    <3>3. Owner[d] \in Smf /\ seq[d] \in SeqNum
      BY N4Assumption
    <3>2. Owner[d] # Owner[c] \/ seq[d] # seq[c]
      BY <2>1, <3>1 DEF Numbered, Started
    <3> QED
      BY <2>1, <2>2, <3>1, <3>2, <3>3
  <2>4. ASSUME NEW s \in Smf, NEW n \in SeqNum, pending'[s][n] # NoCall
        PROVE  /\ Open(pending[s][n])'
               /\ Owner[pending'[s][n]] = s
               /\ seq'[pending'[s][n]] = n
    <3>1. pending'[s][n] = pending[s][n] /\ (s # Owner[c] \/ n # seq[c])
      BY <2>1, <2>2, <2>4
    <3>2. pending[s][n] \in Call /\ pending[s][n] # c
      BY <2>2, <2>4, <3>1
    <3> QED
      BY <2>1, <2>4, <3>1, <3>2
  <2> QED
    BY <2>1, <2>3, <2>4
<1>8. ASSUME NEW c \in Call, DeliverResponse(c) PROVE PendingIsOpen'
  BY <1>8 DEF DeliverResponse
<1>9. ASSUME NEW q \in requests, HandlePacket(q) PROVE PendingIsOpen'
  BY <1>9 DEF HandlePacket, clientVars
<1>10. ASSUME NEW m \in responses, RouteResponse(m) PROVE PendingIsOpen'
  BY <1>10 DEF RouteResponse
<1>11. CASE UNCHANGED n4sVars
  BY <1>11 DEF n4sVars
<1> QED
  BY <1>1, <1>2, <1>3, <1>4, <1>5, <1>6, <1>7, <1>8, <1>9, <1>10, <1>11
  DEF Next, CallStep

(* What the UPF has been asked for and holds comes from calls.              *)
LEMMA FromCallStep ==
  ASSUME TypeOK, FromCall, [Next]_n4sVars
  PROVE  FromCall'
<1> DEFINE Kept == \A c \in Call : /\ Started(c) => Started(c)' /\ seq'[c] = seq[c]
                                   /\ Written(c) => Written(c)'
<1>1. Kept
  <2>1. ASSUME NEW d \in Call, Allocate(d) PROVE Kept
    BY <2>1 DEF Allocate, Goto, Started, Written, TypeOK
  <2>2. CASE \A d \in Call : ~Allocate(d)
    BY <2>2, OnlyAllocateStarts
  <2> QED
    BY <2>1, <2>2
<1>2. \A c \in Call : Written(c) => RequestOf(c)' = RequestOf(c)
  BY <1>1 DEF RequestOf, Written, Started
<1>3. ASSUME NEW q \in requests'
      PROVE  \E c \in Call : Written(c)' /\ q = RequestOf(c)'
  <2>1. CASE q \in requests
    BY <2>1, <1>1, <1>2 DEF FromCall
  <2>2. CASE q \notin requests
    <3>1. PICK c \in Call : WriteRequest(c)
      BY <2>2 DEF Next, CallStep, n4sVars, Allocate, Register, WriteFails, TakeResponse,
                  TimeOut, Unregister, HandlePacket, RouteResponse, DeliverResponse
    <3>2. q = RequestOf(c) /\ Written(c)' /\ RequestOf(c)' = RequestOf(c)
      BY <2>2, <3>1 DEF WriteRequest, Goto, Written, RequestOf, TypeOK
    <3> QED
      BY <3>2
  <2> QED
    BY <2>1, <2>2
<1>4. ASSUME NEW n \in SeqNum, sessions'[n] # NoIp
      PROVE  \E c \in Call : Started(c)' /\ seq'[c] = n /\ sessions'[n] = IpOf[c]
  <2>1. CASE sessions'[n] = sessions[n]
    BY <2>1, <1>1, <1>4 DEF FromCall
  <2>2. CASE sessions'[n] # sessions[n]
    <3>1. PICK q \in requests : HandlePacket(q)
      BY <2>2 DEF Next, CallStep, n4sVars, Allocate, Register, WriteRequest, WriteFails,
                  TakeResponse, TimeOut, Unregister, RouteResponse, DeliverResponse
    <3>2. PICK c \in Call : Written(c) /\ q = RequestOf(c)
      BY DEF FromCall
    <3>3. n = seq[c] /\ sessions'[n] = IpOf[c]
      BY <2>2, <3>1, <3>2 DEF HandlePacket, RequestOf, TypeOK
    <3> QED
      BY <1>1, <3>2, <3>3 DEF Written, Started
  <2> QED
    BY <2>1, <2>2
<1> QED
  BY <1>3, <1>4 DEF FromCall

(* An address, once under a number, is replaced but never removed.          *)
LEMMA SessionsStay ==
  ASSUME TypeOK, [Next]_n4sVars, NEW n \in SeqNum, sessions[n] # NoIp
  PROVE  sessions'[n] # NoIp
<1>1. ASSUME NEW q \in requests, HandlePacket(q) PROVE sessions'[n] # NoIp
  BY <1>1, N4Assumption DEF HandlePacket, TypeOK, Request
<1>2. CASE UNCHANGED sessions
  BY <1>2
<1> QED
  BY <1>1, <1>2 DEF Next, CallStep, n4sVars, Allocate, Register, WriteRequest, WriteFails,
     TakeResponse, TimeOut, Unregister, RouteResponse, DeliverResponse

(* An answer is only ever about a number under which the UPF has a session. *)
LEMMA AnswerStep ==
  ASSUME TypeOK, PendingIsOpen, FromCall, AnswerIsTrue, [Next]_n4sVars
  PROVE  AnswerIsTrue'
<1>1. ASSUME NEW m \in responses'
      PROVE  sessions'[m.seq] # NoIp
  <2>1. CASE m \in responses
    BY <2>1, SessionsStay DEF AnswerIsTrue, TypeOK, Response
  <2>2. CASE m \notin responses
    <3>1. PICK q \in requests : HandlePacket(q)
      BY <2>2 DEF Next, CallStep, n4sVars, Allocate, Register, WriteRequest, WriteFails,
                  TakeResponse, TimeOut, Unregister, RouteResponse, DeliverResponse
    <3>2. m.seq = q.seq /\ q.seq \in SeqNum /\ q.ip \in Address
      BY <2>2, <3>1 DEF HandlePacket, TypeOK, Request
    <3> QED
      BY <3>1, <3>2, N4Assumption DEF HandlePacket, TypeOK
  <2> QED
    BY <2>1, <2>2
<1>2. ASSUME NEW c \in Call, Answered(c)'
      PROVE  Started(c) /\ Started(c)' /\ seq'[c] = seq[c] /\ sessions[seq[c]] # NoIp
  <2>1. CASE Answered(c)
    <3>1. Started(c) /\ sessions[seq[c]] # NoIp
      BY <2>1 DEF AnswerIsTrue
    <3>2. ASSUME NEW d \in Call, Allocate(d) PROVE d # c /\ Started(c)' /\ seq'[c] = seq[c]
      BY <3>1, <3>2 DEF Allocate, Goto, Started, TypeOK
    <3>3. CASE \A d \in Call : ~Allocate(d)
      BY <3>1, <3>3, OnlyAllocateStarts
    <3> QED
      BY <3>1, <3>2, <3>3
  <2>2. CASE ~Answered(c)
    <3>1. PICK m \in responses : RouteResponse(m) /\ pending[m.to][m.seq] = c
      BY <1>2, <2>2 DEF Answered, Next, CallStep, n4sVars, Allocate, Register, WriteRequest,
         WriteFails, TakeResponse, TimeOut, Unregister, HandlePacket, clientVars,
         RouteResponse, DeliverResponse, TypeOK
    <3>2. m.to \in Smf /\ m.seq \in SeqNum
      BY DEF TypeOK, Response
    <3>3. Open(c) /\ seq[c] = m.seq
      BY <3>1, <3>2 DEF PendingIsOpen, RouteResponse
    <3>4. UNCHANGED <<pc, seq>>
      BY <3>1 DEF RouteResponse
    <3> QED
      BY <3>3, <3>4 DEF AnswerIsTrue, Open, Started
  <2> QED
    BY <2>1, <2>2
<1>3. ASSUME NEW c \in Call, Answered(c)'
      PROVE  Started(c)' /\ sessions'[seq'[c]] # NoIp
  BY <1>2, <1>3, SessionsStay DEF TypeOK
<1> QED
  BY <1>1, <1>3 DEF AnswerIsTrue

(* The result is set on the way out, and only there.                        *)
LEMMA ResultStep ==
  ASSUME TypeOK, ResultIsFinal, [Next]_n4sVars
  PROVE  ResultIsFinal'
<1>1. CASE UNCHANGED <<pc, result>>
  BY <1>1 DEF ResultIsFinal
<1>2. ASSUME NEW c \in Call, Allocate(c) \/ Register(c) \/ WriteRequest(c) \/ Unregister(c)
      PROVE  ResultIsFinal'
  BY <1>2 DEF ResultIsFinal, TypeOK, Goto, Allocate, Register, WriteRequest, Unregister
<1>3. ASSUME NEW c \in Call, WriteFails(c) \/ TakeResponse(c) \/ TimeOut(c)
      PROVE  ResultIsFinal'
  BY <1>3 DEF ResultIsFinal, TypeOK, Goto, WriteFails, TakeResponse, TimeOut
<1> QED
  BY <1>1, <1>2, <1>3
  DEF Next, CallStep, n4sVars, HandlePacket, clientVars, RouteResponse, DeliverResponse

-----------------------------------------------------------------------------
(* N4Inv is an invariant as soon as no client runs out of numbers.          *)
LEMMA N4Invariance ==
  ASSUME EnoughNumbers
  PROVE  Spec => []N4Inv
<1>1. Init => N4Inv
  <2> SUFFICES ASSUME Init PROVE N4Inv
    OBVIOUS
  <2>1. TypeOK
    BY TypeInit
  <2>2. \A s \in Smf : StartedBy(s) = {}
    BY DEF StartedBy, Started, Init
  <2>3. Counted
    BY <2>2, FS_EmptySet DEF Counted, Init
  <2> QED
    BY <2>1, <2>3 DEF N4Inv, Init, Numbered, Started, PendingIsOpen, Open, FromCall,
                      AnswerIsTrue, Answered, ResultIsFinal
<1>2. N4Inv /\ [Next]_n4sVars => N4Inv'
  BY TypeStep, NumbersStep, PendingStep, FromCallStep, AnswerStep, ResultStep DEF N4Inv
<1> QED
  BY <1>1, <1>2, PTL DEF Spec

(* The registrations of every client are exactly its open calls, whatever   *)
(* the network and the other clients do (pfcp_client.go:118-127).           *)
THEOREM RegistrationsAreOpen ==
  ASSUME EnoughNumbers
  PROVE  Spec => []PendingIsOpen
<1>1. N4Inv => PendingIsOpen
  BY DEF N4Inv
<1> QED
  BY <1>1, N4Invariance, PTL

(* With one client, a UPF entry under the number of a call is the call's.   *)
LEMMA OwnSession ==
  ASSUME OneClient, N4Inv, NEW c \in Call, Started(c), sessions[seq[c]] # NoIp
  PROVE  sessions[seq[c]] = IpOf[c]
<1>1. seq[c] \in SeqNum
  BY DEF N4Inv, TypeOK
<1>2. PICK d \in Call : Started(d) /\ seq[d] = seq[c] /\ sessions[seq[c]] = IpOf[d]
  BY <1>1 DEF N4Inv, FromCall
<1>3. Owner[d] = Owner[c]
  BY DEF OneClient
<1>4. d = c
  BY <1>2, <1>3 DEF N4Inv, Numbered
<1> QED
  BY <1>2, <1>4

(* An answer taken is true of the call that takes it.                       *)
LEMMA AcceptedFromInv ==
  ASSUME OneClient, N4Inv
  PROVE  AcceptedIsInstalled
<1>1. ASSUME NEW c \in Call, result[c] = "ok" PROVE Installed(c)
  <2>1. Started(c) /\ sessions[seq[c]] # NoIp
    BY <1>1 DEF N4Inv, AnswerIsTrue, Answered
  <2> QED
    BY <2>1, OwnSession DEF Installed
<1> QED
  BY <1>1 DEF AcceptedIsInstalled

(* A call that succeeds has its session in the UPF for good, as long as one *)
(* client that does not run out of numbers makes the calls                  *)
(* (pfcp_client.go:139-143, server.go:105-112).                             *)
THEOREM AcceptedStaysInstalled ==
  ASSUME OneClient, EnoughNumbers
  PROVE  Spec => []AcceptedIsInstalled
<1>1. N4Inv => AcceptedIsInstalled
  BY AcceptedFromInv
<1> QED
  BY <1>1, N4Invariance, PTL

-----------------------------------------------------------------------------
(* The refinement of N4Transaction. *)

OutcomeBar == [c \in Call |-> OutcomeOf(c)]
InstalledBar == {c \in Call : Installed(c)}

(* A step that touches neither the UPF nor the numbers keeps what is        *)
(* installed.                                                               *)
LEMMA InstalledKept ==
  ASSUME UNCHANGED <<sessions, seq>>,
         \A c \in Call : Started(c)' <=> Started(c)
  PROVE  InstalledBar' = InstalledBar
BY DEF InstalledBar, Installed

(* Nothing is under a fresh number.                                         *)
LEMMA FreshNumber ==
  ASSUME OneClient, EnoughNumbers, N4Inv, NEW c \in Call, Allocate(c)
  PROVE  InstalledBar' = InstalledBar
<1> DEFINE n == seqCounter[Owner[c]] + 1
<1>1. TypeOK /\ Counted /\ Numbered /\ FromCall
  BY DEF N4Inv
<1>2. TypeOK'
  BY <1>1, TypeStep DEF Next
<1>3. seq' = [seq EXCEPT ![c] = n]
  BY <1>1, AllocateCounts
<1>4. n \in SeqNum
  BY <1>2, <1>3, <1>1 DEF TypeOK
<1>5. ASSUME NEW d \in Call, Started(d), seq[d] = n PROVE FALSE
  <2>1. Owner[d] = Owner[c] /\ Owner[c] \in Smf
    BY N4Assumption DEF OneClient
  <2>2. seqCounter[Owner[c]] \in Int
    BY <1>1, <2>1 DEF TypeOK, SeqNum
  <2> QED
    BY <1>1, <1>5, <2>1, <2>2 DEF Numbered
<1>6. sessions[n] = NoIp
  BY <1>1, <1>4, <1>5 DEF FromCall
<1>7. ~Installed(c) /\ ~Installed(c)'
  <2>1. ~Started(c)
    BY DEF Allocate, Goto, Started
  <2>2. sessions'[seq'[c]] = NoIp /\ IpOf[c] # NoIp
    BY <1>1, <1>3, <1>6, N4Assumption DEF Allocate, TypeOK
  <2> QED
    BY <2>1, <2>2 DEF Installed
<1>8. ASSUME NEW d \in Call, d # c PROVE Installed(d)' <=> Installed(d)
  BY <1>1, <1>3, <1>8 DEF Allocate, Goto, Installed, Started, TypeOK
<1> QED
  BY <1>7, <1>8 DEF InstalledBar

(* Moving one outcome and keeping the others is a move of N4Transaction.    *)
LEMMA OutcomeMoves ==
  ASSUME NEW c \in Call, NEW from, NEW to,
         OutcomeOf(c) = from, OutcomeOf(c)' = to,
         \A d \in Call : d # c => OutcomeOf(d)' = OutcomeOf(d)
  PROVE  N4!Move(c, from, to)
BY DEF N4!Move, OutcomeBar

(* What a step of a call does to the outcomes.                              *)
LEMMA OthersKeepOutcome ==
  ASSUME TypeOK, NEW c \in Call, Allocate(c) \/ CallStep(c)
  PROVE  \A d \in Call : d # c => OutcomeOf(d)' = OutcomeOf(d)
<1>1. \A d \in Call : d # c => pc'[d] = pc[d]
  BY DEF Allocate, CallStep, Register, WriteRequest, WriteFails, TakeResponse, TimeOut,
     Unregister, Goto, TypeOK
<1>2. \A d \in Call : d # c => result'[d] = result[d]
  BY DEF Allocate, CallStep, Register, WriteRequest, WriteFails, TakeResponse, TimeOut,
     Unregister, TypeOK
<1> QED
  BY <1>1, <1>2 DEF OutcomeOf

(* Every step of the built N4 layer is a step of the abstract one, or none. *)
LEMMA RefinementStep ==
  ASSUME OneClient, EnoughNumbers, N4Inv, N4Inv', [Next]_n4sVars
  PROVE  [N4!N4Next]_N4!n4Vars
<1> DEFINE Stutter == UNCHANGED <<OutcomeBar, InstalledBar>>
<1>0. /\ N4!N4Next => [N4!N4Next]_N4!n4Vars
      /\ Stutter => [N4!N4Next]_N4!n4Vars
  BY DEF N4!n4Vars, OutcomeBar, InstalledBar
<1>1. TypeOK /\ ResultIsFinal /\ TypeOK'
  BY DEF N4Inv
<1>2. ASSUME NEW c \in Call, Allocate(c)
      PROVE  Stutter
  <2>1. OutcomeOf(c)' = OutcomeOf(c)
    BY <1>1, <1>2 DEF Allocate, Goto, OutcomeOf, TypeOK
  <2>2. OutcomeBar' = OutcomeBar
    BY <1>1, <1>2, <2>1, OthersKeepOutcome DEF OutcomeBar
  <2> QED
    BY <1>2, <2>2, FreshNumber
<1>3. ASSUME NEW c \in Call, CallStep(c)
      PROVE  InstalledBar' = InstalledBar
  <2>1. \A d \in Call : ~Allocate(d)
    BY <1>1, <1>3 DEF CallStep, Allocate, Register, WriteRequest, WriteFails, TakeResponse,
       TimeOut, Unregister, Goto, TypeOK
  <2>2. \A d \in Call : Started(d)' <=> Started(d)
    BY <1>1, <2>1, OnlyAllocateStarts
  <2>3. UNCHANGED <<sessions, seq>>
    BY <1>3 DEF CallStep, Register, WriteRequest, WriteFails, TakeResponse, TimeOut,
       Unregister
  <2> QED
    BY <2>2, <2>3, InstalledKept
<1>4. ASSUME NEW c \in Call, Register(c)
      PROVE  N4!N4Next
  <2>1. OutcomeOf(c) = "idle" /\ OutcomeOf(c)' = "waiting"
    BY <1>1, <1>4 DEF Register, Goto, OutcomeOf, TypeOK
  <2>2. N4!Move(c, "idle", "waiting")
    BY <1>1, <1>4, <2>1, OthersKeepOutcome, OutcomeMoves DEF CallStep
  <2> QED
    BY <1>3, <1>4, <2>2 DEF CallStep, N4!N4Next, N4!Send, InstalledBar
<1>5. ASSUME NEW c \in Call, WriteRequest(c) \/ Unregister(c)
      PROVE  Stutter
  <2>1. OutcomeOf(c)' = OutcomeOf(c)
    BY <1>1, <1>5 DEF WriteRequest, Unregister, Goto, OutcomeOf, TypeOK
  <2>2. OutcomeBar' = OutcomeBar
    BY <1>1, <1>5, <2>1, OthersKeepOutcome DEF OutcomeBar, CallStep
  <2> QED
    BY <1>3, <1>5, <2>2 DEF CallStep
<1>6. ASSUME NEW c \in Call, WriteFails(c) \/ TimeOut(c)
      PROVE  N4!N4Next
  <2>1. OutcomeOf(c) = "waiting" /\ OutcomeOf(c)' = "failed"
    BY <1>1, <1>6 DEF WriteFails, TimeOut, Goto, OutcomeOf, TypeOK
  <2>2. N4!Move(c, "waiting", "failed")
    BY <1>1, <1>6, <2>1, OthersKeepOutcome, OutcomeMoves DEF CallStep
  <2> QED
    BY <1>3, <1>6, <2>2 DEF CallStep, N4!N4Next, N4!GiveUp, InstalledBar
<1>7. ASSUME NEW c \in Call, TakeResponse(c)
      PROVE  N4!N4Next
  <2>1. OutcomeOf(c) = "waiting" /\ OutcomeOf(c)' = "ok"
    BY <1>1, <1>7 DEF TakeResponse, Goto, OutcomeOf, TypeOK
  <2>2. N4!Move(c, "waiting", "ok")
    BY <1>1, <1>7, <2>1, OthersKeepOutcome, OutcomeMoves DEF CallStep
  <2>3. Started(c) /\ sessions[seq[c]] # NoIp
    BY <1>7 DEF TakeResponse, N4Inv, AnswerIsTrue, Answered
  <2>4. Installed(c)
    BY <2>3, OwnSession DEF Installed
  <2> QED
    BY <1>3, <1>7, <2>2, <2>4 DEF CallStep, N4!N4Next, N4!Accept, InstalledBar
<1>8. ASSUME NEW q \in requests, HandlePacket(q)
      PROVE  N4!N4Next \/ Stutter
  <2>1. PICK c \in Call : Written(c) /\ q = RequestOf(c)
    BY DEF N4Inv, FromCall
  <2>2. UNCHANGED <<pc, seq, result>>
    BY <1>8 DEF HandlePacket, clientVars
  <2>3. OutcomeBar' = OutcomeBar
    BY <2>2 DEF OutcomeBar, OutcomeOf
  <2>4. OutcomeOf(c) # "idle" /\ Started(c)
    BY <2>1 DEF Written, OutcomeOf, Started
  <2>5. sessions' = [sessions EXCEPT ![seq[c]] = IpOf[c]] /\ seq[c] \in SeqNum
    BY <1>1, <1>8, <2>1 DEF HandlePacket, RequestOf, TypeOK
  <2>6. Installed(c)'
    BY <1>1, <2>2, <2>4, <2>5 DEF Installed, Started, TypeOK
  <2>7. ASSUME NEW d \in Call, d # c
        PROVE  Installed(d)' <=> Installed(d)
    <3>1. CASE Started(d)
      <4>1. Owner[d] = Owner[c]
        BY DEF OneClient
      <4>2. seq[d] # seq[c]
        BY <2>4, <2>7, <3>1, <4>1 DEF N4Inv, Numbered
      <4> QED
        BY <1>1, <2>2, <2>5, <4>2 DEF Installed, Started, TypeOK
    <3>2. CASE ~Started(d)
      BY <2>2, <3>2 DEF Installed, Started
    <3> QED
      BY <3>1, <3>2
  <2>8. InstalledBar' = InstalledBar \cup {c}
    BY <2>6, <2>7 DEF InstalledBar
  <2>9. CASE c \in InstalledBar
    BY <2>3, <2>8, <2>9
  <2>10. CASE c \notin InstalledBar
    BY <2>3, <2>4, <2>8, <2>10 DEF N4!N4Next, N4!Install, OutcomeBar, InstalledBar
  <2> QED
    BY <2>9, <2>10
<1>9. ASSUME UNCHANGED <<pc, seq, result, sessions>>
      PROVE  Stutter
  BY <1>9 DEF OutcomeBar, OutcomeOf, InstalledBar, Installed, Started
<1>10. CASE \E c \in Call : DeliverResponse(c)
  BY <1>0, <1>9, <1>10 DEF DeliverResponse
<1>11. CASE \E m \in responses : RouteResponse(m)
  BY <1>0, <1>9, <1>11 DEF RouteResponse
<1>12. CASE UNCHANGED n4sVars
  BY <1>0, <1>9, <1>12 DEF n4sVars
<1> QED
  BY <1>0, <1>2, <1>4, <1>5, <1>6, <1>7, <1>8, <1>10, <1>11, <1>12 DEF Next, CallStep

(* The PFCP client, the UDP path and the UPF implement the N4 transaction,  *)
(* as long as one client that does not run out of numbers makes the calls.  *)
THEOREM Refinement ==
  ASSUME OneClient, EnoughNumbers
  PROVE  Spec => ImplementsTransaction
<1>1. Init => N4!N4Init
  BY N4Assumption DEF Init, N4!N4Init, OutcomeOf, Installed, Started
<1>2. N4Inv /\ N4Inv' /\ [Next]_n4sVars => [N4!N4Next]_N4!n4Vars
  BY RefinementStep
<1> QED
  BY <1>1, <1>2, N4Invariance, PTL DEF Spec, ImplementsTransaction, N4!N4Spec

-----------------------------------------------------------------------------
(* The codec. *)

(* A sequence of four bytes is the tuple of them.                           *)
LEMMA FourBytes ==
  ASSUME NEW b \in Seq(Byte), Len(b) = 4
  PROVE  b = <<b[1], b[2], b[3], b[4]>> /\ \A i \in 1 .. 4 : b[i] \in Byte
<1>1. \A i \in 1 .. 4 : b[i] \in Byte
  OBVIOUS
<1>2. b = [i \in 1 .. 4 |-> b[i]]
  OBVIOUS
<1> QED
  BY <1>1, <1>2

(* A part of a datagram.                                                    *)
LEMMA Part ==
  ASSUME NEW d \in Seq(Byte), NEW m \in Nat, NEW n \in Nat, 1 <= m, m <= n, n <= Len(d)
  PROVE  /\ SubSeq(d, m, n) \in Seq(Byte) /\ Len(SubSeq(d, m, n)) = n - m + 1
         /\ \A i \in 1 .. n - m + 1 : SubSeq(d, m, n)[i] = d[m + i - 1]
  OBVIOUS

(* Pairs of bytes put together, and taken apart.                            *)
LEMMA Joined ==
  ASSUME NEW x1 \in Byte, NEW x2 \in Byte, NEW x3 \in Byte, NEW x4 \in Byte
  PROVE  <<x1, x2>> \o <<x3, x4>> = <<x1, x2, x3, x4>>
<1> DEFINE s == <<x1, x2>>
           t == <<x3, x4>>
           r == <<x1, x2, x3, x4>>
<1>1. /\ s \in Seq(Byte) /\ Len(s) = 2 /\ s[1] = x1 /\ s[2] = x2
      /\ t \in Seq(Byte) /\ Len(t) = 2 /\ t[1] = x3 /\ t[2] = x4
      /\ r \in Seq(Byte) /\ Len(r) = 4 /\ r[1] = x1 /\ r[2] = x2 /\ r[3] = x3 /\ r[4] = x4
  OBVIOUS
<1> HIDE DEF s, t, r
<1>2. /\ s \o t \in Seq(Byte) /\ Len(s \o t) = 4
      /\ (s \o t)[1] = s[1] /\ (s \o t)[2] = s[2] /\ (s \o t)[3] = t[1] /\ (s \o t)[4] = t[2]
  <2>1. /\ s \o t \in Seq(Byte) /\ Len(s \o t) = Len(s) + Len(t)
        /\ \A i \in 1 .. Len(s) + Len(t) : (s \o t)[i] = IF i <= Len(s) THEN s[i] ELSE t[i - Len(s)]
    BY <1>1, ConcatProperties
  <2> QED
    BY <1>1, <2>1
<1>3. \A i \in 1 .. 4 : i = 1 \/ i = 2 \/ i = 3 \/ i = 4
  OBVIOUS
<1>4. \A i \in 1 .. 4 : (s \o t)[i] = r[i]
  BY <1>1, <1>2, <1>3
<1>5. s \o t = r
  BY <1>1, <1>2, <1>4, SeqEqual
<1> QED
  BY <1>5 DEF s, t, r

LEMMA Halves ==
  ASSUME NEW x1 \in Byte, NEW x2 \in Byte, NEW x3 \in Byte, NEW x4 \in Byte
  PROVE  /\ SubSeq(<<x1, x2, x3, x4>>, 1, 2) = <<x1, x2>>
         /\ SubSeq(<<x1, x2, x3, x4>>, 3, 4) = <<x3, x4>>
<1> DEFINE s == <<x1, x2>>
           t == <<x3, x4>>
           r == <<x1, x2, x3, x4>>
<1>1. /\ s \in Seq(Byte) /\ Len(s) = 2 /\ s[1] = x1 /\ s[2] = x2
      /\ t \in Seq(Byte) /\ Len(t) = 2 /\ t[1] = x3 /\ t[2] = x4
      /\ r \in Seq(Byte) /\ Len(r) = 4 /\ r[1] = x1 /\ r[2] = x2 /\ r[3] = x3 /\ r[4] = x4
  OBVIOUS
<1> HIDE DEF s, t, r
<1>2. \A i \in 1 .. 4 : r[i] \in Byte
  BY <1>1
<1>3. /\ SubSeq(r, 1, 2) \in Seq(Byte) /\ Len(SubSeq(r, 1, 2)) = 2
      /\ \A i \in 1 .. 2 : SubSeq(r, 1, 2)[i] = r[1 + i - 1]
  BY <1>2, SubSeqProperties
<1>4. /\ SubSeq(r, 3, 4) \in Seq(Byte) /\ Len(SubSeq(r, 3, 4)) = 2
      /\ \A i \in 1 .. 2 : SubSeq(r, 3, 4)[i] = r[3 + i - 1]
  BY <1>2, SubSeqProperties
<1>5. \A i \in 1 .. 2 : SubSeq(r, 1, 2)[i] = s[i]
  BY <1>1, <1>3
<1>6. \A i \in 1 .. 2 : SubSeq(r, 3, 4)[i] = t[i]
  <2>1. SubSeq(r, 3, 4)[1] = r[3] /\ SubSeq(r, 3, 4)[2] = r[4]
    BY <1>4
  <2> QED
    BY <1>1, <2>1
<1>7. SubSeq(r, 1, 2) = s /\ SubSeq(r, 3, 4) = t
  BY <1>1, <1>3, <1>4, <1>5, <1>6, SeqEqual
<1> QED
  BY <1>7 DEF s, t, r

(* The number of four bytes, big-endian.                                    *)
Weighed(x1, x2, x3, x4) == 16777216 * x1 + 65536 * x2 + 256 * x3 + x4

(* What four bytes are read as, and what the number is written as.          *)
LEMMA NumberOf ==
  ASSUME NEW x1 \in Byte, NEW x2 \in Byte, NEW x3 \in Byte, NEW x4 \in Byte
  PROVE  Number32(<<x1, x2, x3, x4>>) = Weighed(x1, x2, x3, x4)
<1>1. ASSUME NEW x \in Byte, NEW y \in Byte, NEW b, b = <<x, y>>
      PROVE  Number16(b) = 256 * x + y
  BY <1>1, SMT DEF Number16
<1> DEFINE r == <<x1, x2, x3, x4>>
           high == Number16(SubSeq(r, 1, 2))
           low == Number16(SubSeq(r, 3, 4))
<1>2. high = 256 * x1 + x2 /\ low = 256 * x3 + x4
  <2> DEFINE b == SubSeq(r, 1, 2)
             c == SubSeq(r, 3, 4)
  <2>1. b = <<x1, x2>> /\ c = <<x3, x4>>
    BY Halves
  <2> HIDE DEF b, c
  <2>2. Number16(b) = 256 * x1 + x2 /\ Number16(c) = 256 * x3 + x4
    BY <1>1, <2>1
  <2> QED
    BY <2>2 DEF b, c
<1>3. Number32(r) = 65536 * high + low
  BY DEF Number32
<1>4. 65536 * (256 * x1 + x2) + (256 * x3 + x4) = Weighed(x1, x2, x3, x4)
  BY SMT DEF Byte, Weighed
<1> HIDE DEF r, high, low
<1>5. Number32(r) = Weighed(x1, x2, x3, x4)
  BY <1>2, <1>3, <1>4
<1> QED
  BY <1>5 DEF r

LEMMA BytesOf ==
  ASSUME NEW x1 \in Byte, NEW x2 \in Byte, NEW x3 \in Byte, NEW x4 \in Byte,
         NEW n, n = Weighed(x1, x2, x3, x4)
  PROVE  U32(n) = <<x1, x2, x3, x4>>
<1>1. /\ n \div 65536 = 256 * x1 + x2
      /\ n \div 256 = 65536 * x1 + 256 * x2 + x3 
      /\ n % 256 = x4
  BY SMT DEF Byte, Weighed
<1>2. (65536 * x1 + 256 * x2 + x3) % 256 = x3 /\ (256 * x1 + x2) % 256 = x2
  BY SMT DEF Byte, Weighed
<1>3. (256 * x1 + x2) \div 256 = x1 /\ x1 % 256 = x1
  BY SMT DEF Byte, Weighed
<1>4. U16(n) = <<x3, x4>> 
  BY <1>1, <1>2, SMT DEF U16
<1>5. U16(256 * x1 + x2) = <<x1, x2>>
  BY <1>3, <1>2 DEF U16
<1> DEFINE s == <<x1, x2>>
           t == <<x3, x4>>
<1>6. U32(n) = s \o t
  <2>1. U32(n) = U16(n \div 65536) \o U16(n)
    BY DEF U32
  <2>2. U16(n \div 65536) = s /\ U16(n) = t
    BY <1>1, <1>4, <1>5
  <2> HIDE DEF s, t
  <2> QED
    BY <2>1, <2>2
<1> QED
  BY <1>6, Joined

(* Four bytes read as a number and written again are the same bytes.        *)
LEMMA WrittenAgain ==
  ASSUME NEW b \in Seq(Byte), Len(b) = 4
  PROVE  U32(Number32(b)) = b
<1>1. b = <<b[1], b[2], b[3], b[4]>> /\ \A i \in 1 .. 4 : b[i] \in Byte
  BY FourBytes
<1>2. b[1] \in Byte /\ b[2] \in Byte /\ b[3] \in Byte /\ b[4] \in Byte
  BY <1>1
<1>3. Number32(<<b[1], b[2], b[3], b[4]>>) = Weighed(b[1], b[2], b[3], b[4])
  BY <1>2, NumberOf
<1>4. Number32(b) = Weighed(b[1], b[2], b[3], b[4])
  BY <1>1, <1>3
<1>5. U32(Number32(b)) = <<b[1], b[2], b[3], b[4]>>
  BY <1>2, <1>4, BytesOf
<1> QED
  BY <1>1, <1>5

(* A datagram put together from two parts.                                  *)
LEMMA Concat ==
  ASSUME NEW s \in Seq(Byte), NEW t \in Seq(Byte)
  PROVE  /\ s \o t \in Seq(Byte) /\ Len(s \o t) = Len(s) + Len(t)
         /\ \A i \in 1 .. Len(s) : (s \o t)[i] = s[i]
         /\ \A i \in 1 .. Len(t) : (s \o t)[Len(s) + i] = t[i]
<1>1. /\ s \o t \in Seq(Byte) /\ Len(s \o t) = Len(s) + Len(t)
      /\ \A i \in 1 .. Len(s) + Len(t) : (s \o t)[i] = IF i <= Len(s) THEN s[i] ELSE t[i - Len(s)]
  BY ConcatProperties
<1>2. Len(s) \in Nat /\ Len(t) \in Nat
  OBVIOUS
<1>3. \A i \in 1 .. Len(s) : (s \o t)[i] = s[i]
  BY <1>1, <1>2
<1>4. ASSUME NEW i \in 1 .. Len(t) PROVE (s \o t)[Len(s) + i] = t[i]
  <2>1. Len(s) + i \in 1 .. Len(s) + Len(t) /\ ~(Len(s) + i <= Len(s)) /\ Len(s) + i - Len(s) = i
    BY <1>2
  <2> QED
    BY <1>1, <2>1
<1> QED
  BY <1>1, <1>3, <1>4

(* The header of every message, and what is read where it was written.      *)
Prefix(t, k, n) == <<Flags, t>> \o U16(k) \o U32(n)

LEMMA PrefixIs ==
  ASSUME NEW t \in Byte, NEW k \in Byte, NEW b \in Seq(Byte), Len(b) = 4, NEW n, n = Number32(b)
  PROVE  /\ Prefix(t, k, n) \in Seq(Byte) /\ Len(Prefix(t, k, n)) = 8
         /\ Prefix(t, k, n)[1] = Flags /\ Prefix(t, k, n)[2] = t
         /\ Prefix(t, k, n)[3] = 0 /\ Prefix(t, k, n)[4] = k
         /\ \A i \in 1 .. 4 : Prefix(t, k, n)[4 + i] = b[i]
<1> DEFINE h == <<Flags, t>>
           l == U16(k)
           hl == h \o l
           hlb == hl \o b
<1>1. h \in Seq(Byte) /\ Len(h) = 2 /\ h[1] = Flags /\ h[2] = t
  BY SMT DEF Byte, Flags
<1>2. l \in Seq(Byte) /\ Len(l) = 2 /\ l[1] = 0 /\ l[2] = k
  <2>1. k \div 256 % 256 = 0 /\ k % 256 = k
    BY SMT DEF Byte
  <2>2. l = <<0, k>>
    BY <2>1, SMT DEF U16
  <2> HIDE DEF l
  <2> QED
    BY <2>2, SMT DEF Byte
<1>3. Prefix(t, k, n) = hlb
  <2>1. U32(n) = b
    BY WrittenAgain
  <2> QED
    BY <2>1 DEF Prefix
<1> HIDE DEF h, l
<1>4. /\ hl \in Seq(Byte) /\ Len(hl) = 4
      /\ hl[1] = Flags /\ hl[2] = t /\ hl[3] = 0 /\ hl[4] = k
  <2>1. /\ hl \in Seq(Byte) /\ Len(hl) = Len(h) + Len(l)
        /\ \A i \in 1 .. Len(h) : hl[i] = h[i]
        /\ \A i \in 1 .. Len(l) : hl[Len(h) + i] = l[i]
    BY <1>1, <1>2, Concat
  <2> HIDE DEF hl
  <2> QED
    BY <1>1, <1>2, <2>1, SMT
<1> HIDE DEF hl
<1>5. /\ hlb \in Seq(Byte) /\ Len(hlb) = 8
      /\ \A i \in 1 .. 4 : hlb[i] = hl[i]
      /\ \A i \in 1 .. 4 : hlb[4 + i] = b[i]
  <2>1. /\ hlb \in Seq(Byte) /\ Len(hlb) = Len(hl) + Len(b)
        /\ \A i \in 1 .. Len(hl) : hlb[i] = hl[i]
        /\ \A i \in 1 .. Len(b) : hlb[Len(hl) + i] = b[i]
    BY ONLY <1>4, b \in Seq(Byte), Concat
  <2> HIDE DEF hlb
  <2> QED
    BY <1>4, <2>1, SMT
<1> HIDE DEF hlb
<1> QED
  BY <1>3, <1>4, <1>5

(* A message that begins with this prefix has this header. *)
Begins(a, p) == \A i \in 1 .. 8 : a[i] = p[i]

LEMMA HeaderIs ==
  ASSUME NEW t \in Byte, NEW k \in Byte, NEW b \in Seq(Byte), Len(b) = 4,
         NEW p, p = Prefix(t, k, Number32(b)),
         NEW a \in Seq(Byte), Len(a) >= 8, Begins(a, p)
  PROVE  a[1] = Flags /\ Header(a) = [type |-> t, length |-> k, seq |-> Number32(b)]
<1>1. /\ p[1] = Flags /\ p[2] = t /\ p[3] = 0 /\ p[4] = k
      /\ \A i \in 1 .. 4 : p[4 + i] = b[i]
      /\ \A i \in 1 .. 8 : a[i] = p[i]
  BY PrefixIs DEF Begins
<1>2. /\ a[1] = Flags /\ a[2] = t /\ a[3] = 0 /\ a[4] = k
      /\ \A i \in 1 .. 4 : a[4 + i] = b[i]
  BY <1>1, SMT
<1>3. SubSeq(a, 5, 8) = b
  <2>1. /\ SubSeq(a, 5, 8) \in Seq(Byte) /\ Len(SubSeq(a, 5, 8)) = 4
        /\ \A i \in 1 .. 4 : SubSeq(a, 5, 8)[i] = a[5 + i - 1]
    BY Part
  <2>2. \A i \in 1 .. 4 : a[5 + i - 1] = b[i]
    BY <1>2, SMT
  <2> QED
    BY <2>1, <2>2, SeqEqual
<1>4. Number16(SubSeq(a, 3, 4)) = k
  <2> DEFINE q == SubSeq(a, 3, 4)
  <2>1. \A i \in 1 .. 2 : q[i] = a[3 + i - 1]
    BY Part
  <2> HIDE DEF q
  <2>2. q[1] = 0 /\ q[2] = k
    BY <1>2, <2>1, SMT
  <2>3. Number16(q) = k
    BY <2>2, SMT DEF Number16, Byte
  <2> QED
    BY <2>3 DEF q
<1> QED
  BY <1>2, <1>3, <1>4 DEF Header

(* The client reads from an answer what the server wrote into it, the       *)
(* number of the request in it.                                             *)
LEMMA AnswerIsRead ==
  ASSUME NEW t \in Byte, NEW b \in Seq(Byte), Len(b) = 4,
         NEW n, n = Number32(b), NEW a, a = EncodeResponse(t, n, 1)
  PROVE  /\ a \in Seq(Byte) /\ Len(a) = 9 /\ a[1] = Flags /\ a[9] = 1
         /\ Header(a) = [type |-> t, length |-> 1, seq |-> n]
<1> DEFINE p == Prefix(t, 1, n)
           c == <<1>>
<1>0. 1 \in Byte
  BY SMT DEF Byte
<1>1. p \in Seq(Byte) /\ Len(p) = 8
  BY <1>0, PrefixIs
<1>2. c \in Seq(Byte) /\ Len(c) = 1 /\ c[1] = 1
  BY <1>0
<1>3. a = p \o c
  BY DEF EncodeResponse, Prefix
<1>p. p = Prefix(t, 1, Number32(b))
  OBVIOUS
<1> HIDE DEF p, c
<1>4. /\ a \in Seq(Byte) /\ Len(a) = 9 /\ a[9] = 1
      /\ \A i \in 1 .. 8 : a[i] = p[i]
  <2>1. /\ a \in Seq(Byte) /\ Len(a) = Len(p) + Len(c)
        /\ \A i \in 1 .. Len(p) : a[i] = p[i]
        /\ \A i \in 1 .. Len(c) : a[Len(p) + i] = c[i]
    <3> DEFINE e == p \o c
    <3>1. /\ e \in Seq(Byte) /\ Len(e) = Len(p) + Len(c)
          /\ \A i \in 1 .. Len(p) : e[i] = p[i]
          /\ \A i \in 1 .. Len(c) : e[Len(p) + i] = c[i]
      BY ONLY <1>1, <1>2, Concat
    <3>2. a = e
      BY <1>3
    <3> HIDE DEF e
    <3> QED
      BY ONLY <3>1, <3>2
  <2> QED
    BY <1>1, <1>2, <2>1, SMT
<1>5. a[1] = Flags /\ Header(a) = [type |-> t, length |-> 1, seq |-> n]
  <2>1. Len(a) >= 8 /\ Begins(a, p)
    BY <1>4 DEF Begins
  <2> QED
    BY ONLY <1>0, <1>4, <1>p, <2>1, t \in Byte, b \in Seq(Byte), Len(b) = 4,
            n = Number32(b), HeaderIs
<1> QED
  BY <1>4, <1>5

(* A 32-bit number has four bytes. *)
Uint32 == {n \in Nat : n < 256 * 16777216}

LEMMA HasBytes ==
  ASSUME NEW n \in Uint32
  PROVE  \E b \in Seq(Byte) : Len(b) = 4 /\ n = Number32(b)
<1>1. \A m \in Nat : \E q \in Nat, x \in Byte : m = 256 * q + x
  <2> SUFFICES ASSUME NEW m \in Nat PROVE \E q \in Nat, x \in Byte : m = 256 * q + x
    OBVIOUS
  <2>1. m \div 256 \in Nat /\ m % 256 \in Byte /\ m = 256 * (m \div 256) + (m % 256)
    BY SMT DEF Byte
  <2> QED
    BY <2>1
<1>0. n \in Nat
  BY SMT DEF Uint32
<1>2. PICK q1 \in Nat, x4 \in Byte : n = 256 * q1 + x4
  BY <1>0, <1>1
<1>3. PICK q2 \in Nat, x3 \in Byte : q1 = 256 * q2 + x3
  BY <1>1
<1>4. PICK x1 \in Nat, x2 \in Byte : q2 = 256 * x1 + x2
  BY <1>1
<1>5. x1 \in Byte
  BY <1>2, <1>3, <1>4, SMT DEF Byte, Uint32
<1>6. n = Weighed(x1, x2, x3, x4)
  BY <1>2, <1>3, <1>4, SMT DEF Byte, Weighed
<1>7. Number32(<<x1, x2, x3, x4>>) = n
  BY <1>5, <1>6, NumberOf
<1>8. <<x1, x2, x3, x4>> \in Seq(Byte) /\ Len(<<x1, x2, x3, x4>>) = 4
  BY <1>5
<1> QED
  BY <1>7, <1>8

(* What the parts of a request decode to.                                   *)
LEMMA RequestParts ==
  ASSUME NEW t \in Byte, NEW b \in Seq(Byte), Len(b) = 4, NEW p, p = Prefix(t, 5, Number32(b)),
         NEW ip \in Seq(Byte), Len(ip) = 4, NEW a \in Seq(Byte), Len(a) = 13, a[9] = 1,
         Begins(a, p), \A i \in 1 .. 4 : a[9 + i] = ip[i]
  PROVE  /\ IsRequest(a)
         /\ DecodeRequest(a) =
              [header |-> [type |-> t, length |-> 5, seq |-> Number32(b)], pdnType |-> 1, ip |-> ip]
<1>1. a[1] = Flags /\ Header(a) = [type |-> t, length |-> 5, seq |-> Number32(b)]
  <2>1. 5 \in Byte /\ Len(a) >= 8
    BY SMT DEF Byte
  <2> QED
    BY <2>1, HeaderIs
<1>2. SubSeq(a, 10, 13) = ip
  <2>1. /\ SubSeq(a, 10, 13) \in Seq(Byte) /\ Len(SubSeq(a, 10, 13)) = 4
        /\ \A i \in 1 .. 4 : SubSeq(a, 10, 13)[i] = a[10 + i - 1]
    <3>1. 10 \in Nat /\ 13 \in Nat /\ 13 <= Len(a) /\ 13 - 10 + 1 = 4
      OBVIOUS
    <3> QED
      BY ONLY <3>1, a \in Seq(Byte), Part
  <2>2. \A i \in 1 .. 4 : a[10 + i - 1] = ip[i]
    <3> SUFFICES ASSUME NEW i \in 1 .. 4 PROVE a[10 + i - 1] = ip[i]
      OBVIOUS
    <3>1. 10 + i - 1 = 9 + i
      BY SMT
    <3> QED
      BY <3>1
  <2> QED
    BY <2>1, <2>2, SeqEqual
<1>3. IsRequest(a)
  BY <1>1 DEF IsRequest
<1> QED
  BY <1>1, <1>2, <1>3 DEF DecodeRequest

(* What the UPF reads from a request is what the SMF wrote into it, for     *)
(* every sequence number of 32 bits and every address (pfcp.go:27-62).      *)
THEOREM RequestSurvives ==
  ASSUME NEW t \in Byte, NEW n \in Uint32, NEW ip \in Seq(Byte), Len(ip) = 4
  PROVE  /\ IsRequest(EncodeRequest(t, n, ip))
         /\ DecodeRequest(EncodeRequest(t, n, ip)) =
              [header |-> [type |-> t, length |-> 5, seq |-> n], pdnType |-> 1, ip |-> ip]
<1> DEFINE p == Prefix(t, 5, n)
           c == <<1>>
           body == p \o c
           a == body \o ip
<1>0. 5 \in Byte /\ 1 \in Byte
  BY SMT DEF Byte
<1>b. PICK b \in Seq(Byte) : Len(b) = 4 /\ n = Number32(b)
  BY HasBytes
<1>1. p \in Seq(Byte) /\ Len(p) = 8
  BY <1>0, <1>b, PrefixIs
<1>2. c \in Seq(Byte) /\ Len(c) = 1 /\ c[1] = 1
  BY <1>0
<1>3. EncodeRequest(t, n, ip) = a
  BY DEF EncodeRequest, Prefix
<1>p. p = Prefix(t, 5, Number32(b))
  BY <1>b
<1> HIDE DEF p, c
<1>4. /\ body \in Seq(Byte) /\ Len(body) = 9 /\ body[9] = 1
      /\ \A i \in 1 .. 8 : body[i] = p[i]
  <2>1. /\ body \in Seq(Byte) /\ Len(body) = Len(p) + Len(c)
        /\ \A i \in 1 .. Len(p) : body[i] = p[i]
        /\ \A i \in 1 .. Len(c) : body[Len(p) + i] = c[i]
    BY ONLY <1>1, <1>2, Concat
  <2> HIDE DEF body
  <2> QED
    BY <1>1, <1>2, <2>1, SMT
<1> HIDE DEF body
<1>5. /\ a \in Seq(Byte) /\ Len(a) = 13
      /\ \A i \in 1 .. 9 : a[i] = body[i]
      /\ \A i \in 1 .. 4 : a[9 + i] = ip[i]
  <2>1. /\ a \in Seq(Byte) /\ Len(a) = Len(body) + Len(ip)
        /\ \A i \in 1 .. Len(body) : a[i] = body[i]
        /\ \A i \in 1 .. Len(ip) : a[Len(body) + i] = ip[i]
    BY ONLY <1>4, ip \in Seq(Byte), Concat
  <2> HIDE DEF a
  <2> QED
    BY <1>4, <2>1, SMT
<1> HIDE DEF a
<1>6. a[9] = 1 /\ Begins(a, p)
  BY <1>4, <1>5, SMT DEF Begins
<1>7. /\ IsRequest(a)
      /\ DecodeRequest(a) =
           [header |-> [type |-> t, length |-> 5, seq |-> Number32(b)], pdnType |-> 1, ip |-> ip]
  BY ONLY <1>b, <1>5, <1>6, <1>p, t \in Byte, ip \in Seq(Byte), Len(ip) = 4, RequestParts
<1> QED
  BY <1>b, <1>3, <1>7

(* What the SMF reads from an answer is what the UPF wrote into it          *)
(* (pfcp.go:64-94): the answer finds the call whose number it carries.      *)
THEOREM AnswerSurvives ==
  ASSUME NEW t \in Byte, NEW n \in Uint32
  PROVE  /\ IsResponse(EncodeResponse(t, n, 1))
         /\ DecodeResponse(EncodeResponse(t, n, 1)) =
              [header |-> [type |-> t, length |-> 1, seq |-> n], cause |-> 1]
<1> DEFINE a == EncodeResponse(t, n, 1)
<1>1. /\ Len(a) = 9 /\ a[1] = Flags /\ a[9] = 1
      /\ Header(a) = [type |-> t, length |-> 1, seq |-> n]
  BY HasBytes, AnswerIsRead
<1> HIDE DEF a
<1>2. IsResponse(a) /\ DecodeResponse(a) = [header |-> [type |-> t, length |-> 1, seq |-> n], cause |-> 1]
  BY <1>1 DEF IsResponse, DecodeResponse
<1> QED
  BY <1>2 DEF a

-----------------------------------------------------------------------------
(* The server of the UPF. *)

SeqOf(d) == DecodeRequest(d).header.seq

(* A goroutine has a datagram that was read, as it was read; what one has   *)
(* stored stays.                                                            *)
CopyIsRead == \A g \in Goroutine :
  /\ handler[g] # "none" => data[g] \in taken
  /\ handler[g] = "stored" => Handled(data[g]) /\ SeqOf(data[g]) \in DOMAIN stored

(* A request that was read is stored, or about to be.                       *)
OnItsWay(d) ==
  \/ SeqOf(d) \in DOMAIN stored
  \/ loop = "read" /\ buf = d
  \/ \E g \in Goroutine : handler[g] = "handling" /\ data[g] = d

NoneIsLost == \A d \in taken : Handled(d) => OnItsWay(d)

UInv ==
  /\ UpfTypeOK
  /\ loop = "read" => buf \in taken
  /\ CopyIsRead /\ NoneIsLost /\ StoredIsAsked /\ AnswersAreTrue

(* What a request decodes to.                                               *)
LEMMA RequestRead ==
  ASSUME NEW d \in Datagram, Handled(d)
  PROVE  /\ SubSeq(d, 5, 8) \in Seq(Byte) /\ Len(SubSeq(d, 5, 8)) = 4
         /\ SeqOf(d) = Number32(SubSeq(d, 5, 8))
         /\ SubSeq(d, 5, 8) = U32(SeqOf(d))
         /\ DecodeRequest(d).pdnType \in Byte /\ Len(DecodeRequest(d).ip) = 4
         /\ DecodeRequest(d).ip = SubSeq(d, 10, 13)
         /\ DecodeRequest(d).header.type = d[2] /\ d[2] \in {EstablishmentRequest, ModificationRequest}
<1>1. d \in Seq(Byte) /\ Len(d) >= 13
  BY UpfAssumption DEF Handled, IsRequest
<1>2. SeqOf(d) = Number32(SubSeq(d, 5, 8)) /\ U32(SeqOf(d)) = SubSeq(d, 5, 8)
  <2>1. SubSeq(d, 5, 8) \in Seq(Byte) /\ Len(SubSeq(d, 5, 8)) = 4
    BY <1>1, Part
  <2>2. SeqOf(d) = Number32(SubSeq(d, 5, 8))
    BY DEF SeqOf, DecodeRequest, Header
  <2> QED
    BY <2>1, <2>2, WrittenAgain
<1>3. /\ SubSeq(d, 5, 8) \in Seq(Byte) /\ Len(SubSeq(d, 5, 8)) = 4
      /\ Len(SubSeq(d, 10, 13)) = 4 /\ d[9] \in Byte
  BY <1>1, Part
<1> QED
  BY <1>1, <1>2, <1>3 DEF DecodeRequest, Header, Handled

(* Steps that store and answer nothing.                                     *)
LEMMA NothingStored ==
  ASSUME UInv, UNCHANGED <<stored, answers>>, taken \subseteq taken'
  PROVE  StoredIsAsked' /\ AnswersAreTrue'
  BY DEF UInv, StoredIsAsked, AnswersAreTrue

LEMMA UpfStep == UInv /\ [UpfNext]_upfVars => UInv'
<1> SUFFICES ASSUME UInv, [UpfNext]_upfVars PROVE UInv'
  OBVIOUS
<1>0. /\ UpfTypeOK /\ taken \subseteq Datagram
      /\ CopyIsRead /\ NoneIsLost /\ StoredIsAsked /\ AnswersAreTrue
      /\ loop = "read" => buf \in taken
  BY DEF UInv, UpfTypeOK
<1>1. ASSUME NEW d \in Datagram, ReadFromUDP(d) PROVE UInv'
  <2>1. UpfTypeOK'
    BY <1>0, <1>1 DEF ReadFromUDP, UpfTypeOK
  <2>2. CopyIsRead'
    BY <1>0, <1>1 DEF ReadFromUDP, CopyIsRead
  <2>3. NoneIsLost'
    BY <1>0, <1>1 DEF ReadFromUDP, NoneIsLost, OnItsWay
  <2>4. buf' \in taken' /\ StoredIsAsked' /\ AnswersAreTrue'
    BY <1>1, NothingStored DEF ReadFromUDP
  <2> QED
    BY <2>1, <2>2, <2>3, <2>4 DEF UInv
<1>2. ASSUME NEW g \in Goroutine, StartHandler(g) PROVE UInv'
  <2>1. UpfTypeOK'
    BY <1>0, <1>2 DEF StartHandler, UpfTypeOK
  <2>2. CopyIsRead'
    BY <1>0, <1>2 DEF StartHandler, CopyIsRead, UpfTypeOK
  <2>3. NoneIsLost'
    BY <1>0, <1>2 DEF StartHandler, NoneIsLost, OnItsWay, UpfTypeOK
  <2>4. loop' = "reading" /\ StoredIsAsked' /\ AnswersAreTrue'
    BY <1>2, NothingStored DEF StartHandler
  <2> QED
    BY <2>1, <2>2, <2>3, <2>4 DEF UInv
<1>3. ASSUME NEW g \in Goroutine, Ignore(g) PROVE UInv'
  <2>1. UpfTypeOK'
    BY <1>0, <1>3 DEF Ignore, MoveHandler, UpfTypeOK
  <2>2. CopyIsRead'
    BY <1>0, <1>3 DEF Ignore, MoveHandler, CopyIsRead, UpfTypeOK
  <2>3. NoneIsLost'
    BY <1>0, <1>3 DEF Ignore, MoveHandler, NoneIsLost, OnItsWay, UpfTypeOK
  <2>4. (loop' = "read" => buf' \in taken') /\ StoredIsAsked' /\ AnswersAreTrue'
    BY <1>0, <1>3, NothingStored DEF Ignore, MoveHandler
  <2> QED
    BY <2>1, <2>2, <2>3, <2>4 DEF UInv
<1>4. ASSUME NEW g \in Goroutine, Store(g) PROVE UInv'
  <2> DEFINE d == data[g]
             n == SeqOf(d)
             row == [pdnType |-> DecodeRequest(d).pdnType, ip |-> DecodeRequest(d).ip]
  <2>1. d \in Datagram /\ d \in taken /\ Handled(d)
    BY <1>0, <1>4 DEF Store, MoveHandler, CopyIsRead
  <2>2. /\ row.ip = SubSeq(d, 10, 13) /\ SubSeq(d, 5, 8) = U32(n)
        /\ row.pdnType \in Byte /\ Len(row.ip) = 4
    BY <2>1, RequestRead
  <2>3. /\ stored' = [m \in DOMAIN stored \cup {n} |-> IF m = n THEN row ELSE stored[m]]
        /\ handler' = [handler EXCEPT ![g] = "stored"] /\ handler[g] = "handling"
        /\ UNCHANGED <<loop, buf, taken, data, answers>>
    BY <1>4 DEF Store, MoveHandler, Put, SeqOf
  <2> HIDE DEF d, n, row
  <2>4. /\ DOMAIN stored' = DOMAIN stored \cup {n} /\ stored'[n] = row
        /\ \A m \in DOMAIN stored : m # n => stored'[m] = stored[m]
    BY <2>3
  <2>5. UpfTypeOK'
    <3>1. \A m \in DOMAIN stored' : stored'[m].pdnType \in Byte /\ Len(stored'[m].ip) = 4
      BY <1>0, <2>2, <2>4 DEF UpfTypeOK
    <3> QED
      BY <1>0, <2>3, <3>1 DEF UpfTypeOK
  <2>6. CopyIsRead'
    BY <1>0, <2>1, <2>3, <2>4 DEF CopyIsRead, UpfTypeOK, d, n
  <2>7. NoneIsLost'
    <3>1. ASSUME NEW e \in taken, Handled(e) PROVE OnItsWay(e)'
      <4>1. OnItsWay(e)
        BY <1>0, <3>1 DEF NoneIsLost
      <4>2. ASSUME NEW h \in Goroutine, handler[h] = "handling", data[h] = e
            PROVE  OnItsWay(e)'
        <5>1. CASE h = g
          BY <2>4, <4>2, <5>1 DEF OnItsWay, d, n
        <5>2. CASE h # g
          BY <1>0, <2>3, <4>2, <5>2 DEF OnItsWay, UpfTypeOK
        <5> QED
          BY <5>1, <5>2
      <4> QED
        BY <2>3, <2>4, <4>1, <4>2 DEF OnItsWay
    <3> QED
      BY <2>3, <3>1 DEF NoneIsLost
  <2>8. StoredIsAsked'
    BY <1>0, <2>1, <2>2, <2>3, <2>4 DEF StoredIsAsked
  <2>9. AnswersAreTrue'
    BY <1>0, <2>3, <2>4 DEF AnswersAreTrue
  <2> QED
    BY <1>0, <2>3, <2>5, <2>6, <2>7, <2>8, <2>9 DEF UInv
<1>5. ASSUME NEW g \in Goroutine, Respond(g) PROVE UInv'
  <2> DEFINE d == data[g]
             n == SeqOf(d)
             type == DecodeRequest(d).header.type
             a == EncodeResponse(AnswerType(type), n, 1)
  <2>1. d \in Datagram /\ d \in taken /\ Handled(d) /\ n \in DOMAIN stored
    BY <1>0, <1>5 DEF Respond, MoveHandler, CopyIsRead
  <2>2. /\ handler' = [handler EXCEPT ![g] = "done"] /\ handler[g] = "stored"
        /\ UNCHANGED <<loop, buf, taken, data, stored>>
        /\ answers' = answers \cup {a} \/ answers' = answers
    BY <1>5 DEF Respond, MoveHandler, SeqOf
  <2>3. /\ SubSeq(d, 5, 8) \in Seq(Byte) /\ Len(SubSeq(d, 5, 8)) = 4
        /\ n = Number32(SubSeq(d, 5, 8)) /\ SubSeq(d, 5, 8) = U32(n)
        /\ type = d[2] /\ d[2] \in {EstablishmentRequest, ModificationRequest}
    BY <2>1, RequestRead
  <2>4. AnswerType(type) \in Byte /\ d[2] = AnswerType(type) - 1
    BY <2>3 DEF AnswerType, EstablishmentRequest, ModificationRequest, EstablishmentResponse,
                ModificationResponse, Byte
  <2> HIDE DEF d, n, type, a
  <2>5. /\ a \in Seq(Byte) /\ Len(a) = 9 /\ a[1] = Flags /\ a[9] = 1
        /\ Header(a) = [type |-> AnswerType(type), length |-> 1, seq |-> n]
    BY <2>3, <2>4, AnswerIsRead DEF a
  <2>6. /\ IsResponse(a) /\ DecodeResponse(a).cause = 1
        /\ DecodeResponse(a).header = [type |-> AnswerType(type), length |-> 1, seq |-> n]
    BY <2>5 DEF IsResponse, DecodeResponse
  <2>7. UpfTypeOK'
    BY <1>0, <2>2, <2>5 DEF UpfTypeOK
  <2>8. CopyIsRead' /\ NoneIsLost'
    BY <1>0, <2>2 DEF CopyIsRead, NoneIsLost, OnItsWay, UpfTypeOK
  <2>9. StoredIsAsked'
    BY <1>0, <2>2 DEF StoredIsAsked
  <2>10. AnswersAreTrue'
    <3> DEFINE head == DecodeResponse(a).header
    <3>1. head = [type |-> AnswerType(type), length |-> 1, seq |-> n]
      BY <2>6
    <3>2. head.length = Len(a) - 8 /\ head.seq = n /\ d[2] = head.type - 1
      <4> HIDE DEF head
      <4> QED
        BY <2>4, <2>5, <3>1
    <3>3. /\ IsResponse(a) /\ DecodeResponse(a).cause = 1 /\ head.length = Len(a) - 8
          /\ head.seq \in DOMAIN stored
          /\ Handled(d) /\ d[2] = head.type - 1 /\ SubSeq(d, 5, 8) = U32(head.seq) /\ d \in taken
      BY <2>1, <2>3, <2>6, <3>2
    <3> HIDE DEF head
    <3>4. \A x \in answers' : x \in answers \/ x = a
      BY <2>2
    <3>5. DecodeResponse(a).header = head
      BY DEF head
    <3> QED
      BY <1>0, <2>2, <3>3, <3>4, <3>5 DEF AnswersAreTrue
  <2> QED
    BY <1>0, <2>2, <2>7, <2>8, <2>9, <2>10 DEF UInv
<1>6. CASE Stop
  <2>1. UpfTypeOK' /\ CopyIsRead' /\ NoneIsLost'
    BY <1>0, <1>6 DEF Stop, UpfTypeOK, CopyIsRead, NoneIsLost, OnItsWay
  <2>2. loop' = "stopped" /\ StoredIsAsked' /\ AnswersAreTrue'
    BY <1>6, NothingStored DEF Stop
  <2> QED
    BY <2>1, <2>2 DEF UInv
<1>7. CASE UNCHANGED upfVars
  <2>1. UpfTypeOK' /\ CopyIsRead' /\ NoneIsLost'
    BY <1>0, <1>7 DEF upfVars, UpfTypeOK, CopyIsRead, NoneIsLost, OnItsWay
  <2>2. (loop' = "read" => buf' \in taken') /\ StoredIsAsked' /\ AnswersAreTrue'
    BY <1>0, <1>7, NothingStored DEF upfVars
  <2> QED
    BY <2>1, <2>2 DEF UInv
<1> QED
  BY <1>1, <1>2, <1>3, <1>4, <1>5, <1>6, <1>7 DEF UpfNext

(* The invariant of the server. *)
THEOREM UpfInvariant == UpfSpec => []UInv
<1>1. UpfInit => UInv
  BY DEF UpfInit, UInv, UpfTypeOK, CopyIsRead, NoneIsLost, StoredIsAsked, AnswersAreTrue
<1> QED
  BY <1>1, UpfStep, PTL DEF UpfSpec

(* No request that was read is lost between the one buffer and the          *)
(* goroutines (server.go:79-81, 94-152).                                    *)
THEOREM ReadIsStored == UpfSpec => []AllReadAreStored
<1>1. UInv => AllReadAreStored
  BY DEF UInv, NoneIsLost, OnItsWay, AllReadAreStored, SeqOf
<1> QED
  BY <1>1, UpfInvariant, PTL

(* What is in the table or on the wire was asked for, whatever arrives      *)
(* (server.go:77-161).                                                      *)
THEOREM NothingIsInvented == UpfSpec => []NothingInvented
<1>1. UInv => NothingInvented
  BY DEF UInv, NothingInvented
<1> QED
  BY <1>1, UpfInvariant, PTL
=============================================================================
