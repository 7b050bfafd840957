------------------------- MODULE EstablishmentProofs -------------------------
(***************************************************************************)
(* Proofs about Establishment, for any number of requests, subscribers and  *)
(* workers, any queue size, and either repository.                          *)
(***************************************************************************)
EXTENDS Establishment, FiniteSetTheorems, TLAPS

-----------------------------------------------------------------------------
(* The inductive invariant. *)

(* Nothing has been done for the session yet. *)
Untouched(r) ==
  /\ repo[r] = NoRow
  /\ outcome[r] = "idle"
  /\ r \notin installed
  /\ \A t \in TransferStatus : transfer[r][t] = "none"

(* What a failure reason says about the call to the UPF. *)
StageOf(r, reason) ==
  /\ reason # "none"
  /\ reason \in {"DB_ERROR", "E2E_ESTABLISHMENT_FAILED"} => outcome[r] = "idle"
  /\ reason = "PFCP_TIMEOUT" => outcome[r] = "failed"
  /\ reason = "N1N2_FAILED" => outcome[r] = "ok"

Settled(r) ==
  \/ repo[r].status = "ACTIVE" /\ transfer[r]["ACTIVE"] = "ok" /\ transfer[r]["FAILED"] = "none"
  \/ repo[r].status = "FAILED" /\ transfer[r]["FAILED"] # "none"

(* The AMF triggers a request once, so the SMF handles it once. *)
TriggerInv == \A r \in Req : trigger[r] = "idle" <=> createCall[r] = "none"

(* A request is untouched until a worker has it; the N4 layer knows of it   *)
(* only when its profile was right; and what is told of it is true.         *)
PlaneOK(r) ==
  /\ ~Accepted(r) \/ Queued(r) => Untouched(r)
  /\ outcome[r] = "idle" => r \notin installed
  /\ outcome[r] = "ok" => r \in installed
  /\ outcome[r] # "idle" => Subscribed(r) /\ repo[r].status # "NONE"
  /\ repo[r].status = "ACTIVE" \/ repo[r].ip \/ transfer[r]["ACTIVE"] # "none" => outcome[r] = "ok"
  /\ repo[r].status = "FAILED" => StageOf(r, repo[r].reason)

PlaneInv == \A r \in Req : PlaneOK(r)

(* A worker that waits for a job has none, any other has one, and a worker  *)
(* has a reason exactly while it handles a failure.                         *)
JobInv ==
  \A w \in Worker :
    /\ pc[w] = "idle" <=> job[w] = NoJob
    /\ pc[w] \in Failing <=> cause[w] # "none"

CreatingRow == [NoRow EXCEPT !.status = "CREATING"]

(* What is true of a session while a worker is at a step of its job. *)
StepOK(w) ==
  LET r == job[w] IN
  /\ pc[w] = "save" => Untouched(r)
  /\ pc[w] \in {"udm", "n4", "n4wait", "activate"} =>
       repo[r] = CreatingRow /\ \A t \in TransferStatus : transfer[r][t] = "none"
  /\ pc[w] \in {"udm", "n4"} => outcome[r] = "idle"
  /\ pc[w] = "n4" => Subscribed(r)
  /\ pc[w] = "n4wait" => outcome[r] = "waiting"
  /\ pc[w] \in AfterN4 => outcome[r] = "ok"
  /\ pc[w] \in {"n1n2", "n1n2wait"} =>
       /\ repo[r].status \in {"CREATING", "ACTIVE"}
       /\ repo[r].status = "CREATING" => DbMayFail
       /\ transfer[r]["FAILED"] = "none"
  /\ pc[w] \in Failing => StageOf(r, cause[w])
  /\ pc[w] = "fail" =>
       /\ repo[r].status \in {"NONE", "CREATING", "ACTIVE"}
       /\ repo[r].status = "NONE" => DbMayFail
       /\ transfer[r]["FAILED"] = "none"
  /\ pc[w] = "notify" => repo[r].status = "FAILED" \/ DbMayFail
  /\ pc[w] = "notifywait" =>
       /\ repo[r].status = "FAILED" \/ DbMayFail
       /\ transfer[r]["FAILED"] # "none"

StepInv == \A w \in Worker : pc[w] # "idle" => StepOK(w)

(* OverIsSettled but for requests that something else has befallen; with    *)
(* none, it is OverIsSettled.                                               *)
SettledBut(E) == \A r \in Req \ E : Over(r) /\ ~DbMayFail => Settled(r)

IInv(E) ==
  /\ TypeOK
  /\ TriggerInv /\ MappingIsOwn
  /\ JobInv /\ OneWorkerPerSession
  /\ PlaneInv /\ StepInv
  /\ SettledBut(E)

-----------------------------------------------------------------------------
(* Types. *)

(* The initial state is of its type. *)
LEMMA TypeInit ==
  ASSUME Init
  PROVE  TypeOK
<1>1. SbiTypeOK
  BY DEF Init, SbiInit, SbiTypeOK
<1>2. AmfTypeOK
  BY DEF Init, AmfInit, AmfTypeOK
<1>3. SmfTypeOK
  <2>1. N4!N4TypeOK
    BY DEF Init, SmfInit, N4!N4Init, N4!N4TypeOK, N4!Outcome
  <2>2. repo \in [Req -> [status : Status, ip : BOOLEAN, reason : Reason]]
    BY DEF Init, SmfInit, Status, Reason, NoRow
  <2> QED
    BY <2>1, <2>2 DEF Init, SmfInit, SmfTypeOK, WorkerState, Reason
<1> QED
  BY <1>1, <1>2, <1>3 DEF TypeOK

(* An answer to a transfer keeps the type of the exchanges. *)
LEMMA AnswerTransferType ==
  ASSUME SbiTypeOK, NEW r \in Req, NEW t \in TransferStatus,
         NEW answer \in {"none", "sent", "ok", "notfound"},
         AnswerTransfer(r, t, answer) \/ transfer' = [transfer EXCEPT ![r][t] = answer],
         createCall' = createCall
  PROVE  SbiTypeOK'
BY DEF SbiTypeOK, AnswerTransfer

(* Every step of the AMF keeps the types. *)
LEMMA AmfTypeStep ==
  ASSUME TypeOK, NEW r \in Req, AmfStep(r), UNCHANGED smfVars
  PROVE  TypeOK'
<1>1. SmfTypeOK'
  BY DEF TypeOK, SmfTypeOK, smfVars, n4Vars, poolVars, counters, N4!N4TypeOK
<1>2. SbiTypeOK'
  <2>1. CASE UNCHANGED sbiVars
    BY <2>1 DEF TypeOK, SbiTypeOK, sbiVars
  <2>2. CASE TriggerEstablishment(r)
    BY <2>2 DEF TypeOK, SbiTypeOK, TriggerEstablishment
  <2>3. CASE CallbackActive(r)
    <3>1. "ACTIVE" \in TransferStatus
      BY DEF TransferStatus
    <3> QED  BY <2>3, <3>1, AnswerTransferType DEF CallbackActive, TypeOK
  <2>4. CASE CallbackFailed(r)
    <3>1. "FAILED" \in TransferStatus
      BY DEF TransferStatus
    <3> QED  BY <2>4, <3>1, AnswerTransferType DEF CallbackFailed, TypeOK
  <2> QED
    BY <2>1, <2>2, <2>3, <2>4 DEF AmfStep, Created, Rejected, TriggerError, UpdateSMContext
<1>3. AmfTypeOK'
  <2> USE SbiAssumption DEF AmfTypeOK, TypeOK
  <2>1. CASE TriggerEstablishment(r)
    BY <2>1 DEF TriggerEstablishment, MoveTrigger
  <2>2. CASE Created(r)
    BY <2>2 DEF Created, MoveTrigger
  <2>3. CASE Rejected(r)
    BY <2>3 DEF Rejected, MoveTrigger
  <2>4. CASE TriggerError(r)
    BY <2>4 DEF TriggerError, MoveTrigger
  <2>5. CASE CallbackActive(r)
    BY <2>5 DEF CallbackActive
  <2>6. CASE CallbackFailed(r)
    BY <2>6 DEF CallbackFailed
  <2>7. CASE UpdateSMContext(r)
    BY <2>7 DEF UpdateSMContext
  <2> QED
    BY <2>1, <2>2, <2>3, <2>4, <2>5, <2>6, <2>7 DEF AmfStep
<1> QED
  BY <1>1, <1>2, <1>3 DEF TypeOK

(* What the CreateSMContext handler does keeps the types. *)
LEMMA CreateTypeStep ==
  ASSUME TypeOK, NEW r \in Req, CreateSMContext(r), UNCHANGED amfVars
  PROVE  TypeOK'
<1>1. AmfTypeOK'
  BY DEF TypeOK, AmfTypeOK, amfVars
<1>2. SbiTypeOK'
  BY DEF TypeOK, SbiTypeOK, CreateSMContext, CreateAccepted, CreateShed, CreateHandedOver,
         AnswerCreate
<1>3. SmfTypeOK'
  <2> USE DEF TypeOK, SmfTypeOK, N4!N4TypeOK, n4Vars, counters, poolVars
  <2>1. CASE CreateAccepted(r)
    BY <2>1 DEF CreateAccepted
  <2>2. CASE CreateShed(r)
    BY <2>2 DEF CreateShed
  <2>3. ASSUME NEW w \in Worker, CreateHandedOver(r, w)
        PROVE  SmfTypeOK'
    BY <2>3 DEF CreateHandedOver, WorkerState
  <2> QED
    BY <2>1, <2>2, <2>3 DEF CreateSMContext
<1> QED
  BY <1>1, <1>2, <1>3 DEF TypeOK

(* The worker pool's part of the type, and that of the data of a session. *)
PoolTypeOK ==
  /\ queue \in Seq(Req)
  /\ pc \in [Worker -> WorkerState]
  /\ job \in [Worker -> Req \cup {NoJob}]
  /\ cause \in [Worker -> Reason]
  /\ successCounter \in Nat
  /\ failCounter \in Nat

RowTypeOK == repo \in [Req -> [status : Status, ip : BOOLEAN, reason : Reason]]

(* The SMF's type, taken apart. *)
LEMMA SmfTypeParts ==
  /\ SmfTypeOK <=> N4!N4TypeOK /\ PoolTypeOK /\ RowTypeOK
  /\ SmfTypeOK' <=> N4!N4TypeOK' /\ PoolTypeOK' /\ RowTypeOK'
BY DEF SmfTypeOK, PoolTypeOK, RowTypeOK

(* What an error says first decides between PFCP, N1N2 and the rest.        *)
LEMMA Classified ==
  ASSUME NEW words
  PROVE  /\ Classify(words) \in Reason \ {"none"}
         /\ "PFCP" \in words => Classify(words) = "PFCP_TIMEOUT"
         /\ "PFCP" \notin words /\ words \cap {"N1N2", "AMF responded"} # {} =>
              Classify(words) = "N1N2_FAILED"
         /\ words \cap {"PFCP", "N1N2", "AMF responded"} = {} =>
              Classify(words) \in {"DB_ERROR", "E2E_ESTABLISHMENT_FAILED"}
BY DEF Classify, Reason

Prefix == {"database", "UDM", "PFCP", "N1N2", "AMF responded"}

(* An error is classified by its prefix, whatever its cause says.           *)
LEMMA Returned ==
  ASSUME NEW w, NEW from, NEW prefix \in Prefix,
         ReturnError(w, from, prefix)
  PROVE  \E reason \in Reason \ {"none"} :
           /\ FailWith(w, from, reason)
           /\ prefix \in {"database", "UDM"} => reason \in {"DB_ERROR", "E2E_ESTABLISHMENT_FAILED"}
           /\ prefix = "PFCP" => reason = "PFCP_TIMEOUT"
           /\ prefix \in {"N1N2", "AMF responded"} => reason = "N1N2_FAILED"
<1>1. PICK inner \in SUBSET {"timeout", "db"} : FailWith(w, from, Classify({prefix} \cup inner))
  BY DEF ReturnError
<1> DEFINE words == {prefix} \cup inner
<1>2. /\ "PFCP" \in words <=> prefix = "PFCP"
      /\ words \cap {"N1N2", "AMF responded"} # {} <=> prefix \in {"N1N2", "AMF responded"}
      /\ words \cap {"PFCP", "N1N2", "AMF responded"} = {} <=> prefix \in {"database", "UDM"}
  BY DEF Prefix
<1> HIDE DEF words
<1> QED
  BY <1>1, <1>2, Classified DEF words

(* The three ways a worker goes on keep the types of the pool. *)
LEMMA PoolTypeStep ==
  ASSUME PoolTypeOK, NEW w \in Worker, NEW from,
         \/ \E to \in WorkerState : Advance(w, from, to)
         \/ \E prefix \in Prefix : ReturnError(w, from, prefix)
         \/ Finish(w, from) /\ successCounter' \in Nat /\ failCounter' \in Nat
  PROVE  PoolTypeOK'
<1>1. ASSUME NEW to \in WorkerState, Advance(w, from, to)
      PROVE  PoolTypeOK'
  BY <1>1 DEF PoolTypeOK, Advance, Goto, counters
<1>2. ASSUME NEW prefix \in Prefix, ReturnError(w, from, prefix)
      PROVE  PoolTypeOK'
  <2>1. "fail" \in WorkerState
    BY DEF WorkerState
  <2>2. PICK reason \in Reason : FailWith(w, from, reason)
    BY <1>2, Returned
  <2> QED  BY <2>1, <2>2 DEF PoolTypeOK, FailWith, Goto
<1>3. CASE Finish(w, from) /\ successCounter' \in Nat /\ failCounter' \in Nat
  BY <1>3 DEF PoolTypeOK, Finish, Goto, WorkerState, Reason
<1> QED
  BY <1>1, <1>2, <1>3

(* Every step of a worker keeps the types. *)
LEMMA WorkerTypeStep ==
  ASSUME TypeOK, JobInv, NEW w \in Worker, WorkerStep(w), UNCHANGED amfVars
  PROVE  TypeOK'
<1>0. /\ N4!N4TypeOK /\ PoolTypeOK /\ RowTypeOK
      /\ pc[w] # "idle" => job[w] \in Req
  BY SmfTypeParts DEF TypeOK, JobInv, PoolTypeOK
<1>1. AmfTypeOK'
  BY DEF TypeOK, AmfTypeOK, amfVars
<1>2. SbiTypeOK'
  <2>1. CASE UNCHANGED sbiVars
    BY <2>1 DEF TypeOK, SbiTypeOK, sbiVars
  <2>2. ASSUME pc[w] # "idle", NEW t \in TransferStatus, SendTransfer(job[w], t), UNCHANGED createCall
        PROVE  SbiTypeOK'
    BY <1>0, <2>2 DEF TypeOK, SbiTypeOK, SendTransfer
  <2>3. CASE SendN1N2(w)
    BY <2>2, <2>3 DEF SendN1N2, Advance, Goto, TransferStatus
  <2>4. CASE NotifyFailure(w)
    BY <2>1, <2>2, <2>4 DEF NotifyFailure, Advance, Finish, Goto, TransferStatus, sbiVars
  <2> QED
    BY <2>1, <2>3, <2>4
    DEF WorkerStep, Dequeue, SaveSession, QueryUdm, SendPfcp, AwaitPfcp, ActivateSession,
        AwaitN1N2, RecordFailure, AwaitNotify, sbiVars
<1>3. N4!N4TypeOK'
  <2>1. CASE UNCHANGED n4Vars
    BY <1>0, <2>1 DEF N4!N4TypeOK, n4Vars
  <2>2. CASE SendPfcp(w) \/ AwaitPfcp(w)
    BY <1>0, <2>2 DEF SendPfcp, AwaitPfcp, N4!N4TypeOK, N4!Send, N4!Accept, N4!GiveUp, N4!Move, N4!Outcome
  <2> QED
    BY <2>1, <2>2
    DEF WorkerStep, Dequeue, SaveSession, QueryUdm, ActivateSession, SendN1N2, AwaitN1N2,
        RecordFailure, NotifyFailure, AwaitNotify
<1>4. RowTypeOK'
  <2>1. CASE UNCHANGED repo
    BY <1>0, <2>1 DEF RowTypeOK
  <2>2. CASE SaveSession(w)
    <3>1. [NoRow EXCEPT !.status = "CREATING"] \in [status : Status, ip : BOOLEAN, reason : Reason]
      BY DEF NoRow, Status, Reason
    <3>2. repo' = repo \/ Inserted(job[w])
      BY <2>2 DEF SaveSession
    <3> QED  BY <1>0, <3>1, <3>2 DEF RowTypeOK, Inserted
  <2>3. CASE ActivateSession(w)
    BY <1>0, <2>3 DEF ActivateSession, Advance, Goto, RowTypeOK, Status
  <2>4. CASE RecordFailure(w)
    BY <1>0, <2>4 DEF RecordFailure, Advance, Goto, RowTypeOK, Status, PoolTypeOK
  <2> QED
    BY <2>1, <2>2, <2>3, <2>4
    DEF WorkerStep, Dequeue, QueryUdm, SendPfcp, AwaitPfcp, SendN1N2, AwaitN1N2, NotifyFailure,
        AwaitNotify
<1>5. PoolTypeOK'
  <2>1. CASE Dequeue(w)
    BY <1>0, <2>1 DEF Dequeue, Goto, counters, PoolTypeOK, WorkerState
  <2>2. CASE SaveSession(w)
    BY <1>0, <2>2, PoolTypeStep DEF SaveSession, WorkerState, Prefix
  <2>3. CASE QueryUdm(w)
    BY <1>0, <2>3, PoolTypeStep DEF QueryUdm, WorkerState, Prefix
  <2>4. CASE AwaitPfcp(w)
    BY <1>0, <2>4, PoolTypeStep DEF AwaitPfcp, WorkerState, Prefix
  <2>5. CASE SendPfcp(w) \/ ActivateSession(w) \/ SendN1N2(w) \/ RecordFailure(w)
    BY <1>0, <2>5, PoolTypeStep DEF SendPfcp, ActivateSession, SendN1N2, RecordFailure, WorkerState
  <2>6. CASE AwaitN1N2(w)
    <3>1. successCounter + 1 \in Nat /\ failCounter \in Nat
      BY <1>0 DEF PoolTypeOK
    <3> QED  BY <1>0, <2>6, <3>1, PoolTypeStep DEF AwaitN1N2, Prefix
  <2>7. CASE NotifyFailure(w) \/ AwaitNotify(w)
    <3>1. successCounter \in Nat /\ failCounter \in Nat
      BY <1>0 DEF PoolTypeOK
    <3> QED  BY <1>0, <2>7, <3>1, PoolTypeStep DEF NotifyFailure, AwaitNotify, counters, WorkerState
  <2> QED
    BY <2>1, <2>2, <2>3, <2>4, <2>5, <2>6, <2>7 DEF WorkerStep
<1> QED
  BY <1>1, <1>2, <1>3, <1>4, <1>5, SmfTypeParts DEF TypeOK

(* A step of the UPF keeps the types. *)
LEMMA UpfTypeStep ==
  ASSUME TypeOK, UpfStep, UNCHANGED amfVars
  PROVE  TypeOK'
<1>1. N4!N4TypeOK'
  BY DEF TypeOK, SmfTypeOK, UpfStep, N4!Install, N4!N4TypeOK
<1>2. PoolTypeOK' /\ RowTypeOK'
  BY SmfTypeParts DEF TypeOK, UpfStep, PoolTypeOK, RowTypeOK, poolVars, counters
<1>3. SbiTypeOK' /\ AmfTypeOK'
  BY DEF TypeOK, UpfStep, SbiTypeOK, AmfTypeOK, sbiVars, amfVars
<1> QED
  BY <1>1, <1>2, <1>3, SmfTypeParts DEF TypeOK

-----------------------------------------------------------------------------
(* The job queue. *)

Distinct(q) == \A i, j \in 1 .. Len(q) : q[i] = q[j] => i = j

(* A sequence's elements are found at the places 1 to its length. *)
LEMMA RangeOfSeq ==
  ASSUME NEW S, NEW q \in Seq(S)
  PROVE  Range(q) = {q[i] : i \in 1 .. Len(q)}
BY DEF Range

(* Appending a new element. *)
LEMMA AppendRange ==
  ASSUME NEW S, NEW q \in Seq(S), NEW e \in S
  PROVE  /\ Range(Append(q, e)) = Range(q) \cup {e}
         /\ Distinct(q) /\ e \notin Range(q) => Distinct(Append(q, e))
<1> DEFINE a == Append(q, e)
<1>1. /\ a \in Seq(S) /\ Len(a) = Len(q) + 1 /\ Len(q) \in Nat
      /\ a[Len(q) + 1] = e
      /\ \A i \in 1 .. Len(q) : a[i] = q[i]
  OBVIOUS
<1>2. Range(a) = {a[i] : i \in 1 .. Len(a)} /\ Range(q) = {q[i] : i \in 1 .. Len(q)}
  BY <1>1, RangeOfSeq
<1> HIDE DEF a
<1>3. Range(a) = Range(q) \cup {e}
  BY <1>1, <1>2
<1>4. ASSUME Distinct(q), e \notin Range(q)
      PROVE  Distinct(a)
  BY <1>1, <1>2, <1>4 DEF Distinct
<1> QED
  BY <1>3, <1>4 DEF a

(* Taking the first element. *)
LEMMA TailRange ==
  ASSUME NEW S, NEW q \in Seq(S), q # <<>>
  PROVE  /\ Head(q) \in S
         /\ Range(q) = Range(Tail(q)) \cup {Head(q)}
         /\ Distinct(q) => Distinct(Tail(q)) /\ Head(q) \notin Range(Tail(q))
<1> DEFINE t == Tail(q)
<1>1. /\ t \in Seq(S) /\ Len(t) = Len(q) - 1 /\ Len(q) \in Nat \ {0}
      /\ Head(q) = q[1] /\ Head(q) \in S
      /\ \A i \in 1 .. Len(t) : t[i] = q[i + 1]
  OBVIOUS
<1>2. Range(t) = {t[i] : i \in 1 .. Len(t)} /\ Range(q) = {q[i] : i \in 1 .. Len(q)}
  BY <1>1, RangeOfSeq
<1> HIDE DEF t
<1>3. Range(q) \subseteq Range(t) \cup {Head(q)}
  <2>1. SUFFICES ASSUME NEW i \in 1 .. Len(q)
                 PROVE  q[i] \in Range(t) \cup {Head(q)}
    BY <1>2
  <2>2. CASE i = 1
    BY <1>1, <2>2
  <2>3. CASE i # 1
    <3>1. i - 1 \in 1 .. Len(t) /\ (i - 1) + 1 = i
      BY <1>1, <2>3
    <3> QED  BY <1>1, <1>2, <3>1
  <2> QED  BY <2>2, <2>3
<1>4. Range(t) \cup {Head(q)} \subseteq Range(q)
  BY <1>1, <1>2
<1>5. ASSUME Distinct(q)
      PROVE  Distinct(t) /\ Head(q) \notin Range(t)
  BY <1>1, <1>2, <1>5 DEF Distinct
<1> QED
  BY <1>1, <1>3, <1>4, <1>5 DEF t

-----------------------------------------------------------------------------
(* The invariant holds initially, and every step keeps it. *)

(* Initially nothing has been done for any request. *)
LEMMA InvInit ==
  ASSUME NEW E, Init
  PROVE  IInv(E)
<1>1. TypeOK
  BY TypeInit
<1>2. TriggerInv /\ MappingIsOwn
  BY SbiAssumption DEF Init, SbiInit, AmfInit, TriggerInv, MappingIsOwn
<1>3. queue = <<>> /\ Len(queue) = 0 /\ \A r \in Req : ~Queued(r)
  BY DEF Init, SmfInit, Queued, Range
<1>4. \A w \in Worker : pc[w] = "idle" /\ job[w] = NoJob
  BY DEF Init, SmfInit
<1>5. \A r \in Req : ~Accepted(r) /\ ~Open(r)
  BY <1>3, <1>4, SmfAssumption DEF Init, SbiInit, Accepted, Open, Held
<1>6. JobInv /\ StepInv /\ OneWorkerPerSession /\ SettledBut(E)
  BY <1>3, <1>4, <1>5 DEF Init, SmfInit, Failing, JobInv, StepInv, OneWorkerPerSession, SettledBut, Settled, Over
<1>7. PlaneInv
  BY DEF Init, SbiInit, SmfInit, N4!N4Init, PlaneInv, PlaneOK, Untouched, NoRow, TransferStatus
<1> QED
  BY <1>1, <1>2, <1>6, <1>7 DEF IInv

(* The AMF answers transfers, and starts a request that was not started. *)
LEMMA AmfFrame ==
  ASSUME TypeOK, TriggerInv, NEW r \in Req, AmfStep(r)
  PROVE  /\ \A q \in Req : Accepted(q)' <=> Accepted(q)
         /\ \A q \in Req, t \in TransferStatus :
              /\ transfer'[q][t] = "none" <=> transfer[q][t] = "none"
              /\ transfer[q][t] = "ok" => transfer'[q][t] = "ok"
<1> USE DEF TypeOK, SbiTypeOK
<1>1. CASE UNCHANGED sbiVars
  BY <1>1 DEF sbiVars, Accepted
<1>2. CASE TriggerEstablishment(r)
  BY <1>2 DEF TriggerEstablishment, MoveTrigger, TriggerInv, Accepted
<1>3. ASSUME NEW t \in TransferStatus, NEW answer \in {"ok", "notfound"},
             AnswerTransfer(r, t, answer), createCall' = createCall
      PROVE  /\ \A q \in Req : Accepted(q)' <=> Accepted(q)
             /\ \A q \in Req, u \in TransferStatus :
                  /\ transfer'[q][u] = "none" <=> transfer[q][u] = "none"
                  /\ transfer[q][u] = "ok" => transfer'[q][u] = "ok"
  BY <1>3 DEF AnswerTransfer, Accepted
<1>4. "ACTIVE" \in TransferStatus /\ "FAILED" \in TransferStatus
  BY DEF TransferStatus
<1>5. CASE CallbackActive(r)
  BY <1>3, <1>4, <1>5 DEF CallbackActive
<1>6. CASE CallbackFailed(r)
  BY <1>3, <1>4, <1>6 DEF CallbackFailed
<1> QED
  BY <1>1, <1>2, <1>5, <1>6 DEF AmfStep, Created, Rejected, TriggerError, UpdateSMContext

(* The AMF's steps leave the SMF alone, and only the SMF's transfers bring  *)
(* a ref into the AMF's map.                                                *)
LEMMA AmfInvStep ==
  ASSUME NEW E, IInv(E), NEW r \in Req, AmfStep(r), UNCHANGED smfVars
  PROVE  IInv(E)'
<1>1. TypeOK'
  BY AmfTypeStep DEF IInv
<1>2. TriggerInv'
  BY DEF IInv, TriggerInv, TypeOK, SbiTypeOK, AmfTypeOK, AmfStep, TriggerEstablishment, Created,
         Rejected, TriggerError, CallbackActive, CallbackFailed, UpdateSMContext, MoveTrigger, sbiVars
<1>3. /\ \A q \in Req : Accepted(q)' <=> Accepted(q)
      /\ \A q \in Req, t \in TransferStatus :
           /\ transfer'[q][t] = "none" <=> transfer[q][t] = "none"
           /\ transfer[q][t] = "ok" => transfer'[q][t] = "ok"
  BY AmfFrame DEF IInv
<1>4. "ACTIVE" \in TransferStatus /\ "FAILED" \in TransferStatus
  BY DEF TransferStatus
<1>5. UNCHANGED <<outcome, installed, queue, pc, job, cause, repo>>
  BY DEF smfVars, n4Vars, poolVars
<1>6. MappingIsOwn'
  <2> USE SbiAssumption, NoRefAssumption, <1>3 DEF IInv, TypeOK, AmfTypeOK, MappingIsOwn
  <2>1. CASE Created(r)
    BY <2>1 DEF Created, Accepted
  <2>2. CASE CallbackFailed(r)
    <3>1. Accepted(r)
      BY <2>2, <1>4 DEF CallbackFailed, AnswerTransfer, PlaneInv, PlaneOK, Untouched
    <3> QED  BY <2>2, <3>1 DEF CallbackFailed
  <2>3. CASE CallbackActive(r)
    BY <2>3 DEF CallbackActive
  <2>4. CASE UpdateSMContext(r)
    BY <2>4 DEF UpdateSMContext
  <2>5. CASE UNCHANGED <<amfSessions, step15>>
    BY <2>5
  <2> QED
    BY <2>1, <2>2, <2>3, <2>4, <2>5 DEF AmfStep, TriggerEstablishment, Rejected, TriggerError
<1>7. \A q \in Req : (Queued(q)' <=> Queued(q)) /\ (Open(q)' <=> Open(q))
  BY <1>5 DEF Open, Queued, Held
<1>8. JobInv' /\ OneWorkerPerSession'
  BY <1>3, <1>5, <1>7, SmfAssumption
  DEF IInv, TypeOK, SmfTypeOK, JobInv, OneWorkerPerSession, Queued
<1>9. \A q \in Req : Untouched(q)' <=> Untouched(q)
  BY <1>3, <1>5 DEF Untouched
<1>10. PlaneInv'
  BY <1>3, <1>4, <1>5, <1>7, <1>9 DEF IInv, PlaneInv, PlaneOK, Subscribed, StageOf
<1>11. StepInv'
  <2>1. SUFFICES ASSUME NEW w \in Worker, pc[w] # "idle"
                 PROVE  StepOK(w)'
    BY <1>5 DEF StepInv
  <2>2. job[w] \in Req /\ StepOK(w)
    BY <2>1 DEF IInv, JobInv, StepInv, TypeOK, SmfTypeOK
  <2> QED
    BY <1>3, <1>4, <1>5, <1>9, <2>2 DEF StepOK, Subscribed, StageOf
<1>12. SettledBut(E)'
  BY <1>3, <1>4, <1>5, <1>7 DEF IInv, SettledBut, Settled, Over
<1> QED
  BY <1>1, <1>2, <1>6, <1>8, <1>10, <1>11, <1>12 DEF IInv

(* A request is handled before any worker has it: the handler answers it,   *)
(* and puts it in the queue or into the hands of a waiting worker.          *)
LEMMA CreateInvStep ==
  ASSUME NEW E, IInv(E), NEW r \in Req, CreateSMContext(r), UNCHANGED amfVars
  PROVE  IInv(E)'
<1> USE DEF TypeOK, SbiTypeOK, SmfTypeOK
<1>1. TypeOK'
  BY CreateTypeStep DEF IInv
<1>2. /\ createCall[r] = "sent" /\ createCall'[r] \in {"created", "congested"}
      /\ \A q \in Req : q # r => createCall'[q] = createCall[q]
      /\ UNCHANGED <<transfer, cause, outcome, installed, repo>>
  BY DEF IInv, CreateSMContext, CreateAccepted, CreateShed, CreateHandedOver, AnswerCreate,
         poolVars, n4Vars
<1>3. TriggerInv'
  BY <1>2 DEF IInv, TriggerInv, amfVars
<1>4. MappingIsOwn'
  BY <1>2, NoRefAssumption, SbiAssumption DEF IInv, MappingIsOwn, amfVars, Accepted, AmfTypeOK
<1>5. ~Accepted(r) /\ ~Open(r) /\ Untouched(r)
  BY <1>2 DEF IInv, Accepted, OneWorkerPerSession, PlaneInv, PlaneOK
<1>6. \A q \in Req : Untouched(q)' <=> Untouched(q)
  BY <1>2 DEF Untouched
<1>7. CASE CreateShed(r)
  <2>1. ~Accepted(r)' /\ \A q \in Req : Accepted(q)' <=> Accepted(q)
    BY <1>2, <1>7 DEF IInv, CreateShed, AnswerCreate, Accepted
  <2>2. UNCHANGED <<queue, pc, job>>
    BY <1>7 DEF CreateShed, poolVars
  <2>3. \A q \in Req : (Queued(q)' <=> Queued(q)) /\ (Open(q)' <=> Open(q))
    BY <2>2 DEF Open, Queued, Held
  <2>4. JobInv' /\ OneWorkerPerSession'
    BY <1>2, <2>1, <2>2, <2>3, SmfAssumption DEF IInv, JobInv, OneWorkerPerSession, Queued
  <2>5. PlaneInv'
    BY <1>2, <1>6, <2>1, <2>3 DEF IInv, PlaneInv, PlaneOK, Subscribed, StageOf
  <2>6. StepInv'
    BY <1>2, <1>6, <2>2 DEF IInv, StepInv, StepOK, Untouched, Subscribed, StageOf
  <2>7. SettledBut(E)'
    BY <1>2, <2>1, <2>3 DEF IInv, SettledBut, Settled, Over
  <2> QED
    BY <1>1, <1>3, <1>4, <2>4, <2>5, <2>6, <2>7 DEF IInv
<1>8. CASE CreateAccepted(r)
  <2>1. Accepted(r)' /\ \A q \in Req : q # r => (Accepted(q)' <=> Accepted(q))
    BY <1>2, <1>8 DEF IInv, CreateAccepted, AnswerCreate, Accepted
  <2>2. queue' = Append(queue, r) /\ UNCHANGED <<pc, job>>
    BY <1>8 DEF CreateAccepted
  <2>3. Range(queue') = Range(queue) \cup {r} /\ (Distinct(queue) => Distinct(queue'))
    BY <1>5, <2>2, AppendRange DEF IInv, Open, Queued
  <2>4. /\ \A q \in Req : Queued(q)' <=> Queued(q) \/ q = r
        /\ \A q \in Req : Open(q)' <=> Open(q) \/ q = r
    BY <2>2, <2>3 DEF Open, Queued, Held
  <2>5. JobInv'
    BY <1>2, <2>2 DEF IInv, JobInv
  <2>6. OneWorkerPerSession'
    <3>1. \A q \in Req : Open(q)' => Accepted(q)'
      BY <2>1, <2>4 DEF IInv, OneWorkerPerSession
    <3>2. Distinct(queue')
      BY <2>3 DEF IInv, OneWorkerPerSession, Distinct
    <3>3. \A w \in Worker : job[w] # r
      BY <1>5 DEF Open, Held
    <3>4. ASSUME NEW w \in Worker, job'[w] # NoJob
          PROVE  ~Queued(job[w])' /\ \A v \in Worker : job'[v] = job'[w] => v = w
      BY <2>2, <2>3, <3>3, <3>4 DEF IInv, OneWorkerPerSession, Queued
    <3> QED
      BY <2>2, <3>1, <3>2, <3>4 DEF OneWorkerPerSession, Distinct, Queued
  <2>7. PlaneInv'
    BY <1>2, <1>5, <1>6, <2>1, <2>4 DEF IInv, PlaneInv, PlaneOK, Subscribed, StageOf
  <2>8. StepInv'
    BY <1>2, <1>6, <2>2 DEF IInv, StepInv, StepOK, Untouched, Subscribed, StageOf
  <2>9. SettledBut(E)'
    BY <1>2, <2>1, <2>4 DEF IInv, SettledBut, Settled, Over
  <2> QED
    BY <1>1, <1>3, <1>4, <2>5, <2>6, <2>7, <2>8, <2>9 DEF IInv
<1>9. ASSUME NEW w \in Worker, CreateHandedOver(r, w)
      PROVE  IInv(E)'
  <2>1. Accepted(r)' /\ \A q \in Req : q # r => (Accepted(q)' <=> Accepted(q))
    BY <1>2, <1>9 DEF IInv, CreateHandedOver, AnswerCreate, Accepted
  <2>2. /\ UNCHANGED queue
        /\ pc[w] = "idle" /\ pc'[w] = "save" /\ job[w] = NoJob /\ job'[w] = r
        /\ \A v \in Worker : v # w => pc'[v] = pc[v] /\ job'[v] = job[v]
    BY <1>9 DEF IInv, JobInv, CreateHandedOver
  <2>3. /\ \A q \in Req : Queued(q)' <=> Queued(q)
        /\ \A q \in Req : Open(q)' <=> Open(q) \/ q = r
    BY <2>2, SmfAssumption DEF Open, Queued, Held
  <2>4. JobInv'
    <3>1. cause'[w] = "none" /\ r # NoJob
      BY <1>2, <2>2, SmfAssumption DEF IInv, JobInv, Failing
    <3>2. \A v \in Worker : v # w => (pc[v] = "idle" <=> job[v] = NoJob)
                                   /\ (pc[v] \in Failing <=> cause[v] # "none")
      BY DEF IInv, JobInv
    <3> QED  BY <1>2, <2>2, <3>1, <3>2 DEF JobInv, Failing
  <2>5. OneWorkerPerSession'
    <3>1. \A v \in Worker : job[v] # r
      BY <1>5 DEF Open, Held
    <3>2. ASSUME NEW v \in Worker, job'[v] # NoJob
          PROVE  ~Queued(job[v])' /\ \A u \in Worker : job'[u] = job'[v] => u = v
      <4>1. CASE v = w
        BY <1>5, <2>2, <3>1, <4>1 DEF Open, Queued
      <4>2. CASE v # w
        BY <2>2, <3>1, <3>2, <4>2 DEF IInv, OneWorkerPerSession, Queued
      <4> QED  BY <4>1, <4>2
    <3>3. \A q \in Req : Open(q)' => Accepted(q)'
      BY <2>1, <2>3 DEF IInv, OneWorkerPerSession
    <3>4. Distinct(queue)'
      BY <2>2 DEF IInv, OneWorkerPerSession, Distinct
    <3> QED
      BY <3>2, <3>3, <3>4 DEF OneWorkerPerSession, Distinct, Queued
  <2>6. PlaneInv'
    BY <1>2, <1>5, <1>6, <2>1, <2>3 DEF IInv, PlaneInv, PlaneOK, Subscribed, StageOf, Open
  <2>7. StepInv'
    <3>1. StepOK(w)'
      BY <1>2, <1>5, <1>6, <2>2 DEF IInv, StepOK, AfterN4, Failing, Untouched, JobInv
    <3>2. ASSUME NEW v \in Worker, v # w, pc'[v] # "idle"
          PROVE  StepOK(v)'
      BY <1>2, <1>6, <2>2, <3>2 DEF IInv, StepInv, StepOK, Untouched, Subscribed, StageOf
    <3> QED  BY <3>1, <3>2 DEF StepInv
  <2>8. SettledBut(E)'
    BY <1>2, <2>1, <2>3 DEF IInv, SettledBut, Settled, Over
  <2> QED
    BY <1>1, <1>3, <1>4, <2>4, <2>5, <2>6, <2>7, <2>8 DEF IInv
<1> QED
  BY <1>7, <1>8, <1>9 DEF CreateSMContext

(* A worker takes the head of the queue: the job changes its place only. *)
LEMMA DequeueInvStep ==
  ASSUME NEW E, IInv(E), NEW w \in Worker, Dequeue(w), UNCHANGED amfVars
  PROVE  IInv(E)'
<1> DEFINE r == Head(queue)
<1> USE DEF TypeOK, SbiTypeOK, SmfTypeOK
<1>1. TypeOK'
  BY WorkerTypeStep DEF IInv, WorkerStep
<1>2. UNCHANGED <<createCall, transfer, trigger, amfSessions, step15, cause, outcome, installed, repo>>
  BY DEF Dequeue, sbiVars, n4Vars, amfVars
<1>3. TriggerInv' /\ MappingIsOwn'
  BY <1>2 DEF IInv, TriggerInv, MappingIsOwn, Accepted
<1>4. /\ pc[w] = "idle" /\ pc'[w] = "save" /\ job[w] = NoJob /\ job'[w] = r
      /\ \A v \in Worker : v # w => pc'[v] = pc[v] /\ job'[v] = job[v]
  BY DEF IInv, JobInv, Dequeue, Goto
<1>5. /\ r \in Req
      /\ Range(queue) = Range(queue') \cup {r}
      /\ Distinct(queue) => Distinct(queue') /\ r \notin Range(queue')
  <2>1. queue \in Seq(Req) /\ queue # <<>> /\ queue' = Tail(queue)
    BY DEF IInv, Dequeue
  <2>2. /\ Head(queue) \in Req
        /\ Range(queue) = Range(Tail(queue)) \cup {Head(queue)}
        /\ Distinct(queue) => Distinct(Tail(queue)) /\ Head(queue) \notin Range(Tail(queue))
    <3> HIDE DEF TypeOK, SbiTypeOK, SmfTypeOK
    <3> QED  BY <2>1, TailRange
  <2> QED  BY <2>1, <2>2, Zenon
<1> HIDE DEF r
<1>6. Distinct(queue)
  BY DEF IInv, OneWorkerPerSession, Distinct
<1>7. \A q \in Req : Queued(q)' <=> Queued(q) /\ q # r
  BY <1>5, <1>6 DEF Queued
<1>8. Queued(r) /\ Untouched(r) /\ Accepted(r) /\ \A v \in Worker : job[v] # r
  BY <1>5, SmfAssumption DEF IInv, Queued, PlaneInv, PlaneOK, OneWorkerPerSession, Open
<1>9. \A q \in Req : Open(q)' <=> Open(q)
  BY <1>4, <1>5, <1>7, <1>8, SmfAssumption DEF Open, Held
<1>10. \A q \in Req : (Untouched(q)' <=> Untouched(q)) /\ (Accepted(q)' <=> Accepted(q))
  BY <1>2 DEF Untouched, Accepted
<1>11. JobInv'
  BY <1>2, <1>4, <1>5, SmfAssumption DEF IInv, JobInv, Failing
<1>12. OneWorkerPerSession'
  <2>1. ASSUME NEW v \in Worker, job'[v] # NoJob
        PROVE  ~Queued(job[v])' /\ \A u \in Worker : job'[u] = job'[v] => u = v
    <3>1. CASE v = w
      BY <1>4, <1>5, <1>6, <1>8, <3>1 DEF Queued
    <3>2. CASE v # w
      BY <1>4, <1>5, <1>8, <2>1, <3>2 DEF IInv, OneWorkerPerSession, Queued
    <3> QED  BY <3>1, <3>2
  <2>2. \A q \in Req : Open(q)' => Accepted(q)'
    BY <1>9, <1>10 DEF IInv, OneWorkerPerSession
  <2> QED
    BY <1>5, <1>6, <2>1, <2>2 DEF OneWorkerPerSession, Distinct, Queued
<1>13. PlaneInv'
  BY <1>2, <1>7, <1>10 DEF IInv, PlaneInv, PlaneOK, Subscribed, StageOf
<1>14. StepInv'
  <2>1. StepOK(w)'
    BY <1>2, <1>4, <1>5, <1>8, <1>10 DEF StepOK, AfterN4, Failing
  <2>2. ASSUME NEW v \in Worker, v # w, pc'[v] # "idle"
        PROVE  StepOK(v)'
    BY <1>2, <1>4, <2>2 DEF IInv, StepInv, StepOK, Untouched, Subscribed, StageOf
  <2> QED  BY <2>1, <2>2 DEF StepInv
<1>15. SettledBut(E)'
  BY <1>2, <1>9, <1>10 DEF IInv, SettledBut, Settled, Over
<1> QED
  BY <1>1, <1>3, <1>11, <1>12, <1>13, <1>14, <1>15 DEF IInv

(* The UPF installs sessions of calls that were made, and nothing else. *)
LEMMA UpfInvStep ==
  ASSUME NEW E, IInv(E), UpfStep, UNCHANGED amfVars
  PROVE  IInv(E)'
<1>1. TypeOK'
  BY UpfTypeStep DEF IInv
<1>2. UNCHANGED <<createCall, transfer, trigger, amfSessions, step15, queue, pc, job, cause, outcome, repo>>
  BY DEF UpfStep, N4!Install, sbiVars, poolVars, amfVars
<1>3. TriggerInv' /\ MappingIsOwn' /\ JobInv' /\ OneWorkerPerSession' /\ SettledBut(E)'
  BY <1>2
  DEF IInv, TriggerInv, MappingIsOwn, JobInv, OneWorkerPerSession, SettledBut, Settled, Over, Open,
      Queued, Held, Accepted
<1>4. /\ installed \subseteq installed'
      /\ \A q \in installed' : q \in installed \/ outcome[q] # "idle"
  BY DEF UpfStep, N4!Install
<1>5. \A q \in Req : Untouched(q)' <=> Untouched(q)
  BY <1>2, <1>4 DEF Untouched
<1>6. PlaneInv'
  BY <1>2, <1>4, <1>5 DEF IInv, PlaneInv, PlaneOK, Accepted, Queued, Subscribed, StageOf
<1>7. StepInv'
  <2>1. SUFFICES ASSUME NEW w \in Worker, pc[w] # "idle"
                 PROVE  StepOK(w)'
    BY <1>2 DEF StepInv
  <2>2. job[w] \in Req /\ StepOK(w)
    BY <2>1 DEF IInv, JobInv, StepInv, TypeOK, SmfTypeOK
  <2> QED
    BY <1>2, <1>5, <2>2 DEF StepOK, Subscribed, StageOf
<1> QED
  BY <1>1, <1>3, <1>6, <1>7 DEF IInv

(* A worker that has a job touches its own session only. *)
LEMMA WorkerFrame ==
  ASSUME NEW E, IInv(E), NEW w \in Worker, WorkerStep(w), pc[w] # "idle"
  PROVE  /\ UNCHANGED <<createCall, queue, installed>>
         /\ \A v \in Worker \ {w} : pc'[v] = pc[v] /\ job'[v] = job[v] /\ cause'[v] = cause[v]
         /\ job'[w] = job[w] \/ job'[w] = NoJob
         /\ \A q \in Req : q # job[w] =>
              repo'[q] = repo[q] /\ outcome'[q] = outcome[q] /\ transfer'[q] = transfer[q]
<1>1. /\ pc \in [Worker -> WorkerState] /\ job \in [Worker -> Req \cup {NoJob}]
      /\ cause \in [Worker -> Reason] /\ job[w] \in Req
      /\ DOMAIN repo = Req /\ DOMAIN outcome = Req /\ DOMAIN transfer = Req
  BY DEF IInv, JobInv, TypeOK, SmfTypeOK, SbiTypeOK, N4!N4TypeOK
<1> DEFINE Own == /\ UNCHANGED queue
                  /\ \A v \in Worker \ {w} : pc'[v] = pc[v] /\ job'[v] = job[v] /\ cause'[v] = cause[v]
                  /\ job'[w] = job[w] \/ job'[w] = NoJob
<1>2. ASSUME NEW from, \/ \E to : Advance(w, from, to)
                       \/ \E prefix : ReturnError(w, from, prefix)
                       \/ Finish(w, from)
      PROVE  Own
  BY <1>1, <1>2 DEF Advance, ReturnError, FailWith, Finish, Goto
<1> HIDE DEF Own
<1>3. CASE SaveSession(w)
  <2>1. Own
    BY <1>2, <1>3 DEF SaveSession
  <2> QED  BY <1>1, <1>3, <2>1 DEF Own, SaveSession, Inserted, sbiVars, n4Vars
<1>4. CASE QueryUdm(w) \/ AwaitN1N2(w) \/ AwaitNotify(w)
  <2>1. Own
    BY <1>2, <1>4 DEF QueryUdm, AwaitN1N2, AwaitNotify
  <2> QED  BY <1>4, <2>1 DEF Own, QueryUdm, AwaitN1N2, AwaitNotify, sbiVars, n4Vars
<1>5. CASE SendPfcp(w) \/ AwaitPfcp(w)
  <2>1. Own
    BY <1>2, <1>5 DEF SendPfcp, AwaitPfcp
  <2> QED
    BY <1>1, <1>5, <2>1
    DEF Own, SendPfcp, AwaitPfcp, N4!Send, N4!Accept, N4!GiveUp, N4!Move, sbiVars
<1>6. CASE ActivateSession(w) \/ RecordFailure(w)
  <2>1. Own
    BY <1>2, <1>6 DEF ActivateSession, RecordFailure
  <2> QED  BY <1>1, <1>6, <2>1 DEF Own, ActivateSession, RecordFailure, sbiVars, n4Vars
<1>7. CASE SendN1N2(w) \/ NotifyFailure(w)
  <2>1. Own
    BY <1>2, <1>7 DEF SendN1N2, NotifyFailure
  <2> QED  BY <1>1, <1>7, <2>1 DEF Own, SendN1N2, NotifyFailure, SendTransfer, n4Vars
<1> QED
  BY <1>3, <1>4, <1>5, <1>6, <1>7 DEF WorkerStep, Dequeue, Goto

(* What a worker's step makes of its own session. *)
OwnOK(w, r) ==
  /\ IF pc[w] = "idle" THEN job[w] = NoJob ELSE job[w] = r /\ StepOK(w)
  /\ pc[w] \in Failing <=> cause[w] # "none"
  /\ PlaneOK(r)
  /\ pc[w] = "idle" => Settled(r) \/ DbMayFail

(* Every step of the pipeline leaves its session in the state that the next *)
(* step starts from, or settled.                                            *)
LEMMA OwnStep ==
  ASSUME NEW E, IInv(E), NEW w \in Worker, WorkerStep(w), pc[w] # "idle", NEW r \in Req, job[w] = r
  PROVE  OwnOK(w, r)'
<1>1. /\ pc \in [Worker -> WorkerState] /\ job \in [Worker -> Req \cup {NoJob}]
      /\ cause \in [Worker -> Reason]
      /\ repo \in [Req -> [status : Status, ip : BOOLEAN, reason : Reason]]
      /\ outcome \in [Req -> N4!Outcome]
      /\ transfer \in [Req -> [TransferStatus -> {"none", "sent", "ok", "notfound"}]]
  BY DEF IInv, TypeOK, SmfTypeOK, SbiTypeOK, N4!N4TypeOK
<1>2. /\ StepOK(w) /\ PlaneOK(r) /\ Accepted(r) /\ ~Queued(r)
      /\ pc[w] \in Failing <=> cause[w] # "none"
  BY SmfAssumption DEF IInv, JobInv, StepInv, PlaneInv, OneWorkerPerSession, Open, Held
<1>3. Accepted(r)' /\ ~Queued(r)' /\ UNCHANGED installed
  BY <1>2, WorkerFrame DEF Accepted, Queued
<1>4. CASE SaveSession(w)
  <2>1. pc[w] = "save" /\ Untouched(r)
    BY <1>2, <1>4 DEF SaveSession, Advance, ReturnError, FailWith, Goto, StepOK
  <2>2. transfer' = transfer /\ outcome' = outcome /\ job'[w] = r
    <3>1. UNCHANGED <<sbiVars, n4Vars>> /\ UNCHANGED job
      BY <1>4 DEF SaveSession, Advance, ReturnError, FailWith
    <3> QED  BY <3>1 DEF sbiVars, n4Vars
  <2>3. repo'[r] = CreatingRow \/ (DbMayFail /\ repo'[r] = NoRow)
    BY <1>1, <1>4, <2>1 DEF SaveSession, Inserted, CreatingRow, Untouched
  <2>4. \/ pc'[w] = "udm" /\ cause'[w] = "none" /\ repo'[r] = CreatingRow
        \/ pc'[w] = "fail" /\ cause'[w] \in {"DB_ERROR", "E2E_ESTABLISHMENT_FAILED"}
    <3>1. CASE Advance(w, "save", "udm") /\ Inserted(job[w])
      BY <1>1, <1>2, <2>1, <3>1 DEF Inserted, CreatingRow, Advance, Goto, Failing
    <3>2. CASE ReturnError(w, "save", "database")
      <4>1. PICK reason : FailWith(w, "save", reason) /\ reason \in {"DB_ERROR", "E2E_ESTABLISHMENT_FAILED"}
        BY <3>2, Returned DEF Prefix
      <4> QED  BY <1>1, <4>1 DEF FailWith, Goto
    <3> QED
      BY <1>4, <3>1, <3>2 DEF SaveSession
  <2>5. StepOK(w)'
    BY <2>1, <2>2, <2>3, <2>4
    DEF StepOK, Untouched, StageOf, CreatingRow, NoRow, TransferStatus, AfterN4, Failing
  <2>6. PlaneOK(r)'
    BY <1>2, <1>3, <2>1, <2>2, <2>3
    DEF PlaneOK, Untouched, CreatingRow, NoRow, StageOf, TransferStatus, Subscribed
  <2> QED
    BY <2>2, <2>4, <2>5, <2>6 DEF OwnOK, Failing
<1>5. CASE QueryUdm(w)
  <2>1. /\ pc[w] = "udm" /\ UNCHANGED <<repo, transfer, outcome>> /\ job'[w] = r
        /\ \/ pc'[w] = "n4" /\ cause'[w] = cause[w] /\ Subscribed(r)
           \/ pc'[w] = "fail" /\ cause'[w] \in {"DB_ERROR", "E2E_ESTABLISHMENT_FAILED"}
    <3>1. CASE Advance(w, "udm", "n4") /\ Subscribed(job[w])
      BY <1>1, <1>5, <3>1 DEF QueryUdm, Advance, Goto, sbiVars, n4Vars
    <3>2. CASE ReturnError(w, "udm", "UDM")
      <4>1. PICK reason : FailWith(w, "udm", reason) /\ reason \in {"DB_ERROR", "E2E_ESTABLISHMENT_FAILED"}
        BY <3>2, Returned DEF Prefix
      <4> QED  BY <1>1, <1>5, <4>1 DEF QueryUdm, FailWith, Goto, sbiVars, n4Vars
    <3> QED
      BY <1>5, <3>1, <3>2 DEF QueryUdm
  <2>2. StepOK(w)'
    BY <1>2, <2>1 DEF StepOK, StageOf, CreatingRow, NoRow, TransferStatus, AfterN4, Failing, Subscribed
  <2>3. PlaneOK(r)'
    BY <1>2, <1>3, <2>1 DEF PlaneOK, StageOf, Subscribed
  <2> QED
    BY <1>2, <2>1, <2>2, <2>3 DEF OwnOK, Failing
<1>6. CASE SendPfcp(w)
  <2>1. /\ pc[w] = "n4" /\ pc'[w] = "n4wait" /\ cause'[w] = cause[w] /\ job'[w] = r
        /\ UNCHANGED <<repo, transfer>> /\ outcome'[r] = "waiting"
    BY <1>1, <1>6 DEF SendPfcp, Advance, Goto, N4!Send, N4!Move, sbiVars
  <2>2. StepOK(w)'
    BY <1>2, <2>1 DEF StepOK, StageOf, AfterN4, Failing
  <2>3. PlaneOK(r)'
    BY <1>2, <1>3, <2>1 DEF PlaneOK, StepOK, StageOf, Subscribed, CreatingRow, NoRow, TransferStatus
  <2> QED
    BY <1>2, <2>1, <2>2, <2>3 DEF OwnOK, Failing
<1>7. CASE AwaitPfcp(w)
  <2>1. /\ pc[w] = "n4wait" /\ UNCHANGED <<repo, transfer>> /\ job'[w] = r
        /\ \/ /\ pc'[w] = "activate" /\ cause'[w] = cause[w]
              /\ outcome'[r] = "ok" /\ r \in installed
           \/ pc'[w] = "fail" /\ cause'[w] = "PFCP_TIMEOUT" /\ outcome'[r] = "failed"
    <3>1. CASE Advance(w, "n4wait", "activate") /\ N4!Accept(job[w])
      BY <1>1, <1>7, <3>1 DEF AwaitPfcp, Advance, Goto, N4!Accept, N4!Move, sbiVars
    <3>2. CASE ReturnError(w, "n4wait", "PFCP") /\ N4!GiveUp(job[w])
      <4>1. PICK reason : FailWith(w, "n4wait", reason) /\ reason = "PFCP_TIMEOUT"
        BY <3>2, Returned DEF Prefix
      <4> QED  BY <1>1, <1>7, <3>2, <4>1 DEF AwaitPfcp, FailWith, Goto, N4!GiveUp, N4!Move, sbiVars
    <3> QED
      BY <1>7, <3>1, <3>2 DEF AwaitPfcp
  <2>2. StepOK(w)'
    BY <1>2, <2>1 DEF StepOK, StageOf, CreatingRow, NoRow, TransferStatus, AfterN4, Failing
  <2>3. PlaneOK(r)'
    BY <1>2, <1>3, <2>1 DEF PlaneOK, StepOK, StageOf, Subscribed, CreatingRow, NoRow, TransferStatus
  <2> QED
    BY <1>2, <2>1, <2>2, <2>3 DEF OwnOK, Failing
<1>8. CASE ActivateSession(w)
  <2>1. /\ pc[w] = "activate" /\ pc'[w] = "n1n2" /\ cause'[w] = cause[w] /\ job'[w] = r
        /\ UNCHANGED <<transfer, outcome>>
    BY <1>1, <1>8 DEF ActivateSession, Advance, Goto, sbiVars, n4Vars
  <2>2. repo'[r].status = "ACTIVE" \/ (DbMayFail /\ repo'[r] = repo[r])
    BY <1>1, <1>8 DEF ActivateSession
  <2>3. StepOK(w)'
    BY <1>2, <2>1, <2>2 DEF StepOK, StageOf, CreatingRow, NoRow, TransferStatus, AfterN4, Failing
  <2>4. PlaneOK(r)'
    BY <1>2, <1>3, <2>1, <2>2
    DEF PlaneOK, StepOK, AfterN4, StageOf, Subscribed, CreatingRow, NoRow, TransferStatus
  <2> QED
    BY <1>2, <2>1, <2>3, <2>4 DEF OwnOK, Failing
<1>9. CASE SendN1N2(w)
  <2>1. /\ pc[w] = "n1n2" /\ pc'[w] = "n1n2wait" /\ cause'[w] = cause[w] /\ job'[w] = r
        /\ UNCHANGED <<repo, outcome>> /\ transfer'[r]["FAILED"] = transfer[r]["FAILED"]
    BY <1>1, <1>9 DEF SendN1N2, SendTransfer, TransferStatus, Advance, Goto, n4Vars
  <2>2. StepOK(w)'
    BY <1>2, <2>1 DEF StepOK, StageOf, AfterN4, Failing
  <2>3. PlaneOK(r)'
    BY <1>2, <1>3, <2>1 DEF PlaneOK, StepOK, AfterN4, StageOf, Subscribed
  <2> QED
    BY <1>2, <2>1, <2>2, <2>3 DEF OwnOK, Failing
<1>10. CASE AwaitN1N2(w)
  <2>1. /\ pc[w] = "n1n2wait" /\ UNCHANGED <<repo, outcome, transfer>>
        /\ \/ /\ pc'[w] = "idle" /\ cause'[w] = "none" /\ job'[w] = NoJob
              /\ transfer[r]["ACTIVE"] = "ok"
           \/ pc'[w] = "fail" /\ cause'[w] = "N1N2_FAILED" /\ job'[w] = r
    <3>1. CASE Finish(w, "n1n2wait") /\ transfer[job[w]]["ACTIVE"] = "ok"
      BY <1>1, <1>10, <3>1 DEF AwaitN1N2, Finish, Goto, sbiVars, n4Vars
    <3>2. ASSUME NEW prefix \in {"N1N2", "AMF responded"}, ReturnError(w, "n1n2wait", prefix)
          PROVE  pc[w] = "n1n2wait" /\ pc'[w] = "fail" /\ cause'[w] = "N1N2_FAILED" /\ job'[w] = r
      <4>1. PICK reason : FailWith(w, "n1n2wait", reason) /\ reason = "N1N2_FAILED"
        BY <3>2, Returned DEF Prefix
      <4> QED  BY <1>1, <4>1 DEF FailWith, Goto
    <3> QED
      BY <1>10, <3>1, <3>2 DEF AwaitN1N2, sbiVars, n4Vars
  <2>2. pc'[w] = "fail" => StepOK(w)'
    BY <1>2, <2>1 DEF StepOK, StageOf, AfterN4, Failing
  <2>3. PlaneOK(r)'
    BY <1>2, <1>3, <2>1 DEF PlaneOK, StageOf, Subscribed
  <2>4. pc'[w] = "idle" => Settled(r)' \/ DbMayFail
    BY <1>2, <2>1 DEF StepOK, Settled
  <2> QED
    BY <1>2, <2>1, <2>2, <2>3, <2>4 DEF OwnOK, Failing
<1>11. CASE RecordFailure(w)
  <2>1. /\ pc[w] = "fail" /\ pc'[w] = "notify" /\ cause'[w] = cause[w] /\ job'[w] = r
        /\ UNCHANGED <<transfer, outcome>>
    BY <1>1, <1>11 DEF RecordFailure, Advance, Goto, sbiVars, n4Vars
  <2>2. \/ repo'[r].status = "FAILED" /\ repo'[r].reason = cause[w] /\ repo'[r].ip = repo[r].ip
        \/ repo'[r] = repo[r] /\ (DbMayFail \/ repo[r].status = "NONE")
    BY <1>1, <1>11 DEF RecordFailure
  <2>3. StepOK(w)'
    BY <1>2, <2>1, <2>2 DEF StepOK, StageOf, AfterN4, Failing
  <2>4. PlaneOK(r)'
    BY <1>2, <1>3, <2>1, <2>2 DEF PlaneOK, StepOK, StageOf, Subscribed, Failing
  <2> QED
    BY <1>2, <2>1, <2>3, <2>4 DEF OwnOK, Failing
<1>12. CASE NotifyFailure(w)
  <2>1. /\ pc[w] = "notify" /\ UNCHANGED <<repo, outcome>>
        /\ transfer'[r]["ACTIVE"] = transfer[r]["ACTIVE"]
        /\ \/ /\ pc'[w] = "notifywait" /\ cause'[w] = cause[w] /\ job'[w] = r
              /\ transfer'[r]["FAILED"] = "sent"
           \/ /\ pc'[w] = "idle" /\ cause'[w] = "none" /\ job'[w] = NoJob
              /\ repo[r].status = "NONE" \/ DbMayFail
    BY <1>1, <1>12
    DEF NotifyFailure, SendTransfer, TransferStatus, Advance, Finish, Goto, n4Vars
  <2>2. pc'[w] = "notifywait" => StepOK(w)'
    BY <1>2, <2>1 DEF StepOK, StageOf, AfterN4, Failing
  <2>3. PlaneOK(r)'
    BY <1>2, <1>3, <2>1 DEF PlaneOK, StepOK, StageOf, Subscribed, Failing
  <2>4. pc'[w] = "idle" => DbMayFail
    BY <1>2, <2>1 DEF StepOK
  <2> QED
    BY <1>2, <2>1, <2>2, <2>3, <2>4 DEF OwnOK, Failing
<1>13. CASE AwaitNotify(w)
  <2>1. /\ pc[w] = "notifywait" /\ UNCHANGED <<repo, outcome, transfer>>
        /\ pc'[w] = "idle" /\ cause'[w] = "none" /\ job'[w] = NoJob
    BY <1>1, <1>13 DEF AwaitNotify, Finish, Goto, sbiVars, n4Vars
  <2>2. PlaneOK(r)'
    BY <1>2, <1>3, <2>1 DEF PlaneOK, StageOf, Subscribed
  <2>3. Settled(r)' \/ DbMayFail
    BY <1>2, <2>1 DEF StepOK, Settled
  <2> QED
    BY <2>1, <2>2, <2>3 DEF OwnOK, Failing
<1> QED
  BY <1>4, <1>5, <1>6, <1>7, <1>8, <1>9, <1>10, <1>11, <1>12, <1>13
  DEF WorkerStep, Dequeue, Goto

(* A worker's step keeps the invariant: its own session by OwnStep, the     *)
(* others because no other worker has it and nothing of theirs is touched.  *)
LEMMA WorkerInvStep ==
  ASSUME NEW E, IInv(E), NEW w \in Worker, WorkerStep(w), UNCHANGED amfVars, pc[w] # "idle"
  PROVE  IInv(E)'
<1>0. PICK r \in Req : r = job[w]
  BY DEF IInv, JobInv, TypeOK, SmfTypeOK
<1>1. TypeOK'
  BY WorkerTypeStep DEF IInv
<1>2. /\ r # NoJob /\ \A v \in Worker : job[v] = r => v = w
      /\ \A v \in Worker : job[v] \in Req \cup {NoJob}
  BY <1>0, SmfAssumption DEF IInv, JobInv, OneWorkerPerSession, TypeOK, SmfTypeOK
<1>3. /\ UNCHANGED <<createCall, queue, installed>>
      /\ \A v \in Worker \ {w} : pc'[v] = pc[v] /\ job'[v] = job[v] /\ cause'[v] = cause[v]
      /\ job'[w] = r \/ job'[w] = NoJob
      /\ \A q \in Req : q # r =>
           repo'[q] = repo[q] /\ outcome'[q] = outcome[q] /\ transfer'[q] = transfer[q]
  BY <1>0, WorkerFrame
<1>4. OwnOK(w, r)'
  BY <1>0, OwnStep
<1>5. TriggerInv' /\ MappingIsOwn'
  BY <1>3 DEF IInv, TriggerInv, MappingIsOwn, amfVars, Accepted
<1>6. /\ \A q \in Req : (Queued(q)' <=> Queued(q)) /\ (Accepted(q)' <=> Accepted(q))
      /\ \A q \in Req : Open(q)' => Open(q)
      /\ \A q \in Req : q # r => (Open(q)' <=> Open(q))
      /\ pc'[w] # "idle" => Open(r)'
  <2>1. \A q \in Req : (Queued(q)' <=> Queued(q)) /\ (Accepted(q)' <=> Accepted(q))
    BY <1>3 DEF Queued, Accepted
  <2>2. \A q \in Req : Held(q)' => Held(q)
    BY <1>2, <1>3, <1>0, SmfAssumption DEF Held
  <2>3. \A q \in Req : q # r => (Held(q) => Held(q)')
    BY <1>0, <1>3 DEF Held
  <2>4. pc'[w] # "idle" => job'[w] = r
    BY <1>2, <1>4 DEF OwnOK
  <2>5. pc'[w] # "idle" => Held(r)'
    BY <2>4 DEF Held
  <2> QED  BY <2>1, <2>2, <2>3, <2>5 DEF Open
<1>7. JobInv'
  BY <1>2, <1>3, <1>4 DEF IInv, JobInv, OwnOK
<1>8. OneWorkerPerSession'
  <2>1. ASSUME NEW v \in Worker, job'[v] # NoJob
        PROVE  ~Queued(job[v])' /\ \A u \in Worker : job'[u] = job'[v] => u = v
    <3>1. job'[v] = job[v] /\ ~Queued(job[v])
      BY <1>0, <1>3, <2>1 DEF IInv, OneWorkerPerSession
    <3>2. \A u \in Worker : job'[u] = job'[v] => job[u] = job[v]
      BY <1>0, <1>3, <2>1, <3>1
    <3> QED  BY <1>3, <2>1, <3>1, <3>2 DEF IInv, OneWorkerPerSession, Queued
  <2>2. \A q \in Req : Open(q)' => Accepted(q)'
    BY <1>6 DEF IInv, OneWorkerPerSession
  <2> QED
    BY <1>3, <2>1, <2>2 DEF IInv, OneWorkerPerSession, Queued
<1>9. PlaneInv'
  <2>1. SUFFICES ASSUME NEW q \in Req, q # r
                 PROVE  PlaneOK(q)'
    BY <1>2, <1>4 DEF PlaneInv, OwnOK
  <2> QED
    BY <1>3, <1>6, <2>1 DEF IInv, PlaneInv, PlaneOK, Untouched, Subscribed, StageOf
<1>10. StepInv'
  <2>1. SUFFICES ASSUME NEW v \in Worker, v # w, pc'[v] # "idle"
                 PROVE  StepOK(v)'
    BY <1>2, <1>4 DEF StepInv, OwnOK
  <2>2. job[v] \in Req /\ job[v] # r /\ StepOK(v)
    BY <1>0, <1>2, <1>3, <2>1 DEF IInv, StepInv, JobInv
  <2>3. /\ job'[v] = job[v] /\ pc'[v] = pc[v] /\ cause'[v] = cause[v]
        /\ repo'[job[v]] = repo[job[v]] /\ outcome'[job[v]] = outcome[job[v]]
        /\ transfer'[job[v]] = transfer[job[v]]
    BY <1>3, <2>1, <2>2
  <2> QED
    BY <1>3, <2>2, <2>3 DEF StepOK, Untouched, Subscribed, StageOf
<1>11. SettledBut(E)'
  <2>1. SUFFICES ASSUME NEW q \in Req \ E, Over(q)', ~DbMayFail
                 PROVE  Settled(q)'
    BY DEF SettledBut
  <2>2. CASE q = r
    BY <1>2, <1>4, <1>6, <2>1, <2>2 DEF Over, OwnOK
  <2>3. CASE q # r
    BY <1>3, <1>6, <2>1, <2>3 DEF IInv, SettledBut, Over, Settled
  <2> QED  BY <2>2, <2>3
<1> QED
  BY <1>1, <1>5, <1>7, <1>8, <1>9, <1>10, <1>11 DEF IInv

(* Every step of the program keeps the invariant, whatever E excuses. *)
LEMMA InvStep ==
  ASSUME NEW E, IInv(E), [Next]_vars
  PROVE  IInv(E)'
<1>1. ASSUME NEW r \in Req, AmfStep(r), UNCHANGED smfVars
      PROVE  IInv(E)'
  BY <1>1, AmfInvStep
<1>2. ASSUME NEW r \in Req, CreateSMContext(r), UNCHANGED amfVars
      PROVE  IInv(E)'
  BY <1>2, CreateInvStep
<1>3. ASSUME NEW w \in Worker, WorkerStep(w), UNCHANGED amfVars
      PROVE  IInv(E)'
  <2>1. CASE pc[w] = "idle"
    <3>1. Dequeue(w)
      BY <1>3, <2>1
      DEF WorkerStep, SaveSession, QueryUdm, SendPfcp, AwaitPfcp, ActivateSession, SendN1N2,
          AwaitN1N2, RecordFailure, NotifyFailure, AwaitNotify, Advance, ReturnError, FailWith, Finish, Goto
    <3> QED  BY <1>3, <3>1, DequeueInvStep
  <2> QED  BY <1>3, <2>1, WorkerInvStep
<1>4. CASE UpfStep /\ UNCHANGED amfVars
  BY <1>4, UpfInvStep
<1>5. CASE UNCHANGED vars
  BY <1>5
  DEF vars, sbiVars, amfVars, smfVars, n4Vars, poolVars, counters,
      IInv, TypeOK, SbiTypeOK, AmfTypeOK, SmfTypeOK, N4!N4TypeOK, TriggerInv, MappingIsOwn, JobInv,
      OneWorkerPerSession, PlaneInv, PlaneOK, StepInv, StepOK, SettledBut, Settled, Over, Open,
      Queued, Held, Accepted, Untouched, StageOf, Subscribed
<1> QED
  BY <1>1, <1>2, <1>3, <1>4, <1>5 DEF Next, SmfStep

(* IInv is an invariant of the specification. *)
LEMMA Invariance == Spec => []IInv({})
<1>1. Init => IInv({})
  BY InvInit
<1>2. IInv({}) /\ [Next]_vars => IInv({})'
  BY InvStep
<1> QED
  BY <1>1, <1>2, PTL DEF Spec

-----------------------------------------------------------------------------
(* The theorems. *)

(* Every variable keeps its type; in particular the tables of AMF and SMF   *)
(* hold sessions and states that exist.                                     *)
THEOREM TypeCorrect == Spec => []TypeOK
<1>1. IInv({}) => TypeOK
  BY DEF IInv
<1> QED
  BY <1>1, Invariance, PTL

(* The queue and the pool do each accepted job once, whatever their sizes   *)
(* (service.go:106-156).                                                    *)
THEOREM JobsAreDoneOnce == Spec => []OneWorkerPerSession
<1>1. IInv({}) => OneWorkerPerSession
  BY DEF IInv
<1> QED
  BY <1>1, Invariance, PTL

(* Nobody is told of a session that the UPF does not have or that the       *)
(* subscriber may not have (service.go:172-279).                            *)
THEOREM ActiveStaysInstalled == Spec => []ActiveIsInstalled
<1>1. IInv({}) => ActiveIsInstalled
  BY DEF IInv, ActiveIsInstalled, PlaneInv, PlaneOK
<1> QED
  BY <1>1, Invariance, PTL

(* The recorded reason of a failure tells what the UPF was asked for        *)
(* (service.go:130-145).                                                    *)
THEOREM ReasonsAreTrue == Spec => []ReasonTellsStage
<1>1. IInv({}) => ReasonTellsStage
  <2> SUFFICES ASSUME IInv({}), NEW r \in Req, repo[r].status = "FAILED"
               PROVE  CASE repo[r].reason \in {"DB_ERROR", "E2E_ESTABLISHMENT_FAILED"} ->
                             outcome[r] = "idle" /\ r \notin installed
                        [] repo[r].reason = "PFCP_TIMEOUT" -> outcome[r] = "failed"
                        [] repo[r].reason = "N1N2_FAILED" -> outcome[r] = "ok" /\ r \in installed
                        [] OTHER -> FALSE
    BY DEF ReasonTellsStage
  <2>1. repo[r].reason \in Reason
    BY DEF IInv, TypeOK, SmfTypeOK
  <2>2. PlaneOK(r) /\ StageOf(r, repo[r].reason)
    BY DEF IInv, PlaneInv, PlaneOK
  <2> QED
    BY <2>1, <2>2 DEF PlaneOK, StageOf, Reason
<1> QED
  BY <1>1, Invariance, PTL

(* With a repository that does not fail, no accepted session is forgotten:  *)
(* it ends active and confirmed or failed and notified (service.go:116-156, *)
(* 281-338).                                                                *)
THEOREM AcceptedIsSettled == Spec => []OverIsSettled
<1>1. IInv({}) => OverIsSettled
  BY DEF IInv, SettledBut, Settled, OverIsSettled
<1> QED
  BY <1>1, Invariance, PTL

(* A UPF session that no worker looks after any more has a row, whatever    *)
(* statements fail; a row that says failed has a reason that admits the     *)
(* session, and without failing statements it says ACTIVE or FAILED         *)
(* (service.go:229-275).                                                    *)
THEOREM OrphansAreRecorded == Spec => []OrphanIsRecorded
<1>1. IInv({}) => OrphanIsRecorded
  <2> SUFFICES ASSUME IInv({}), NEW r \in installed, Over(r)
               PROVE  /\ repo[r].status # "NONE"
                      /\ repo[r].status = "FAILED" => repo[r].reason \in {"PFCP_TIMEOUT", "N1N2_FAILED"}
                      /\ ~DbMayFail => repo[r].status \in {"ACTIVE", "FAILED"}
    BY DEF OrphanIsRecorded
  <2>1. r \in Req /\ repo[r].reason \in Reason
    BY DEF IInv, TypeOK, SmfTypeOK, N4!N4TypeOK
  <2>2. outcome[r] # "idle" /\ PlaneOK(r)
    BY <2>1 DEF IInv, PlaneInv, PlaneOK
  <2>3. repo[r].status # "NONE"
    BY <2>2 DEF PlaneOK
  <2>4. repo[r].status = "FAILED" => repo[r].reason \in {"PFCP_TIMEOUT", "N1N2_FAILED"}
    BY <2>1, <2>2 DEF PlaneOK, StageOf, Reason
  <2>5. ~DbMayFail => repo[r].status \in {"ACTIVE", "FAILED"}
    BY <2>1 DEF IInv, SettledBut, Settled
  <2> QED
    BY <2>3, <2>4, <2>5
<1> QED
  BY <1>1, Invariance, PTL

(* Load shedding costs nothing beyond the answer: no row, no job, no call   *)
(* to UPF or AMF (handler.go:61-72).                                        *)
THEOREM ShedCostsNothing == Spec => []ShedLeavesNoTrace
<1>1. IInv({}) => ShedLeavesNoTrace
  BY DEF IInv, ShedLeavesNoTrace, OneWorkerPerSession, PlaneInv, PlaneOK, Untouched, Accepted
<1> QED
  BY <1>1, Invariance, PTL

(* The AMF never mixes up subscribers, although its callbacks and its       *)
(* trigger handlers run concurrently (amf/handler.go:132-172).              *)
THEOREM MappingsStayOwn == Spec => []MappingIsOwn
<1>1. IInv({}) => MappingIsOwn
  BY DEF IInv
<1> QED
  BY <1>1, Invariance, PTL

-----------------------------------------------------------------------------
(* The counters. *)

Working == {w \in Worker : pc[w] \notin {"idle"} \cup Failing}

Answered == {r \in Req : createCall[r] \in {"created", "congested"}}

CountInv ==
  successCounter + failCounter + Len(queue) + Cardinality(Working) = Cardinality(Answered)

(* The AMF asks; it does not answer. *)
LEMMA AmfAsks ==
  ASSUME TypeOK, TriggerInv, NEW r \in Req, AmfStep(r)
  PROVE  \A q \in Req : createCall'[q] = createCall[q] \/ (createCall[q] = "none" /\ createCall'[q] = "sent")
<1>1. CASE TriggerEstablishment(r)
  BY <1>1 DEF TriggerEstablishment, MoveTrigger, TriggerInv, TypeOK, SbiTypeOK
<1>2. CASE ~TriggerEstablishment(r)
  <2>1. createCall' = createCall
    BY <1>2 DEF AmfStep, Created, Rejected, TriggerError, CallbackActive, CallbackFailed, UpdateSMContext, sbiVars
  <2> QED
    BY <2>1
<1> QED
  BY <1>1, <1>2

LEMMA CountTypes ==
  ASSUME TypeOK
  PROVE  /\ successCounter \in Nat /\ failCounter \in Nat /\ queue \in Seq(Req) /\ Len(queue) \in Nat
         /\ pc \in [Worker -> WorkerState] /\ DOMAIN createCall = Req
  BY DEF TypeOK, SmfTypeOK, SbiTypeOK

LEMMA Cardinalities ==
  ASSUME IsFiniteSet(Req), IsFiniteSet(Worker)
  PROVE  /\ IsFiniteSet(Working) /\ Cardinality(Working) \in Nat
         /\ IsFiniteSet(Answered) /\ Cardinality(Answered) \in Nat
<1>1. Working \subseteq Worker /\ Answered \subseteq Req
  BY DEF Working, Answered
<1>2. IsFiniteSet(Working) /\ IsFiniteSet(Answered)
  BY <1>1, FS_Subset
<1> QED
  BY <1>2, FS_CardinalityType

(* One worker starts or ends with a job, or none does. *)
LEMMA WorkingMoves ==
  ASSUME IsFiniteSet(Req), IsFiniteSet(Worker), TypeOK, NEW w \in Worker, NEW from, NEW to, Goto(w, from, to)
  PROVE  /\ from \in {"idle"} \cup Failing /\ to \notin {"idle"} \cup Failing =>
              Cardinality(Working') = Cardinality(Working) + 1
         /\ from \notin {"idle"} \cup Failing /\ to \in {"idle"} \cup Failing =>
              Cardinality(Working') = Cardinality(Working) - 1
         /\ (from \in {"idle"} \cup Failing <=> to \in {"idle"} \cup Failing) => Working' = Working
<1>1. pc[w] = from /\ pc'[w] = to /\ \A v \in Worker \ {w} : pc'[v] = pc[v]
  BY CountTypes DEF Goto
<1>2. CASE from \in {"idle"} \cup Failing /\ to \notin {"idle"} \cup Failing
  <2>1. Working' = Working \cup {w} /\ w \notin Working
    BY <1>1, <1>2 DEF Working
  <2> QED
    BY <1>2, <2>1, Cardinalities, FS_AddElement
<1>3. CASE from \notin {"idle"} \cup Failing /\ to \in {"idle"} \cup Failing
  <2>1. Working' = Working \ {w} /\ w \in Working
    BY <1>1, <1>3 DEF Working
  <2> QED
    BY <1>3, <2>1, Cardinalities, FS_RemoveElement
<1>4. CASE from \in {"idle"} \cup Failing <=> to \in {"idle"} \cup Failing
  <2>1. Working' = Working
    BY <1>1, <1>4 DEF Working
  <2> QED
    BY <1>4, <2>1
<1> QED
  BY <1>2, <1>3, <1>4

LEMMA CreateCounts ==
  ASSUME IsFiniteSet(Req), IsFiniteSet(Worker), TypeOK, CountInv, NEW r \in Req, CreateSMContext(r)
  PROVE  CountInv'
<1>1. Cardinality(Answered') = Cardinality(Answered) + 1
  <2>1. createCall[r] = "sent" /\ createCall'[r] \in {"created", "congested"}
        /\ \A q \in Req \ {r} : createCall'[q] = createCall[q]
    BY CountTypes DEF CreateSMContext, CreateAccepted, CreateShed, CreateHandedOver, AnswerCreate
  <2>2. Answered' = Answered \cup {r} /\ r \notin Answered
    BY <2>1 DEF Answered
  <2> QED
    BY <2>2, Cardinalities, FS_AddElement
<1>2. CASE CreateAccepted(r)
  <2>1. Len(queue') = Len(queue) + 1 /\ UNCHANGED <<pc, successCounter, failCounter>>
    BY <1>2, CountTypes DEF CreateAccepted, counters
  <2>2. Working' = Working
    BY <2>1 DEF Working
  <2> QED
    BY <1>1, <2>1, <2>2, CountTypes, Cardinalities DEF CountInv
<1>3. CASE CreateShed(r)
  <2>1. failCounter' = failCounter + 1 /\ UNCHANGED <<pc, queue, successCounter>>
    BY <1>3 DEF CreateShed, poolVars
  <2>2. Working' = Working
    BY <2>1 DEF Working
  <2> QED
    BY <1>1, <2>1, <2>2, CountTypes, Cardinalities DEF CountInv
<1>4. ASSUME NEW w \in Worker, CreateHandedOver(r, w) PROVE CountInv'
  <2>1. Goto(w, "idle", "save") /\ UNCHANGED <<queue, successCounter, failCounter>>
    BY <1>4 DEF CreateHandedOver, Goto, counters
  <2>2. Cardinality(Working') = Cardinality(Working) + 1
    BY <2>1, WorkingMoves DEF Failing
  <2> QED
    BY <1>1, <2>1, <2>2, CountTypes, Cardinalities DEF CountInv
<1> QED
  BY <1>2, <1>3, <1>4 DEF CreateSMContext

LEMMA WorkerCounts ==
  ASSUME IsFiniteSet(Req), IsFiniteSet(Worker), TypeOK, CountInv, NEW w \in Worker, WorkerStep(w)
  PROVE  CountInv'
<1>1. Answered' = Answered
  <2>1. createCall' = createCall
    BY DEF WorkerStep, Dequeue, SaveSession, QueryUdm, SendPfcp, AwaitPfcp, ActivateSession, SendN1N2,
           AwaitN1N2, RecordFailure, NotifyFailure, AwaitNotify, SendTransfer, sbiVars
  <2> QED
    BY <2>1 DEF Answered
<1>2. CASE Dequeue(w)
  <2>1. Goto(w, "idle", "save") /\ UNCHANGED <<successCounter, failCounter>>
    BY <1>2 DEF Dequeue, counters
  <2>2. Len(queue') = Len(queue) - 1
    BY <1>2, CountTypes DEF Dequeue
  <2>3. Cardinality(Working') = Cardinality(Working) + 1
    BY <2>1, WorkingMoves DEF Failing
  <2> QED
    BY <1>1, <2>1, <2>2, <2>3, CountTypes, Cardinalities DEF CountInv
<1>3. ASSUME NEW from, NEW prefix, ReturnError(w, from, prefix), from \notin {"idle"} \cup Failing
      PROVE  CountInv'
  <2>1. Goto(w, from, "fail") /\ failCounter' = failCounter + 1 /\ UNCHANGED <<queue, successCounter>>
    BY <1>3 DEF ReturnError, FailWith
  <2>2. Cardinality(Working') = Cardinality(Working) - 1
    BY <1>3, <2>1, WorkingMoves DEF Failing
  <2> QED
    BY <1>1, <2>1, <2>2, CountTypes, Cardinalities DEF CountInv
<1>4. ASSUME NEW from, NEW to, Advance(w, from, to),
             from \in {"idle"} \cup Failing <=> to \in {"idle"} \cup Failing
      PROVE  CountInv'
  <2>1. Goto(w, from, to) /\ UNCHANGED <<queue, successCounter, failCounter>>
    BY <1>4 DEF Advance, counters
  <2>2. Working' = Working
    BY <1>4, <2>1, WorkingMoves
  <2> QED
    BY <1>1, <2>1, <2>2 DEF CountInv
<1>5. CASE NotifyFailure(w) /\ Finish(w, "notify")
  <2>1. Goto(w, "notify", "idle") /\ UNCHANGED <<queue, successCounter, failCounter>>
    BY <1>5 DEF NotifyFailure, Finish, Advance, Goto, counters
  <2>2. Working' = Working
    BY <2>1, WorkingMoves DEF Failing
  <2> QED
    BY <1>1, <2>1, <2>2 DEF CountInv
<1>6. CASE AwaitNotify(w)
  <2>1. Goto(w, "notifywait", "idle") /\ UNCHANGED <<queue, successCounter, failCounter>>
    BY <1>6 DEF AwaitNotify, Finish, counters
  <2>2. Working' = Working
    BY <2>1, WorkingMoves DEF Failing
  <2> QED
    BY <1>1, <2>1, <2>2 DEF CountInv
<1>7. CASE Finish(w, "n1n2wait") /\ successCounter' = successCounter + 1 /\ UNCHANGED failCounter
  <2>1. Goto(w, "n1n2wait", "idle") /\ UNCHANGED queue
    BY <1>7 DEF Finish
  <2>2. Cardinality(Working') = Cardinality(Working) - 1
    BY <2>1, WorkingMoves DEF Failing
  <2> QED
    BY <1>1, <1>7, <2>1, <2>2, CountTypes, Cardinalities DEF CountInv
<1>8. CASE SaveSession(w) \/ QueryUdm(w) \/ AwaitPfcp(w)
  BY <1>3, <1>4, <1>8 DEF SaveSession, QueryUdm, AwaitPfcp, Failing
<1>9. CASE SendPfcp(w) \/ ActivateSession(w) \/ SendN1N2(w) \/ RecordFailure(w)
  BY <1>4, <1>9 DEF SendPfcp, ActivateSession, SendN1N2, RecordFailure, Failing
<1>10. CASE AwaitN1N2(w)
  BY <1>3, <1>7, <1>10 DEF AwaitN1N2, Failing
<1>11. CASE NotifyFailure(w)
  BY <1>4, <1>5, <1>11 DEF NotifyFailure, Failing
<1> QED
  BY <1>2, <1>6, <1>8, <1>9, <1>10, <1>11 DEF WorkerStep

(* The success and failure counts add up with the work in progress, for any *)
(* finite number of requests and workers (service.go:111, 132, 149).        *)
THEOREM EveryRequestIsCounted ==
  ASSUME IsFiniteSet(Req), IsFiniteSet(Worker)
  PROVE  Spec => []EveryRequestCounted
<1>1. Init => CountInv
  <2> SUFFICES ASSUME Init PROVE CountInv
    OBVIOUS
  <2>1. successCounter = 0 /\ failCounter = 0 /\ Len(queue) = 0
    BY DEF Init, SmfInit
  <2>2. Working = {} /\ Answered = {}
    BY DEF Init, SmfInit, SbiInit, Working, Answered
  <2> QED
    BY <2>1, <2>2, FS_EmptySet DEF CountInv
<1>2. IInv({}) /\ CountInv /\ [Next]_vars => CountInv'
  <2> SUFFICES ASSUME IInv({}), CountInv, [Next]_vars PROVE CountInv'
    OBVIOUS
  <2>0. TypeOK /\ TriggerInv
    BY DEF IInv
  <2>1. ASSUME NEW r \in Req, AmfStep(r), UNCHANGED smfVars PROVE CountInv'
    <3>1. UNCHANGED <<successCounter, failCounter, queue, pc>>
      BY <2>1 DEF smfVars, poolVars, counters
    <3>2. \A q \in Req : createCall'[q] \in {"created", "congested"} <=> createCall[q] \in {"created", "congested"}
      BY <2>0, <2>1, AmfAsks
    <3>3. Working' = Working /\ Answered' = Answered
      BY <3>1, <3>2 DEF Working, Answered
    <3> QED
      BY <3>1, <3>3 DEF CountInv
  <2>2. CASE UpfStep
    <3>1. UNCHANGED <<successCounter, failCounter, queue, pc, createCall>>
      BY <2>2 DEF UpfStep, sbiVars, poolVars, counters
    <3> QED
      BY <3>1 DEF CountInv, Working, Answered
  <2>3. CASE UNCHANGED vars
    BY <2>3 DEF vars, sbiVars, smfVars, poolVars, counters, CountInv, Working, Answered
  <2> QED
    BY <2>0, <2>1, <2>2, <2>3, CreateCounts, WorkerCounts DEF Next, SmfStep
<1>3. CountInv => EveryRequestCounted
  BY DEF CountInv, EveryRequestCounted, Working, Answered
<1> QED
  BY <1>1, <1>2, <1>3, Invariance, PTL DEF Spec

-----------------------------------------------------------------------------
(* The lifecycle that readers of the database and of the answers see. *)

(* The phase depends on the answer and the status of the row alone.         *)
LEMMA PhaseStays ==
  ASSUME NEW r \in Req, repo'[r].status = repo[r].status,
         \/ createCall'[r] = createCall[r]
         \/ createCall[r] = "none" /\ createCall'[r] = "sent"
  PROVE  PhaseOf(r)' = PhaseOf(r)
  BY DEF PhaseOf

LEMMA PhaseIs ==
  ASSUME NEW r \in Req
  PROVE  /\ repo[r].status = "CREATING" => PhaseOf(r) = "creating"
         /\ repo[r].status = "ACTIVE" => PhaseOf(r) = "active"
         /\ repo[r].status = "FAILED" => PhaseOf(r) = "failed"
         /\ repo[r].status = "NONE" /\ createCall[r] = "created" => PhaseOf(r) = "accepted"
<1>1. CASE repo[r].status = "CREATING"
  BY <1>1 DEF PhaseOf
<1>2. CASE repo[r].status = "ACTIVE"
  BY <1>2 DEF PhaseOf
<1>3. CASE repo[r].status = "FAILED"
  BY <1>3 DEF PhaseOf
<1>4. CASE repo[r].status = "NONE" /\ createCall[r] = "created"
  BY <1>4 DEF PhaseOf
<1> QED
  BY <1>1, <1>2, <1>3, <1>4

LEMMA NextPhaseIs ==
  ASSUME NEW r \in Req
  PROVE  /\ repo'[r].status = "CREATING" => PhaseOf(r)' = "creating"
         /\ repo'[r].status = "ACTIVE" => PhaseOf(r)' = "active"
         /\ repo'[r].status = "FAILED" => PhaseOf(r)' = "failed"
         /\ repo'[r].status = "NONE" /\ createCall'[r] = "created" => PhaseOf(r)' = "accepted"
<1>1. CASE repo'[r].status = "CREATING"
  BY <1>1 DEF PhaseOf
<1>2. CASE repo'[r].status = "ACTIVE"
  BY <1>2 DEF PhaseOf
<1>3. CASE repo'[r].status = "FAILED"
  BY <1>3 DEF PhaseOf
<1>4. CASE repo'[r].status = "NONE" /\ createCall'[r] = "created"
  BY <1>4 DEF PhaseOf
<1> QED
  BY <1>1, <1>2, <1>3, <1>4

LEMMA PhasesMove ==
  ASSUME NEW r \in Req, NEW from, PhaseOf(r) \in from, \A q \in Req \ {r} : PhaseOf(q)' = PhaseOf(q)
  PROVE  /\ Phases[r] \in from
         /\ Phases' = [Phases EXCEPT ![r] = PhaseOf(r)']
<1>1. \A q \in Req : Phases[q] = PhaseOf(q) /\ Phases'[q] = PhaseOf(q)'
  BY DEF Phases
<1>2. Phases' = [q \in Req |-> Phases'[q]] /\ Phases = [q \in Req |-> Phases[q]]
  BY DEF Phases
<1> HIDE DEF Phases
<1> QED
  BY <1>1, <1>2

LEMMA PhasesStay ==
  ASSUME \A q \in Req : PhaseOf(q)' = PhaseOf(q)
  PROVE  Phases' = Phases
  BY DEF Phases

(* A step that changes the phase of one session alone, by one of the ways   *)
(* there are, is a step of the lifecycle.                                   *)
LEMMA LifecycleMove ==
  ASSUME NEW r \in Req, \A q \in Req \ {r} : PhaseOf(q)' = PhaseOf(q), installed' = installed,
         \/ PhaseOf(r)' = PhaseOf(r)
         \/ PhaseOf(r) = "absent" /\ PhaseOf(r)' \in {"rejected", "accepted"}
         \/ PhaseOf(r) = "accepted" /\ PhaseOf(r)' = "creating"
         \/ PhaseOf(r) = "creating" /\ PhaseOf(r)' = "active" /\ r \in installed
         \/ PhaseOf(r) \in {"creating", "active"} /\ PhaseOf(r)' = "failed"
  PROVE  [Lifecycle!LifecycleNext]_<<Phases, installed>>
<1>1. CASE PhaseOf(r)' = PhaseOf(r)
  BY <1>1, PhasesStay
<1>2. CASE PhaseOf(r) = "absent" /\ PhaseOf(r)' \in {"rejected", "accepted"}
  <2>1. PhaseOf(r) \in {"absent"}
    BY <1>2
  <2> QED
    BY <1>2, <2>1, PhasesMove
    DEF Lifecycle!LifecycleNext, Lifecycle!Reject, Lifecycle!Accept, Lifecycle!Become
<1>3. CASE PhaseOf(r) = "accepted" /\ PhaseOf(r)' = "creating"
  <2>1. PhaseOf(r) \in {"accepted"}
    BY <1>3
  <2> QED
    BY <1>3, <2>1, PhasesMove DEF Lifecycle!LifecycleNext, Lifecycle!Create, Lifecycle!Become
<1>4. CASE PhaseOf(r) = "creating" /\ PhaseOf(r)' = "active" /\ r \in installed
  <2>1. PhaseOf(r) \in {"creating"}
    BY <1>4
  <2> QED
    BY <1>4, <2>1, PhasesMove DEF Lifecycle!LifecycleNext, Lifecycle!Activate, Lifecycle!Become
<1>5. CASE PhaseOf(r) \in {"creating", "active"} /\ PhaseOf(r)' = "failed"
  BY <1>5, PhasesMove DEF Lifecycle!LifecycleNext, Lifecycle!Fail, Lifecycle!Become
<1> QED
  BY <1>1, <1>2, <1>3, <1>4, <1>5

LEMMA CreateIsLifecycle ==
  ASSUME IInv({}), NEW r \in Req, CreateSMContext(r)
  PROVE  [Lifecycle!LifecycleNext]_<<Phases, installed>>
<1>1. /\ createCall[r] = "sent" /\ createCall'[r] \in {"created", "congested"}
      /\ \A q \in Req \ {r} : createCall'[q] = createCall[q]
      /\ UNCHANGED <<repo, installed>>
  BY CountTypes DEF IInv, CreateSMContext, CreateAccepted, CreateShed, CreateHandedOver, AnswerCreate, n4Vars
<1>2. repo[r].status = "NONE"
  BY <1>1 DEF IInv, PlaneInv, PlaneOK, Accepted, Untouched, NoRow
<1>3. PhaseOf(r) = "absent" /\ PhaseOf(r)' \in {"rejected", "accepted"}
  BY <1>1, <1>2 DEF PhaseOf
<1>4. \A q \in Req \ {r} : PhaseOf(q)' = PhaseOf(q)
  BY <1>1, PhaseStays
<1> QED
  BY <1>1, <1>3, <1>4, LifecycleMove

LEMMA WorkerIsLifecycle ==
  ASSUME IInv({}), NEW w \in Worker, WorkerStep(w), pc[w] # "idle"
  PROVE  [Lifecycle!LifecycleNext]_<<Phases, installed>>
<1>0. PICK r \in Req : r = job[w]
  BY DEF IInv, JobInv, TypeOK, SmfTypeOK
<1>1. /\ repo \in [Req -> [status : Status, ip : BOOLEAN, reason : Reason]]
      /\ StepOK(w) /\ PlaneOK(r) /\ createCall[r] = "created"
  BY <1>0, SmfAssumption
  DEF IInv, TypeOK, SmfTypeOK, JobInv, StepInv, PlaneInv, OneWorkerPerSession, Open, Held, Accepted
<1>2. /\ UNCHANGED <<createCall, installed>>
      /\ \A q \in Req \ {r} : repo'[q] = repo[q]
  BY <1>0, WorkerFrame
<1>3. \A q \in Req \ {r} : PhaseOf(q)' = PhaseOf(q)
  BY <1>2, PhaseStays
<1>4. CASE repo'[r].status = repo[r].status
  <2>1. PhaseOf(r)' = PhaseOf(r)
    BY <1>2, <1>4, PhaseStays
  <2> QED
    BY <1>2, <1>3, <2>1, LifecycleMove
<1>5. CASE repo'[r].status # repo[r].status
  <2>1. CASE SaveSession(w)
    <3>1. repo[r].status = "NONE"
      <4>1. pc[w] = "save"
        BY <2>1 DEF SaveSession, Advance, ReturnError, FailWith, Goto
      <4> QED  BY <1>0, <1>1, <4>1 DEF StepOK, Untouched, NoRow
    <3>2. repo'[r].status = "CREATING"
      BY <1>0, <1>1, <1>5, <2>1 DEF SaveSession, Inserted, NoRow
    <3>3. PhaseOf(r) = "accepted" /\ PhaseOf(r)' = "creating"
      BY <1>1, <3>1, <3>2, PhaseIs, NextPhaseIs
    <3> QED
      BY <1>2, <1>3, <3>3, LifecycleMove
  <2>2. CASE ActivateSession(w)
    <3>1. pc[w] = "activate"
      BY <2>2 DEF ActivateSession, Advance, Goto
    <3>2. repo[r].status = "CREATING" /\ outcome[r] = "ok" /\ r \in installed
      BY <1>0, <1>1, <3>1 DEF StepOK, PlaneOK, AfterN4, CreatingRow, NoRow
    <3>3. repo'[r].status = "ACTIVE"
      BY <1>0, <1>1, <1>5, <2>2 DEF ActivateSession
    <3>4. PhaseOf(r) = "creating" /\ PhaseOf(r)' = "active"
      BY <3>2, <3>3, PhaseIs, NextPhaseIs
    <3> QED
      BY <1>2, <1>3, <3>2, <3>4, LifecycleMove
  <2>3. CASE RecordFailure(w)
    <3>1. repo'[r].status = "FAILED" /\ repo[r].status # "NONE"
      BY <1>0, <1>1, <1>5, <2>3 DEF RecordFailure
    <3>2. repo[r].status \in {"CREATING", "ACTIVE"}
      BY <1>1, <1>5, <3>1 DEF Status
    <3>3. PhaseOf(r) \in {"creating", "active"} /\ PhaseOf(r)' = "failed"
      BY <3>1, <3>2, PhaseIs, NextPhaseIs
    <3> QED
      BY <1>2, <1>3, <3>3, LifecycleMove
  <2>4. ~(SaveSession(w) \/ ActivateSession(w) \/ RecordFailure(w)) => repo' = repo
    BY DEF WorkerStep, Dequeue, QueryUdm, SendPfcp, AwaitPfcp, SendN1N2, AwaitN1N2, NotifyFailure, AwaitNotify
  <2> QED
    BY <1>5, <2>1, <2>2, <2>3, <2>4
<1> QED
  BY <1>4, <1>5

(* What readers of the database and of the answers see of a session is the  *)
(* lifecycle: no session comes back from failed, and the UPF has what is    *)
(* shown as active (service.go:188-242).                                    *)
THEOREM KeepsLifecycle == Spec => ImplementsLifecycle
<1>1. Init => Lifecycle!LifecycleInit
  BY DEF Init, SmfInit, SbiInit, N4!N4Init, NoRow, Lifecycle!LifecycleInit, Phases, PhaseOf
<1>2. IInv({}) /\ [Next]_vars => [Lifecycle!LifecycleNext]_<<Phases, installed>>
  <2> SUFFICES ASSUME IInv({}), [Next]_vars PROVE [Lifecycle!LifecycleNext]_<<Phases, installed>>
    OBVIOUS
  <2>1. ASSUME NEW r \in Req, AmfStep(r), UNCHANGED smfVars
        PROVE  UNCHANGED <<Phases, installed>>
    <3>1. UNCHANGED <<repo, installed>>
      BY <2>1 DEF smfVars, n4Vars
    <3>2. \A q \in Req : PhaseOf(q)' = PhaseOf(q)
      BY <2>1, <3>1, AmfAsks, PhaseStays DEF IInv
    <3> QED
      BY <3>1, <3>2, PhasesStay
  <2>2. ASSUME NEW w \in Worker, WorkerStep(w)
        PROVE  [Lifecycle!LifecycleNext]_<<Phases, installed>>
    <3>1. CASE Dequeue(w)
      <4>1. UNCHANGED <<repo, installed, createCall>>
        BY <3>1 DEF Dequeue, sbiVars, n4Vars
      <4> QED
        BY <4>1, PhaseStays, PhasesStay
    <3>2. CASE ~Dequeue(w)
      <4>1. pc[w] # "idle"
        BY <2>2, <3>2
        DEF WorkerStep, SaveSession, QueryUdm, SendPfcp, AwaitPfcp, ActivateSession, SendN1N2,
            AwaitN1N2, RecordFailure, NotifyFailure, AwaitNotify, Advance, ReturnError, FailWith, Finish, Goto
      <4> QED
        BY <2>2, <4>1, WorkerIsLifecycle
    <3> QED
      BY <3>1, <3>2
  <2>3. CASE UpfStep
    <3>1. PICK r \in Req : N4!Install(r) /\ UNCHANGED <<createCall, repo>>
      BY <2>3 DEF UpfStep, sbiVars
    <3>2. Phases' = Phases
      BY <3>1, PhaseStays, PhasesStay
    <3>3. repo[r].status \in {"CREATING", "ACTIVE", "FAILED"}
      BY <3>1 DEF N4!Install, IInv, PlaneInv, PlaneOK, TypeOK, SmfTypeOK, Status
    <3>4. Phases[r] \in {"creating", "active", "failed"}
      BY <3>3, PhaseIs DEF Phases
    <3> QED
      BY <3>1, <3>2, <3>4 DEF N4!Install, Lifecycle!LifecycleNext, Lifecycle!Install
  <2>4. CASE UNCHANGED vars
    BY <2>4, PhaseStays, PhasesStay DEF vars, sbiVars, smfVars, n4Vars
  <2> QED
    BY <2>1, <2>2, <2>3, <2>4, CreateIsLifecycle DEF Next, SmfStep
<1> QED
  BY <1>1, <1>2, Invariance, PTL DEF Spec, ImplementsLifecycle, Lifecycle!LifecycleSpec
=============================================================================
