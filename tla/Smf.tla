--------------------------------- MODULE Smf ---------------------------------
(***************************************************************************)
(* The SMF (internal/smf): the CreateSMContext handler, the job queue, the  *)
(* worker pool with the establishment pipeline and its failure path, and    *)
(* the session repository.  The N4 layer is used through its promise,       *)
(* N4Transaction; N4Session shows that the PFCP client keeps it.            *)
(*                                                                         *)
(* The repository is PostgreSQL or a map.  With PostgreSQL (DbMayFail) any  *)
(* statement can fail, and one that reports an error may have been applied. *)
(***************************************************************************)
EXTENDS Udm, Naturals, Sequences

CONSTANTS
  Worker,      \* the goroutines of the pool (MAX_WORKERS)
  QueueSize,   \* capacity of jobQueue (QUEUE_SIZE)
  DbMayFail,   \* TRUE with PostgreSQL, FALSE with the in-memory repository
  NoJob        \* a worker waiting for a job

ASSUME SmfAssumption ==
  /\ QueueSize \in Nat
  /\ DbMayFail \in BOOLEAN
  /\ NoJob \notin Req

VARIABLES
  outcome, installed,   \* the N4 layer
  queue,           \* jobQueue: accepted jobs no worker has yet
  pc,              \* the next step of each worker
  job,             \* its job
  cause,           \* the failure reason it has derived from the error
  repo,            \* the row of each session
  successCounter, failCounter

n4Vars == <<outcome, installed>>
poolVars == <<queue, pc, job, cause>>
counters == <<successCounter, failCounter>>
smfVars == <<n4Vars, poolVars, repo, counters>>

N4 == INSTANCE N4Transaction WITH Call <- Req

WorkerState == {"idle", "save", "udm", "n4", "n4wait", "activate",
                "n1n2", "n1n2wait", "fail", "notify", "notifywait"}
Reason == {"none", "DB_ERROR", "E2E_ESTABLISHMENT_FAILED", "PFCP_TIMEOUT", "N1N2_FAILED"}
Status == {"NONE", "CREATING", "ACTIVE", "FAILED"}
NoRow == [status |-> "NONE", ip |-> FALSE, reason |-> "none"]

SmfTypeOK ==
  /\ N4!N4TypeOK
  /\ queue \in Seq(Req)
  /\ pc \in [Worker -> WorkerState]
  /\ job \in [Worker -> Req \cup {NoJob}]
  /\ cause \in [Worker -> Reason]
  /\ repo \in [Req -> [status : Status, ip : BOOLEAN, reason : Reason]]
  /\ successCounter \in Nat
  /\ failCounter \in Nat

SmfInit ==
  /\ N4!N4Init
  /\ queue = <<>>
  /\ pc = [w \in Worker |-> "idle"]
  /\ job = [w \in Worker |-> NoJob]
  /\ cause = [w \in Worker |-> "none"]
  /\ repo = [r \in Req |-> NoRow]
  /\ successCounter = 0
  /\ failCounter = 0

-----------------------------------------------------------------------------
(* CreateSMContext: the handler takes a ref and an address and offers the   *)
(* job to the queue without waiting; it answers before any other step.      *)

CreateAccepted(r) ==
  /\ AnswerCreate(r, "created")
  /\ Len(queue) < QueueSize
  /\ queue' = Append(queue, r)
  /\ UNCHANGED <<transfer, pc, job, cause, n4Vars, repo, counters>>

(* A send to a channel on which a worker waits gives it the job directly:   *)
(* the only way into a queue without a buffer (QUEUE_SIZE=0).               *)
CreateHandedOver(r, w) ==
  /\ AnswerCreate(r, "created")
  /\ queue = <<>>
  /\ pc[w] = "idle"
  /\ pc' = [pc EXCEPT ![w] = "save"]
  /\ job' = [job EXCEPT ![w] = r]
  /\ UNCHANGED <<transfer, queue, cause, n4Vars, repo, counters>>

(* Mutant: the 503 is not counted. *)
CreateShedUncounted(r) ==
  /\ AnswerCreate(r, "congested")
  /\ Len(queue) = QueueSize
  /\ UNCHANGED <<transfer, poolVars, n4Vars, repo, counters>>

(* Load shedding: 503 and nothing kept but the count. *)
CreateShed(r) ==
  /\ AnswerCreate(r, "congested")
  /\ Len(queue) = QueueSize
  /\ failCounter' = failCounter + 1
  /\ UNCHANGED <<transfer, poolVars, n4Vars, repo, successCounter>>

CreateSMContext(r) ==
  CreateAccepted(r) \/ CreateShed(r) \/ \E w \in Worker : CreateHandedOver(r, w)

-----------------------------------------------------------------------------
(* The worker.  Each action is what happens between two calls that leave    *)
(* the goroutine: to the database, UDM, UPF or AMF.                         *)

Goto(w, from, to) == pc[w] = from /\ pc' = [pc EXCEPT ![w] = to]

(* Mutant: the errors of the database are looked for first. *)
ClassifyDatabaseFirst(words) ==
  CASE words \cap {"database", "db", "scan"} # {} -> "DB_ERROR"
    [] words \cap {"database", "db", "scan"} = {} /\ "PFCP" \in words -> "PFCP_TIMEOUT"
    [] words \cap {"database", "db", "scan", "PFCP"} = {}
         /\ words \cap {"N1N2", "AMF responded"} # {} -> "N1N2_FAILED"
    [] OTHER -> "E2E_ESTABLISHMENT_FAILED"

(* The reason the worker derives from the words in the text of an error; in *)
(* the text of one error there may be words of several reasons.             *)
Classify(words) ==
  IF "PFCP" \in words THEN "PFCP_TIMEOUT"
  ELSE IF words \cap {"N1N2", "AMF responded"} # {} THEN "N1N2_FAILED"
  ELSE IF words \cap {"database", "db", "scan"} # {} THEN "DB_ERROR"
  ELSE "E2E_ESTABLISHMENT_FAILED"

(* The worker's half of a failure. *)
FailWith(w, from, reason) ==
  /\ Goto(w, from, "fail")
  /\ cause' = [cause EXCEPT ![w] = reason]
  /\ failCounter' = failCounter + 1
  /\ UNCHANGED <<queue, job, successCounter>>

(* The pipeline returns an error.  Its text is a prefix of its own and then *)
(* that of the cause, which may be a timeout anywhere and has addresses of  *)
(* the network in it (`[2001:db8::5]:8080').                                *)
ReturnError(w, from, prefix) ==
  \E inner \in SUBSET {"timeout", "db"} : FailWith(w, from, Classify({prefix} \cup inner))

(* The worker is done with its job and goes back to the queue. *)
Finish(w, from) ==
  /\ Goto(w, from, "idle")
  /\ job' = [job EXCEPT ![w] = NoJob]
  /\ cause' = [cause EXCEPT ![w] = "none"]
  /\ UNCHANGED queue

Advance(w, from, to) ==
  /\ Goto(w, from, to)
  /\ UNCHANGED <<queue, job, cause, counters>>

(* Mutant: a worker looks at the head of the queue without removing it. *)
DequeuePeek(w) ==
  /\ Goto(w, "idle", "save")
  /\ queue # <<>>
  /\ job' = [job EXCEPT ![w] = Head(queue)]
  /\ UNCHANGED <<sbiVars, queue, cause, n4Vars, repo, counters>>

(* Mutant: the row is left to the update that makes the session active. *)
DequeueUnsaved(w) ==
  /\ Goto(w, "idle", "udm")
  /\ queue # <<>>
  /\ queue' = Tail(queue)
  /\ job' = [job EXCEPT ![w] = Head(queue)]
  /\ UNCHANGED <<sbiVars, cause, n4Vars, repo, counters>>

Dequeue(w) ==
  /\ Goto(w, "idle", "save")
  /\ queue # <<>>
  /\ queue' = Tail(queue)
  /\ job' = [job EXCEPT ![w] = Head(queue)]
  /\ UNCHANGED <<sbiVars, cause, n4Vars, repo, counters>>

(* Mutant: the row is inserted in the state the old design had. *)
InsertedPending(r) == repo' = [repo EXCEPT ![r] = [NoRow EXCEPT !.status = "PENDING"]]

Inserted(r) == repo' = [repo EXCEPT ![r] = [NoRow EXCEPT !.status = "CREATING"]]

(* Async Step 1. *)
SaveSession(w) ==
  /\ \/ Advance(w, "save", "udm") /\ Inserted(job[w])
     \/ /\ DbMayFail
        /\ ReturnError(w, "save", "database")
        /\ Inserted(job[w]) \/ UNCHANGED repo
  /\ UNCHANGED <<sbiVars, n4Vars>>

(* Async Step 2: the profile matches; or it does not, the subscriber is     *)
(* unknown, or the UDM cannot be reached.                                   *)
QueryUdm(w) ==
  /\ \/ Advance(w, "udm", "n4") /\ Subscribed(job[w])
     \/ ReturnError(w, "udm", "UDM")
  /\ UNCHANGED <<sbiVars, n4Vars, repo>>

(* Step 10a. *)
SendPfcp(w) ==
  /\ Advance(w, "n4", "n4wait")
  /\ N4!Send(job[w])
  /\ UNCHANGED <<sbiVars, repo>>

(* Mutant: the error of the PFCP call is ignored. *)
AwaitPfcpIgnoresError(w) ==
  /\ Advance(w, "n4wait", "activate")
  /\ N4!Accept(job[w]) \/ N4!GiveUp(job[w])
  /\ UNCHANGED <<sbiVars, repo>>

(* Step 10b, or the call returns an error. *)
AwaitPfcp(w) ==
  /\ \/ Advance(w, "n4wait", "activate") /\ N4!Accept(job[w])
     \/ ReturnError(w, "n4wait", "PFCP") /\ N4!GiveUp(job[w])
  /\ UNCHANGED <<sbiVars, repo>>

(* The error of this update is ignored. *)
ActivateSession(w) ==
  /\ Advance(w, "activate", "n1n2")
  /\ \/ repo' = [repo EXCEPT ![job[w]].status = "ACTIVE", ![job[w]].ip = TRUE]
     \/ DbMayFail /\ UNCHANGED repo
  /\ UNCHANGED <<sbiVars, n4Vars>>

(* Step 11. *)
SendN1N2(w) ==
  /\ Advance(w, "n1n2", "n1n2wait")
  /\ SendTransfer(job[w], "ACTIVE")
  /\ UNCHANGED <<createCall, n4Vars, repo>>

(* Mutant: the HTTP client has no timeout. *)
AwaitN1N2NoTimeout(w) ==
  /\ \/ /\ Finish(w, "n1n2wait")
        /\ transfer[job[w]]["ACTIVE"] = "ok"
        /\ successCounter' = successCounter + 1
        /\ UNCHANGED failCounter
     \/ /\ ReturnError(w, "n1n2wait", "AMF responded")
        /\ transfer[job[w]]["ACTIVE"] = "notfound"
  /\ UNCHANGED <<sbiVars, n4Vars, repo>>

(* The AMF answered 200; or something else, or not within five seconds,     *)
(* whatever it has done or will still do with the transfer.                 *)
AwaitN1N2(w) ==
  /\ \/ /\ Finish(w, "n1n2wait")
        /\ transfer[job[w]]["ACTIVE"] = "ok"
        /\ successCounter' = successCounter + 1
        /\ UNCHANGED failCounter
     \/ ReturnError(w, "n1n2wait", "AMF responded") /\ transfer[job[w]]["ACTIVE"] = "notfound"
     \/ ReturnError(w, "n1n2wait", "N1N2")
  /\ UNCHANGED <<sbiVars, n4Vars, repo>>

(* Mutant: UpdateSessionStatus, which keeps no reason. *)
RecordFailureNoReason(w) ==
  LET r == job[w] IN
  /\ Advance(w, "fail", "notify")
  /\ \/ /\ repo[r].status # "NONE"
        /\ repo' = [repo EXCEPT ![r].status = "FAILED"]
     \/ /\ repo[r].status = "NONE" \/ DbMayFail
        /\ UNCHANGED repo
  /\ UNCHANGED <<sbiVars, n4Vars>>

(* Mutant: the AMF is not notified. *)
RecordFailureQuiet(w) ==
  LET r == job[w] IN
  /\ Finish(w, "fail")
  /\ repo[r].status # "NONE"
  /\ repo' = [repo EXCEPT ![r].status = "FAILED", ![r].reason = cause[w]]
  /\ UNCHANGED <<sbiVars, n4Vars, counters>>

(* The error of this update is ignored too; a missing row is none. *)
RecordFailure(w) ==
  LET r == job[w] IN
  /\ Advance(w, "fail", "notify")
  /\ \/ /\ repo[r].status # "NONE"
        /\ repo' = [repo EXCEPT ![r].status = "FAILED", ![r].reason = cause[w]]
     \/ /\ repo[r].status = "NONE" \/ DbMayFail
        /\ UNCHANGED repo
  /\ UNCHANGED <<sbiVars, n4Vars>>

(* NotifyAMFSessionFailure reads the row back; without it nobody is told. *)
NotifyFailure(w) ==
  /\ \/ /\ Advance(w, "notify", "notifywait")
        /\ repo[job[w]].status # "NONE"
        /\ SendTransfer(job[w], "FAILED")
     \/ /\ Finish(w, "notify")
        /\ repo[job[w]].status = "NONE" \/ DbMayFail
        /\ UNCHANGED <<transfer, counters>>
  /\ UNCHANGED <<createCall, n4Vars, repo>>

(* Whatever the AMF answers, or no answer for five seconds. *)
AwaitNotify(w) ==
  /\ Finish(w, "notifywait")
  /\ UNCHANGED <<sbiVars, n4Vars, repo, counters>>

WorkerStep(w) ==
  \/ Dequeue(w)
  \/ SaveSession(w) \/ QueryUdm(w)
  \/ SendPfcp(w) \/ AwaitPfcp(w) \/ ActivateSession(w)
  \/ SendN1N2(w) \/ AwaitN1N2(w)
  \/ RecordFailure(w) \/ NotifyFailure(w) \/ AwaitNotify(w)

(* The UPF handles a request, in time or not. *)
UpfStep == \E r \in Req : N4!Install(r) /\ UNCHANGED <<sbiVars, poolVars, repo, counters>>
=============================================================================
