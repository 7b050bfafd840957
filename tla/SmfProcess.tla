------------------------------ MODULE SmfProcess ------------------------------
(***************************************************************************)
(* The SMF process from its first request to its exit (cmd/smf/main.go):    *)
(* the HTTP server with its handlers, the job queue with its workers, and   *)
(* the orderly stop.  On a signal `main' calls server.Shutdown, which       *)
(* accepts no more connections and waits for the handlers, for at most five *)
(* seconds, and then returns; the deferred calls stop the orchestrator      *)
(* (close the queue, wait for the workers) and close the PFCP client.       *)
(*                                                                         *)
(* A stream of the dashboard is a handler that ends only when its browser   *)
(* goes away.  Handlers that outlive the five seconds go on until the       *)
(* process exits.  A send to the closed queue panics; net/http recovers the *)
(* panic and drops the connection.                                          *)
(***************************************************************************)
EXTENDS Naturals, Sequences

CONSTANTS
  Req,         \* connections that carry a CreateSMContext request
  Stream,      \* connections that carry a dashboard stream
  Worker,      \* the goroutines of the pool
  QueueSize,   \* capacity of jobQueue
  NoJob        \* a worker without a job

ASSUME ProcessAssumption ==
  /\ QueueSize \in Nat \ {0}
  /\ NoJob \notin Req
  /\ Req \cap Stream = {}

Conn == Req \cup Stream

VARIABLES
  main,         \* where `main' is
  timedOut,     \* Shutdown returned because its context expired
  conn,         \* what has become of each connection
  queue,        \* jobQueue
  queueClosed,
  worker,       \* each worker: waiting, busy or exited
  job,
  done,         \* jobs worked off
  pfcpClosed

queueVars == <<queue, queueClosed>>
poolVars == <<worker, job, done>>
vars == <<main, timedOut, conn, queueVars, poolVars, pfcpClosed>>

MainState == {"serving", "shutdown", "stop", "wait", "close", "exited"}
ConnState == {"none", "open", "created", "told", "congested", "refused", "panicked",
              "streaming", "ended"}
Busy == {"open", "created", "congested", "streaming"}

TypeOK ==
  /\ main \in MainState
  /\ timedOut \in BOOLEAN
  /\ conn \in [Conn -> ConnState]
  /\ queue \in Seq(Req)
  /\ queueClosed \in BOOLEAN
  /\ worker \in [Worker -> {"waiting", "busy", "exited"}]
  /\ job \in [Worker -> Req \cup {NoJob}]
  /\ done \in SUBSET Req
  /\ pfcpClosed \in BOOLEAN

Init ==
  /\ main = "serving"
  /\ timedOut = FALSE
  /\ conn = [c \in Conn |-> "none"]
  /\ queue = <<>>
  /\ queueClosed = FALSE
  /\ worker = [w \in Worker |-> "waiting"]
  /\ job = [w \in Worker |-> NoJob]
  /\ done = {}
  /\ pfcpClosed = FALSE

Running == main # "exited"

-----------------------------------------------------------------------------
(* The HTTP server and its handlers. *)

MoveConn(c, from, to) ==
  /\ Running
  /\ conn[c] = from
  /\ conn' = [conn EXCEPT ![c] = to]
  /\ UNCHANGED <<main, timedOut, pfcpClosed>>

Accept(c) ==
  /\ main = "serving"
  /\ MoveConn(c, "none", "open")
  /\ UNCHANGED <<queueVars, poolVars>>

(* The body is malformed or does not arrive. *)
BadRequest(r) == MoveConn(r, "open", "refused") /\ UNCHANGED <<queueVars, poolVars>>

(* EnqueueJob, called by CreateSMContext once the body is read, which may   *)
(* be at any time.                                                          *)
Enqueue(r) ==
  /\ ~queueClosed
  /\ \/ MoveConn(r, "open", "created") /\ Len(queue) < QueueSize /\ queue' = Append(queue, r)
     \/ MoveConn(r, "open", "congested") /\ Len(queue) = QueueSize /\ UNCHANGED queue
  /\ UNCHANGED <<queueClosed, poolVars>>

EnqueuePanics(r) ==
  /\ queueClosed
  /\ MoveConn(r, "open", "panicked")
  /\ UNCHANGED <<queueVars, poolVars>>

OpenStream(s) == MoveConn(s, "open", "streaming") /\ UNCHANGED <<queueVars, poolVars>>

(* The answer is written, or the browser closes its stream. *)
Answer(c) ==
  /\ \/ MoveConn(c, "created", "told")
     \/ MoveConn(c, "congested", "refused")
     \/ MoveConn(c, "streaming", "ended")
  /\ UNCHANGED <<queueVars, poolVars>>

HandlerStep ==
  \/ \E r \in Req : BadRequest(r) \/ Enqueue(r) \/ EnqueuePanics(r)
  \/ \E s \in Stream : OpenStream(s)
  \/ \E c \in Conn : Accept(c) \/ Answer(c)

-----------------------------------------------------------------------------
(* The workers: `for job := range jobQueue'. *)

Take(w) ==
  /\ Running
  /\ worker[w] = "waiting"
  /\ queue # <<>>
  /\ worker' = [worker EXCEPT ![w] = "busy"]
  /\ job' = [job EXCEPT ![w] = Head(queue)]
  /\ queue' = Tail(queue)
  /\ UNCHANGED <<main, timedOut, conn, queueClosed, done, pfcpClosed>>

Finish(w) ==
  /\ Running
  /\ worker[w] = "busy"
  /\ worker' = [worker EXCEPT ![w] = "waiting"]
  /\ done' = done \cup {job[w]}
  /\ job' = [job EXCEPT ![w] = NoJob]
  /\ UNCHANGED <<main, timedOut, conn, queueVars, pfcpClosed>>

(* Mutant: the worker ends as soon as the queue is closed. *)
EndEarly(w) ==
  /\ Running
  /\ worker[w] = "waiting"
  /\ queueClosed
  /\ worker' = [worker EXCEPT ![w] = "exited"]
  /\ UNCHANGED <<main, timedOut, conn, queueVars, job, done, pfcpClosed>>

(* The queue is closed and empty. *)
End(w) ==
  /\ Running
  /\ worker[w] = "waiting"
  /\ queueClosed /\ queue = <<>>
  /\ worker' = [worker EXCEPT ![w] = "exited"]
  /\ UNCHANGED <<main, timedOut, conn, queueVars, job, done, pfcpClosed>>

WorkerStep(w) == Take(w) \/ Finish(w) \/ End(w)

-----------------------------------------------------------------------------
(* main, from the signal on. *)

MoveMain(from, to) ==
  /\ main = from
  /\ main' = to
  /\ UNCHANGED <<conn, queue, poolVars>>

Signal ==
  /\ MoveMain("serving", "shutdown")
  /\ UNCHANGED <<timedOut, queueClosed, pfcpClosed>>

(* Mutant: the server is stopped without waiting for its handlers. *)
CloseServer ==
  /\ MoveMain("shutdown", "stop")
  /\ UNCHANGED <<timedOut, queueClosed, pfcpClosed>>

(* Shutdown returns: no handler runs any more, or the five seconds are over. *)
Shutdown ==
  /\ MoveMain("shutdown", "stop")
  /\ \/ (\A c \in Conn : conn[c] \notin Busy) /\ UNCHANGED timedOut
     \/ timedOut' = TRUE
  /\ UNCHANGED <<queueClosed, pfcpClosed>>

(* Mutant: the deferred calls run in the order in which they are written. *)
CloseQueueAfterPfcp ==
  /\ MoveMain("stop", "wait")
  /\ queueClosed' = TRUE
  /\ pfcpClosed' = TRUE
  /\ UNCHANGED timedOut

(* Mutant: Stop closes stopChan only, which the workers do not look at. *)
LeaveQueueOpen ==
  /\ MoveMain("stop", "wait")
  /\ UNCHANGED <<timedOut, queueClosed, pfcpClosed>>

(* The deferred Stop closes the queue, then waits for the pool. *)
CloseQueue ==
  /\ MoveMain("stop", "wait")
  /\ queueClosed' = TRUE
  /\ UNCHANGED <<timedOut, pfcpClosed>>

AwaitWorkers ==
  /\ MoveMain("wait", "close")
  /\ \A w \in Worker : worker[w] = "exited"
  /\ UNCHANGED <<timedOut, queueClosed, pfcpClosed>>

(* The deferred Close, and the end of the process. *)
ClosePfcp ==
  /\ MoveMain("close", "exited")
  /\ pfcpClosed' = TRUE
  /\ UNCHANGED <<timedOut, queueClosed>>

MainStep == Shutdown \/ CloseQueue \/ AwaitWorkers \/ ClosePfcp

Next == HandlerStep \/ (\E w \in Worker : WorkerStep(w)) \/ Signal \/ MainStep

Spec == Init /\ [][Next]_vars

(* `main' and the workers run, and every call of a worker returns or times  *)
(* out (Establishment); nothing is assumed of the handlers, whose requests  *)
(* and browsers may keep them.                                              *)
Fairness == WF_vars(MainStep) /\ \A w \in Worker : WF_vars(WorkerStep(w))

FairSpec == Spec /\ Fairness

-----------------------------------------------------------------------------
(* Every request that was accepted, its 201 written or not, is worked off   *)
(* before the process exits: an orderly stop leaves no job in the queue     *)
(* (service.go:87-92, 120; main.go:51).                                     *)
AcceptedIsDone ==
  main = "exited" => \A r \in Req : conn[r] \in {"created", "told"} => r \in done

(* A worker that has a job has an open PFCP client to do it with: the       *)
(* deferred calls run in reverse order (main.go:47, 51).                    *)
WorkersHavePfcp == \A w \in Worker : job[w] # NoJob => ~pfcpClosed

(* No request is dropped by a send to the closed queue, unless the five     *)
(* seconds of Shutdown ran out (main.go:91-95, service.go:89, 108).         *)
PanicNeedsTimeout == (\E r \in Req : conn[r] = "panicked") => timedOut

(* The process ends, whatever its clients do (main.go:91).                  *)
SignalEndsProcess == main = "shutdown" ~> main = "exited"
=============================================================================
