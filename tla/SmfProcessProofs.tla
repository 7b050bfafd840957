-------------------------- MODULE SmfProcessProofs --------------------------
(***************************************************************************)
(* Proofs about SmfProcess, for any number of connections and workers, and  *)
(* any capacity of the queue, and about Startup, for any configuration file *)
(* and any environment.                                                     *)
(***************************************************************************)
EXTENDS SmfProcess, Startup, TLAPS

-----------------------------------------------------------------------------
(* The inductive invariant. *)

Queued(r) == \E i \in 1 .. Len(queue) : queue[i] = r
Held(r) == \E w \in Worker : job[w] = r

(* What `main' has done so far. *)
MainInv ==
  /\ queueClosed <=> main \in {"wait", "close", "exited"}
  /\ pfcpClosed <=> main = "exited"
  /\ main \in {"close", "exited"} => \A w \in Worker : worker[w] = "exited"

(* A worker leaves its loop only when nothing is, or can be, in the queue. *)
PoolInv ==
  \A w \in Worker :
    /\ job[w] # NoJob <=> worker[w] = "busy"
    /\ worker[w] = "exited" => queueClosed /\ queue = <<>>

(* An accepted job is somewhere. *)
JobsKept ==
  \A r \in Req : conn[r] \in {"created", "told"} => Queued(r) \/ Held(r) \/ r \in done

(* After a Shutdown that was not cut short there is no handler. *)
HandlersGone ==
  main \notin {"serving", "shutdown"} /\ ~timedOut =>
    \A c \in Conn : conn[c] \notin Busy \cup {"panicked"}

NoPanicYet == ~queueClosed => \A c \in Conn : conn[c] # "panicked"

PInv == TypeOK /\ MainInv /\ PoolInv /\ JobsKept /\ HandlersGone /\ NoPanicYet

-----------------------------------------------------------------------------
(* Every variable keeps its type. *)
LEMMA TypeStep ==
  ASSUME TypeOK, PoolInv, [Next]_vars
  PROVE  TypeOK'
<1> USE ProcessAssumption DEF TypeOK, MainState, ConnState, Conn
<1>1. ASSUME NEW r \in Req, BadRequest(r) \/ Enqueue(r) \/ EnqueuePanics(r)
      PROVE  TypeOK'
  <2>1. CASE BadRequest(r) \/ EnqueuePanics(r)
    BY <2>1 DEF BadRequest, EnqueuePanics, MoveConn, queueVars, poolVars
  <2>2. CASE Enqueue(r)
    <3>1. queue' \in Seq(Req)
      BY <2>2 DEF Enqueue
    <3> QED
      BY <2>2, <3>1 DEF Enqueue, MoveConn, poolVars
  <2> QED
    BY <1>1, <2>1, <2>2
<1>2. ASSUME NEW s \in Stream, OpenStream(s)
      PROVE  TypeOK'
  BY <1>2 DEF OpenStream, MoveConn, queueVars, poolVars
<1>3. ASSUME NEW c \in Conn, Accept(c) \/ Answer(c)
      PROVE  TypeOK'
  BY <1>3 DEF Accept, Answer, MoveConn, queueVars, poolVars
<1>4. ASSUME NEW w \in Worker, Take(w)
      PROVE  TypeOK'
  BY <1>4 DEF Take
<1>5. ASSUME NEW w \in Worker, Finish(w)
      PROVE  TypeOK'
  <2>1. job[w] \in Req
    BY <1>5 DEF Finish, PoolInv
  <2> QED
    BY <1>5, <2>1 DEF Finish, queueVars
<1>6. ASSUME NEW w \in Worker, End(w)
      PROVE  TypeOK'
  BY <1>6 DEF End, queueVars
<1>7. CASE Signal \/ MainStep
  BY <1>7 DEF Signal, MainStep, Shutdown, CloseQueue, AwaitWorkers, ClosePfcp, MoveMain, poolVars
<1>8. CASE UNCHANGED vars
  BY <1>8 DEF vars, queueVars, poolVars
<1> QED
  BY <1>1, <1>2, <1>3, <1>4, <1>5, <1>6, <1>7, <1>8 DEF Next, HandlerStep, WorkerStep

(* Only `main' closes anything, and a worker that ended stays so. *)
LEMMA MainStepInv ==
  ASSUME TypeOK, MainInv, [Next]_vars
  PROVE  MainInv'
<1> USE DEF MainInv, TypeOK, MainState
<1>1. CASE HandlerStep
  BY <1>1 DEF HandlerStep, BadRequest, Enqueue, EnqueuePanics, OpenStream, Accept, Answer,
              MoveConn, queueVars, poolVars
<1>2. ASSUME NEW w \in Worker, WorkerStep(w)
      PROVE  MainInv'
  BY <1>2 DEF WorkerStep, Take, Finish, End, Running, queueVars
<1>3. CASE Signal \/ MainStep
  BY <1>3 DEF Signal, MainStep, Shutdown, CloseQueue, AwaitWorkers, ClosePfcp, MoveMain, poolVars
<1>4. CASE UNCHANGED vars
  BY <1>4 DEF vars, queueVars, poolVars
<1> QED
  BY <1>1, <1>2, <1>3, <1>4 DEF Next

(* A worker has a job while it is busy, and ends on a closed, empty queue,  *)
(* which stays closed and empty.                                            *)
LEMMA PoolStepInv ==
  ASSUME TypeOK, MainInv, PoolInv, [Next]_vars
  PROVE  PoolInv'
<1> USE ProcessAssumption DEF PoolInv, TypeOK
<1>1. ASSUME NEW r \in Req, BadRequest(r) \/ Enqueue(r) \/ EnqueuePanics(r)
      PROVE  PoolInv'
  BY <1>1 DEF BadRequest, Enqueue, EnqueuePanics, MoveConn, queueVars, poolVars
<1>2. CASE \E s \in Stream : OpenStream(s)
  BY <1>2 DEF OpenStream, MoveConn, queueVars, poolVars
<1>3. CASE \E c \in Conn : Accept(c) \/ Answer(c)
  BY <1>3 DEF Accept, Answer, MoveConn, queueVars, poolVars
<1>4. ASSUME NEW w \in Worker, Take(w)
      PROVE  PoolInv'
  <2>1. Head(queue) \in Req
    BY <1>4 DEF Take
  <2> QED
    BY <1>4, <2>1 DEF Take
<1>5. ASSUME NEW w \in Worker, Finish(w) \/ End(w)
      PROVE  PoolInv'
  BY <1>5 DEF Finish, End, queueVars
<1>6. CASE Signal \/ MainStep
  BY <1>6 DEF Signal, MainStep, Shutdown, CloseQueue, AwaitWorkers, ClosePfcp, MoveMain,
              MainInv, poolVars
<1>7. CASE UNCHANGED vars
  BY <1>7 DEF vars, queueVars, poolVars
<1> QED
  BY <1>1, <1>2, <1>3, <1>4, <1>5, <1>6, <1>7 DEF Next, HandlerStep, WorkerStep

(* A job moves from the queue to a worker to `done' and is never dropped. *)
LEMMA JobsStepInv ==
  ASSUME TypeOK, PoolInv, JobsKept, [Next]_vars
  PROVE  JobsKept'
<1> USE DEF TypeOK
<1> SUFFICES ASSUME NEW r \in Req, conn'[r] \in {"created", "told"}
             PROVE  Queued(r)' \/ Held(r)' \/ r \in done'
  BY DEF JobsKept
<1>1. Queued(r) \/ Held(r) \/ r \in done \/ conn[r] \notin {"created", "told"}
  BY DEF JobsKept
<1>2. ASSUME UNCHANGED <<queue, job, done>>, conn[r] \in {"created", "told"}
      PROVE  Queued(r)' \/ Held(r)' \/ r \in done'
  BY <1>1, <1>2 DEF Queued, Held
<1>3. ASSUME NEW q \in Req, Enqueue(q)
      PROVE  Queued(r)' \/ Held(r)' \/ r \in done'
  <2>1. CASE queue' = queue
    BY <1>2, <1>3, <2>1 DEF Enqueue, MoveConn, Conn, poolVars
  <2>2. CASE queue' = Append(queue, q)
    <3>1. Len(queue') = Len(queue) + 1 /\ queue'[Len(queue) + 1] = q
      BY <2>2
    <3>2. \A i \in 1 .. Len(queue) : queue'[i] = queue[i]
      BY <2>2
    <3>3. CASE q = r
      BY <3>1, <3>3 DEF Queued
    <3>4. CASE q # r
      <4>1. conn'[r] = conn[r]
        BY <1>3, <3>4 DEF Enqueue, MoveConn, Conn
      <4> QED
        BY <1>1, <1>3, <3>1, <3>2, <4>1 DEF Enqueue, Queued, Held, poolVars
    <3> QED
      BY <3>3, <3>4
  <2> QED
    BY <1>3, <2>1, <2>2 DEF Enqueue
<1>4. ASSUME NEW w \in Worker, Take(w)
      PROVE  Queued(r)' \/ Held(r)' \/ r \in done'
  <2>1. conn[r] \in {"created", "told"} /\ job[w] = NoJob /\ done' = done
    BY <1>4 DEF Take, PoolInv
  <2>2. CASE Queued(r)
    <3>1. PICK i \in 1 .. Len(queue) : queue[i] = r
      BY <2>2 DEF Queued
    <3>2. CASE i = 1
      BY <1>4, <3>1, <3>2 DEF Take, Held
    <3>3. CASE i # 1
      <4>1. i - 1 \in 1 .. Len(queue') /\ queue'[i - 1] = queue[i]
        BY <1>4, <3>3 DEF Take
      <4> QED
        BY <3>1, <4>1 DEF Queued
    <3> QED
      BY <3>2, <3>3
  <2>3. CASE Held(r)
    <3>1. PICK v \in Worker : job[v] = r
      BY <2>3 DEF Held
    <3>2. v # w
      BY <2>1, <3>1, ProcessAssumption
    <3> QED
      BY <1>4, <3>1, <3>2 DEF Take, Held
  <2> QED
    BY <1>1, <2>1, <2>2, <2>3
<1>5. ASSUME NEW w \in Worker, Finish(w)
      PROVE  Queued(r)' \/ Held(r)' \/ r \in done'
  BY <1>1, <1>5 DEF Finish, Queued, Held, queueVars
<1>6. ASSUME NEW w \in Worker, End(w)
      PROVE  Queued(r)' \/ Held(r)' \/ r \in done'
  BY <1>2, <1>6 DEF End, queueVars
<1>7. ASSUME NEW q \in Req, BadRequest(q) \/ EnqueuePanics(q)
      PROVE  Queued(r)' \/ Held(r)' \/ r \in done'
  BY <1>2, <1>7 DEF BadRequest, EnqueuePanics, MoveConn, Conn, queueVars, poolVars
<1>8. CASE \E c \in Conn : Accept(c) \/ Answer(c)
  BY <1>2, <1>8 DEF Accept, Answer, MoveConn, Conn, queueVars, poolVars
<1>9. CASE \E s \in Stream : OpenStream(s)
  BY <1>2, <1>9 DEF OpenStream, MoveConn, Conn, queueVars, poolVars
<1>10. CASE Signal \/ MainStep \/ UNCHANGED vars
  BY <1>2, <1>10 DEF Signal, MainStep, Shutdown, CloseQueue, AwaitWorkers, ClosePfcp,
                     MoveMain, vars, queueVars, poolVars
<1> QED
  BY <1>3, <1>4, <1>5, <1>6, <1>7, <1>8, <1>9, <1>10 DEF Next, HandlerStep, WorkerStep

(* A handler that is gone does not come back, and only a closed queue makes *)
(* one panic.                                                               *)
LEMMA HandlersStepInv ==
  ASSUME TypeOK, MainInv, HandlersGone, NoPanicYet, [Next]_vars
  PROVE  HandlersGone' /\ NoPanicYet'
<1> USE DEF TypeOK, MainInv, MainState, HandlersGone, NoPanicYet, Busy, Conn
<1>1. ASSUME NEW r \in Req, BadRequest(r) \/ Enqueue(r)
      PROVE  HandlersGone' /\ NoPanicYet'
  BY <1>1 DEF BadRequest, Enqueue, MoveConn, queueVars, poolVars
<1>2. ASSUME NEW r \in Req, EnqueuePanics(r)
      PROVE  HandlersGone' /\ NoPanicYet'
  BY <1>2 DEF EnqueuePanics, MoveConn, queueVars
<1>3. ASSUME NEW s \in Stream, OpenStream(s)
      PROVE  HandlersGone' /\ NoPanicYet'
  BY <1>3 DEF OpenStream, MoveConn, queueVars
<1>4. ASSUME NEW c \in Conn, Accept(c) \/ Answer(c)
      PROVE  HandlersGone' /\ NoPanicYet'
  BY <1>4 DEF Accept, Answer, MoveConn, queueVars
<1>5. ASSUME NEW w \in Worker, WorkerStep(w)
      PROVE  HandlersGone' /\ NoPanicYet'
  BY <1>5 DEF WorkerStep, Take, Finish, End, queueVars
<1>6. CASE Shutdown
  BY <1>6 DEF Shutdown, MoveMain
<1>7. CASE Signal \/ CloseQueue \/ AwaitWorkers \/ ClosePfcp
  BY <1>7 DEF Signal, CloseQueue, AwaitWorkers, ClosePfcp, MoveMain
<1>8. CASE UNCHANGED vars
  BY <1>8 DEF vars, queueVars
<1> QED
  BY <1>1, <1>2, <1>3, <1>4, <1>5, <1>6, <1>7, <1>8 DEF Next, HandlerStep, MainStep

(* The invariant holds from the start on. *)
LEMMA Invariance == Spec => []PInv
<1>1. Init => PInv
  <2> SUFFICES ASSUME Init
               PROVE  PInv
    OBVIOUS
  <2>1. TypeOK
    <3>1. queue \in Seq(Req)
      BY DEF Init
    <3> QED
      BY <3>1 DEF Init, TypeOK, MainState, ConnState
  <2>2. MainInv /\ HandlersGone
    BY DEF Init, MainInv, HandlersGone
  <2>3. PoolInv
    BY DEF Init, PoolInv
  <2>4. JobsKept /\ NoPanicYet
    BY DEF Init, JobsKept, NoPanicYet, Conn
  <2> QED
    BY <2>1, <2>2, <2>3, <2>4 DEF PInv
<1>2. PInv /\ [Next]_vars => PInv'
  BY TypeStep, MainStepInv, PoolStepInv, JobsStepInv, HandlersStepInv DEF PInv
<1> QED
  BY <1>1, <1>2, PTL DEF Spec

-----------------------------------------------------------------------------
(* Every variable of the process keeps its type. *)
THEOREM TypeCorrect == Spec => []TypeOK
BY Invariance, PTL DEF PInv

(* An orderly stop of a process that has workers works off every request    *)
(* that was accepted, whatever the capacity of the queue and the number of  *)
(* requests.  Without workers the queue is abandoned.                       *)
THEOREM StopWorksOff ==
  ASSUME Worker # {}
  PROVE  Spec => []AcceptedIsDone
<1>1. PInv => AcceptedIsDone
  <2> SUFFICES ASSUME PInv, main = "exited", NEW r \in Req, conn[r] \in {"created", "told"}
               PROVE  r \in done
    BY DEF AcceptedIsDone
  <2>1. \A w \in Worker : worker[w] = "exited" /\ job[w] = NoJob /\ queue = <<>>
    BY DEF PInv, MainInv, PoolInv
  <2>2. ~Queued(r)
    BY <2>1 DEF Queued
  <2>3. ~Held(r)
    BY <2>1, ProcessAssumption DEF Held
  <2> QED
    BY <2>2, <2>3 DEF PInv, JobsKept
<1> QED
  BY <1>1, Invariance, PTL

(* The PFCP client is closed only when no worker has a job any more. *)
THEOREM PfcpOutlivesWorkers == Spec => []WorkersHavePfcp
<1>1. PInv => WorkersHavePfcp
  BY DEF PInv, MainInv, PoolInv, WorkersHavePfcp
<1> QED
  BY <1>1, Invariance, PTL

(* A handler meets the closed queue only after a Shutdown that ran out of   *)
(* its time.                                                                *)
THEOREM PanicsNeedTimeout == Spec => []PanicNeedsTimeout
<1>1. PInv => PanicNeedsTimeout
  BY DEF PInv, MainInv, HandlersGone, NoPanicYet, PanicNeedsTimeout, Conn
<1> QED
  BY <1>1, Invariance, PTL

-----------------------------------------------------------------------------
(* The start of SMF and UDM. *)

(* A database in the environment is the database of both. *)
LEMMA LoadedDatabase ==
  ASSUME NEW f, NEW e, e["DATABASE_URL"] # "",
         NEW s \in {"smf.databaseUrl", "udm.databaseUrl"}
  PROVE  Load(f, e)[s] = e["DATABASE_URL"]
<1>1. s \in Setting /\ s \notin Numeric /\ VariableOf(s) = "DATABASE_URL"
  BY DEF Setting, Numeric, VariableOf
<1>2. s \in Overrides(e)
  BY <1>1 DEF Overrides
<1> QED
  BY <1>1, <1>2 DEF Load

(* Each part has its place. *)
PartCount(nf) == IF nf = "SMF" THEN 6 ELSE 3

LEMMA Places ==
  ASSUME NEW nf \in NF, stage[nf] \in 0 .. PartCount(nf)
  PROVE  /\ PartCount(nf) = Len(Parts(nf))
         /\ Starting(nf, "config") => stage[nf] = 0
         /\ Starting(nf, "repository") => stage[nf] = 1
         /\ Starting(nf, "server") => stage[nf] = IF nf = "SMF" THEN 5 ELSE 2
         /\ nf = "SMF" /\ Starting(nf, "pfcp") => stage[nf] = 2
         /\ nf = "SMF" /\ Starting(nf, "orchestrator") => stage[nf] = 3
         /\ nf = "SMF" /\ Starting(nf, "hub") => stage[nf] = 4
<1>1. CASE nf = "SMF"
  <2>1. Parts(nf) = <<"config", "repository", "pfcp", "orchestrator", "hub", "server">>
    BY <1>1 DEF Parts
  <2>2. Len(Parts(nf)) = 6 /\ PartCount(nf) = 6
    BY <1>1, <2>1 DEF PartCount
  <2>3. \/ stage[nf] = 0 \/ stage[nf] = 1 \/ stage[nf] = 2 \/ stage[nf] = 3
        \/ stage[nf] = 4 \/ stage[nf] = 5 \/ stage[nf] = 6
    BY <2>2
  <2>4. /\ Parts(nf)[1] = "config" /\ Parts(nf)[2] = "repository" /\ Parts(nf)[3] = "pfcp"
        /\ Parts(nf)[4] = "orchestrator" /\ Parts(nf)[5] = "hub" /\ Parts(nf)[6] = "server"
    BY <2>1
  <2>5. CASE stage[nf] = 0
    <3>1. stage[nf] + 1 = 1
      BY <2>5
    <3>2. \A p : Starting(nf, p) => p = "config"
      BY <3>1, <2>4 DEF Starting
    <3> QED
      BY <1>1, <2>2, <2>5, <3>1, <3>2
  <2>6. CASE stage[nf] = 1
    <3>1. stage[nf] + 1 = 2
      BY <2>6
    <3>2. \A p : Starting(nf, p) => p = "repository"
      BY <3>1, <2>4 DEF Starting
    <3> QED
      BY <1>1, <2>2, <2>6, <3>1, <3>2
  <2>7. CASE stage[nf] = 2
    <3>1. stage[nf] + 1 = 3
      BY <2>7
    <3>2. \A p : Starting(nf, p) => p = "pfcp"
      BY <3>1, <2>4 DEF Starting
    <3> QED
      BY <1>1, <2>2, <2>7, <3>1, <3>2
  <2>8. CASE stage[nf] = 3
    <3>1. stage[nf] + 1 = 4
      BY <2>8
    <3>2. \A p : Starting(nf, p) => p = "orchestrator"
      BY <3>1, <2>4 DEF Starting
    <3> QED
      BY <1>1, <2>2, <2>8, <3>1, <3>2
  <2>9. CASE stage[nf] = 4
    <3>1. stage[nf] + 1 = 5
      BY <2>9
    <3>2. \A p : Starting(nf, p) => p = "hub"
      BY <3>1, <2>4 DEF Starting
    <3> QED
      BY <1>1, <2>2, <2>9, <3>1, <3>2
  <2>10. CASE stage[nf] = 5
    <3>1. stage[nf] + 1 = 6
      BY <2>10
    <3>2. \A p : Starting(nf, p) => p = "server"
      BY <3>1, <2>4 DEF Starting
    <3> QED
      BY <1>1, <2>2, <2>10, <3>1, <3>2
  <2>11. CASE stage[nf] = 6
    <3>1. \A p : ~Starting(nf, p)
      BY <2>2, <2>11 DEF Starting
    <3> QED
      BY <2>2, <3>1
  <2> QED
    BY <2>3, <2>5, <2>6, <2>7, <2>8, <2>9, <2>10, <2>11
<1>2. CASE nf = "UDM"
  <2>1. Parts(nf) = <<"config", "repository", "server">>
    BY <1>2 DEF Parts
  <2>2. Len(Parts(nf)) = 3 /\ PartCount(nf) = 3
    BY <1>2, <2>1 DEF PartCount
  <2>3. stage[nf] = 0 \/ stage[nf] = 1 \/ stage[nf] = 2 \/ stage[nf] = 3
    BY <2>2
  <2>4. Parts(nf)[1] = "config" /\ Parts(nf)[2] = "repository" /\ Parts(nf)[3] = "server"
    BY <2>1
  <2>5. CASE stage[nf] = 0
    <3>1. stage[nf] + 1 = 1
      BY <2>5
    <3>2. \A p : Starting(nf, p) => p = "config"
      BY <3>1, <2>4 DEF Starting
    <3> QED
      BY <1>2, <2>2, <2>5, <3>1, <3>2
  <2>6. CASE stage[nf] = 1
    <3>1. stage[nf] + 1 = 2
      BY <2>6
    <3>2. \A p : Starting(nf, p) => p = "repository"
      BY <3>1, <2>4 DEF Starting
    <3> QED
      BY <1>2, <2>2, <2>6, <3>1, <3>2
  <2>7. CASE stage[nf] = 2
    <3>1. stage[nf] + 1 = 3
      BY <2>7
    <3>2. \A p : Starting(nf, p) => p = "server"
      BY <3>1, <2>4 DEF Starting
    <3> QED
      BY <1>2, <2>2, <2>7, <3>1, <3>2
  <2>8. CASE stage[nf] = 3
    BY <1>2, <2>2, <2>8 DEF Starting
  <2> QED
    BY <2>3, <2>5, <2>6, <2>7, <2>8
<1> QED
  BY <1>1, <1>2 DEF NF

(* How far a process has come says what it has loaded, what it works on and *)
(* what it has open.  Nobody who saw the database up all the time fell back *)
(* to memory without being told to.                                         *)
StageInv(nf) ==
  /\ stage[nf] \in 0 .. PartCount(nf)
  /\ status[nf] \in {"starting", "serving", "exited"}
  /\ status[nf] = "serving" => stage[nf] = PartCount(nf)

LoadedInv(nf) == conf[nf] = IF stage[nf] = 0 THEN DefaultConfig ELSE Load(file, env)

RepoInv(nf) ==
  /\ stage[nf] = 0 => repo[nf] = "none"
  /\ stage[nf] = 1 => repo[nf] \in {"none", "connecting"}
  /\ stage[nf] \notin {0, 1} => repo[nf] \in {"memory", "postgres"}
  /\ pools[nf] = IF repo[nf] \in {"connecting", "postgres"} THEN 1 ELSE 0

NamesNoDatabase(url) == url \in {"memory", "", "word"}

FallbackInv(nf) ==
  repo[nf] = "memory" /\ ~dbWasDown => NamesNoDatabase(DatabaseUrl(nf))

BuiltInv(nf) == StageInv(nf) /\ LoadedInv(nf) /\ RepoInv(nf) /\ FallbackInv(nf)

WorldInv ==
  /\ file \in Files /\ env \in Envs
  /\ {dbUp, dbWasDown, upfKnown} \subseteq BOOLEAN
  /\ ~dbWasDown => dbUp
  /\ DOMAIN stage = NF /\ DOMAIN conf = NF /\ DOMAIN repo = NF
  /\ DOMAIN pools = NF /\ DOMAIN status = NF

StartInv == WorldInv /\ \A nf \in NF : BuiltInv(nf)

(* A step of one process is none of the other's business. *)
LEMMA OthersStay ==
  ASSUME StartInv, NEW nf \in NF, BuiltInv(nf)', UNCHANGED <<inputs, world>>,
         DOMAIN stage' = NF, DOMAIN conf' = NF, DOMAIN repo' = NF,
         DOMAIN pools' = NF, DOMAIN status' = NF,
         \A m \in NF \ {nf} : /\ stage'[m] = stage[m] /\ conf'[m] = conf[m] /\ repo'[m] = repo[m]
                              /\ pools'[m] = pools[m] /\ status'[m] = status[m]
  PROVE  StartInv'
<1>1. WorldInv'
  BY DEF StartInv, WorldInv, inputs, world
<1>2. ASSUME NEW m \in NF \ {nf} PROVE BuiltInv(m)'
  <2>1. BuiltInv(m)
    BY DEF StartInv
  <2> QED
    BY <2>1 DEF BuiltInv, StageInv, LoadedInv, RepoInv, FallbackInv, DatabaseUrl,
                inputs, world
<1> QED
  BY <1>1, <1>2 DEF StartInv

LEMMA StartStepKeeps ==
  ASSUME StartInv, NEW nf \in NF, StartStep(nf)
  PROVE  StartInv'
<1> USE DEF inputs, world, Done, Exit
<1>0. BuiltInv(nf) /\ WorldInv
  BY DEF StartInv
<1>n. /\ (nf = "SMF" /\ PartCount(nf) = 6) \/ (nf = "UDM" /\ PartCount(nf) = 3)
      /\ PartCount(nf) \in Nat /\ 0 .. 3 \subseteq 0 .. PartCount(nf)
      /\ stage[nf] \in Nat
  BY <1>0 DEF PartCount, NF, BuiltInv, StageInv
<1>d. nf \in DOMAIN stage /\ nf \in DOMAIN conf /\ nf \in DOMAIN repo
      /\ nf \in DOMAIN pools /\ nf \in DOMAIN status
  BY <1>0 DEF WorldInv
<1>1. CASE LoadConfig(nf)
  <2>1. stage[nf] = 0
    BY <1>0, <1>1, Places DEF LoadConfig, BuiltInv, StageInv
  <2>2. /\ repo'[nf] = repo[nf] /\ pools'[nf] = pools[nf]
        /\ \/ /\ stage'[nf] = 0 /\ conf'[nf] = conf[nf] /\ status'[nf] = "exited"
           \/ /\ stage'[nf] = 1 /\ conf'[nf] = Load(file, env) /\ status'[nf] = "starting"
    BY <1>d, <1>1, <2>1 DEF LoadConfig, Starting
  <2>3. UNCHANGED <<file, env, dbWasDown>>
    BY <1>1 DEF LoadConfig
  <2>4. BuiltInv(nf)'
    <3>1. StageInv(nf)'
      BY <1>0, <1>n, <2>1, <2>2, <2>3 DEF BuiltInv, StageInv
    <3>2. LoadedInv(nf)'
      BY <1>0, <1>n, <2>1, <2>2, <2>3 DEF BuiltInv, LoadedInv
    <3>3. RepoInv(nf)'
      BY <1>0, <1>n, <2>1, <2>2, <2>3 DEF BuiltInv, RepoInv
    <3>4. FallbackInv(nf)'
      BY <1>0, <1>n, <2>1, <2>2, <2>3 DEF BuiltInv, RepoInv, FallbackInv, DatabaseUrl
    <3> QED
      BY <3>1, <3>2, <3>3, <3>4 DEF BuiltInv
  <2> QED
    BY <1>0, <1>1, <2>4, OthersStay DEF LoadConfig, WorldInv
<1>2. CASE UseMemory(nf)
  <2>1. stage[nf] = 1
    BY <1>0, <1>2, Places DEF UseMemory, BuiltInv, StageInv
  <2>2. /\ conf'[nf] = conf[nf] /\ status'[nf] = status[nf] /\ status[nf] = "starting"
        /\ repo[nf] = "none"
    BY <1>d, <1>2 DEF UseMemory, Starting
  <2>3. /\ stage'[nf] = 2 /\ repo'[nf] = "memory" /\ pools'[nf] = pools[nf]
        /\ NamesNoDatabase(DatabaseUrl(nf))
    <3>1. stage[nf] + 1 = 2
      BY <2>1
    <3>2. stage'[nf] = 2
      BY <1>d, <1>2, <3>1 DEF UseMemory
    <3> QED
      BY <1>d, <1>2, <3>2 DEF UseMemory, NamesNoDatabase
  <2>4. UNCHANGED <<file, env, dbWasDown>>
    BY <1>2 DEF UseMemory
  <2>5. BuiltInv(nf)'
    <3>1. StageInv(nf)'
      BY <1>0, <1>n, <2>1, <2>2, <2>3 DEF BuiltInv, StageInv
    <3>2. LoadedInv(nf)'
      BY <1>0, <2>1, <2>2, <2>3, <2>4 DEF BuiltInv, LoadedInv
    <3>3. RepoInv(nf)'
      BY <1>0, <2>1, <2>2, <2>3 DEF BuiltInv, RepoInv
    <3>4. FallbackInv(nf)'
      BY <2>2, <2>3, <2>4 DEF FallbackInv, DatabaseUrl
    <3> QED
      BY <3>1, <3>2, <3>3, <3>4 DEF BuiltInv
  <2> QED
    BY <1>0, <1>2, <2>5, OthersStay DEF UseMemory, WorldInv
<1>3. CASE OpenPool(nf)
  <2>1. stage[nf] = 1
    BY <1>0, <1>3, Places DEF OpenPool, BuiltInv, StageInv
  <2>2. /\ conf'[nf] = conf[nf] /\ status'[nf] = status[nf] /\ status[nf] = "starting"
        /\ repo[nf] = "none" /\ pools[nf] = 0
    BY <1>0, <1>d, <1>3, <2>1 DEF OpenPool, Starting, BuiltInv, RepoInv
  <2>3. \/ /\ stage'[nf] = 2 /\ repo'[nf] = "memory" /\ pools'[nf] = 0
           /\ NamesNoDatabase(DatabaseUrl(nf))
        \/ stage'[nf] = 1 /\ repo'[nf] = "connecting" /\ pools'[nf] = 1
    <3>1. CASE DatabaseUrl(nf) = "word"
      BY <1>d, <1>3, <2>1, <2>2, <3>1 DEF OpenPool, NamesNoDatabase
    <3>2. CASE DatabaseUrl(nf) # "word"
      <4>1. pools[nf] + 1 = 1
        BY <2>2
      <4> QED
        BY <1>d, <1>3, <2>1, <3>2, <4>1 DEF OpenPool
    <3> QED
      BY <3>1, <3>2
  <2>4. UNCHANGED <<file, env, dbWasDown>>
    BY <1>3 DEF OpenPool
  <2>5. BuiltInv(nf)'
    <3>1. StageInv(nf)'
      BY <1>0, <1>n, <2>1, <2>2, <2>3 DEF BuiltInv, StageInv
    <3>2. LoadedInv(nf)'
      BY <1>0, <2>1, <2>2, <2>3, <2>4 DEF BuiltInv, LoadedInv
    <3>3. RepoInv(nf)'
      BY <1>0, <2>1, <2>2, <2>3 DEF BuiltInv, RepoInv
    <3>4. FallbackInv(nf)'
      BY <2>2, <2>3, <2>4 DEF FallbackInv, DatabaseUrl
    <3> QED
      BY <3>1, <3>2, <3>3, <3>4 DEF BuiltInv
  <2> QED
    BY <1>0, <1>3, <2>5, OthersStay DEF OpenPool, WorldInv
<1>4. CASE Ping(nf)
  <2>0. repo[nf] = "connecting"
    BY <1>4 DEF Ping
  <2>1. stage[nf] = 1 /\ pools[nf] = 1
    BY <1>0, <1>n, <2>0 DEF BuiltInv, RepoInv
  <2>2. /\ conf'[nf] = conf[nf] /\ status'[nf] = status[nf] /\ stage'[nf] = 2
        /\ \/ repo'[nf] = "postgres" /\ pools'[nf] = 1
           \/ repo'[nf] = "memory" /\ pools'[nf] = 0 /\ dbWasDown
    BY <1>0, <1>d, <1>4, <2>1 DEF Ping, WorldInv
  <2>3. UNCHANGED <<file, env, dbWasDown>>
    BY <1>4 DEF Ping
  <2>4. BuiltInv(nf)'
    <3>1. StageInv(nf)'
      BY <1>0, <1>n, <2>0, <2>1, <2>2, <2>3 DEF BuiltInv, StageInv
    <3>2. LoadedInv(nf)'
      BY <1>0, <1>n, <2>0, <2>1, <2>2, <2>3 DEF BuiltInv, LoadedInv
    <3>3. RepoInv(nf)'
      BY <1>0, <1>n, <2>0, <2>1, <2>2, <2>3 DEF BuiltInv, RepoInv
    <3>4. FallbackInv(nf)'
      BY <1>0, <1>n, <2>0, <2>1, <2>2, <2>3 DEF BuiltInv, RepoInv, FallbackInv, DatabaseUrl
    <3> QED
      BY <3>1, <3>2, <3>3, <3>4 DEF BuiltInv
  <2> QED
    BY <1>0, <1>4, <2>4, OthersStay DEF Ping, WorldInv
<1>5. CASE nf = "SMF" /\ (NewPFCPClient \/ InitOrchestrator \/ InitDashboardHub)
  <2>1. /\ NewPFCPClient => stage[nf] = 2
        /\ InitOrchestrator => stage[nf] = 3
        /\ InitDashboardHub => stage[nf] = 4
    BY <1>0, <1>5, Places DEF NewPFCPClient, InitOrchestrator, InitDashboardHub, BuiltInv, StageInv
  <2>2. /\ conf'[nf] = conf[nf] /\ repo'[nf] = repo[nf] /\ pools'[nf] = pools[nf]
        /\ stage[nf] \in {2, 3, 4}
        /\ \/ stage'[nf] = stage[nf] /\ status'[nf] = "exited"
           \/ stage'[nf] = stage[nf] + 1 /\ status'[nf] = "starting"
    BY <1>d, <1>5, <2>1 DEF NewPFCPClient, InitOrchestrator, InitDashboardHub, Starting
  <2>3. UNCHANGED <<file, env, dbWasDown>>
    BY <1>5 DEF NewPFCPClient, InitOrchestrator, InitDashboardHub
  <2>4. BuiltInv(nf)'
    <3>1. StageInv(nf)'
      BY <1>0, <1>n, <1>5, <2>2 DEF BuiltInv, StageInv
    <3>2. LoadedInv(nf)'
      BY <1>0, <1>5, <2>2, <2>3 DEF BuiltInv, LoadedInv
    <3>3. RepoInv(nf)'
      BY <1>0, <1>5, <2>2 DEF BuiltInv, RepoInv
    <3>4. FallbackInv(nf)'
      BY <1>0, <2>2, <2>3 DEF BuiltInv, FallbackInv, DatabaseUrl
    <3> QED
      BY <3>1, <3>2, <3>3, <3>4 DEF BuiltInv
  <2> QED
    BY <1>0, <1>5, <2>4, OthersStay DEF NewPFCPClient, InitOrchestrator, InitDashboardHub, WorldInv
<1>6. CASE ListenAndServe(nf)
  <2>1. stage[nf] = IF nf = "SMF" THEN 5 ELSE 2
    BY <1>0, <1>n, <1>6, Places DEF ListenAndServe, BuiltInv, StageInv
  <2>2. /\ conf'[nf] = conf[nf] /\ repo'[nf] = repo[nf] /\ pools'[nf] = pools[nf]
        /\ stage'[nf] = PartCount(nf) /\ status'[nf] \in {"serving", "exited"}
    BY <1>d, <1>n, <1>6, <2>1 DEF ListenAndServe
  <2>3. stage[nf] \notin {0, 1} /\ PartCount(nf) \notin {0, 1}
    BY <1>n, <2>1
  <2>4. UNCHANGED <<file, env, dbWasDown>>
    BY <1>6 DEF ListenAndServe
  <2>5. BuiltInv(nf)'
    <3>1. StageInv(nf)'
      BY <1>0, <1>n, <2>1, <2>2, <2>3, <2>4 DEF BuiltInv, StageInv
    <3>2. LoadedInv(nf)'
      BY <1>0, <1>n, <2>1, <2>2, <2>3, <2>4 DEF BuiltInv, LoadedInv
    <3>3. RepoInv(nf)'
      BY <1>0, <1>n, <2>1, <2>2, <2>3, <2>4 DEF BuiltInv, RepoInv
    <3>4. FallbackInv(nf)'
      BY <1>0, <1>n, <2>1, <2>2, <2>3, <2>4 DEF BuiltInv, RepoInv, FallbackInv, DatabaseUrl
    <3> QED
      BY <3>1, <3>2, <3>3, <3>4 DEF BuiltInv
  <2> QED
    BY <1>0, <1>6, <2>5, OthersStay DEF ListenAndServe, WorldInv
<1> QED
  BY <1>1, <1>2, <1>3, <1>4, <1>5, <1>6 DEF StartStep

(* The invariant of the start. *)
THEOREM StartInvariant == StartSpec => []StartInv
<1>1. StartInit => StartInv
  <2> SUFFICES ASSUME StartInit PROVE StartInv
    OBVIOUS
  <2>1. WorldInv
    BY DEF StartInit, WorldInv
  <2>2. ASSUME NEW nf \in NF PROVE BuiltInv(nf)
    <3>1. 0 \in 0 .. PartCount(nf)
      BY DEF PartCount
    <3> QED
      BY <3>1 DEF StartInit, BuiltInv, StageInv, LoadedInv, RepoInv, FallbackInv
  <2> QED
    BY <2>1, <2>2 DEF StartInv
<1>2. StartInv /\ [StartNext]_startVars => StartInv'
  <2> SUFFICES ASSUME StartInv, [StartNext]_startVars PROVE StartInv'
    OBVIOUS
  <2>1. CASE WorldStep
    <3>1. WorldInv' /\ (dbWasDown => dbWasDown')
      BY <2>1 DEF WorldStep, StartInv, WorldInv, inputs, procs
    <3>2. ASSUME NEW nf \in NF PROVE BuiltInv(nf)'
      BY <2>1, <3>1 DEF WorldStep, StartInv, inputs, procs, BuiltInv, StageInv, LoadedInv, RepoInv, FallbackInv, DatabaseUrl
    <3> QED
      BY <3>1, <3>2 DEF StartInv
  <2>2. CASE \E nf \in NF : StartStep(nf)
    BY <2>2, StartStepKeeps
  <2>3. CASE UNCHANGED startVars
    BY <2>3 DEF startVars, inputs, world, procs, StartInv, WorldInv, BuiltInv, StageInv, LoadedInv, RepoInv, FallbackInv, DatabaseUrl
  <2> QED
    BY <2>1, <2>2, <2>3 DEF StartNext
<1> QED
  BY <1>1, <1>2, PTL DEF StartSpec

(* With DATABASE_URL set to a database that is up, SMF and UDM work on the  *)
(* same database whatever the file says for either (config.go:122, 147,     *)
(* db.go of both).                                                          *)
THEOREM BothUseTheDatabase == StartSpec => []OneDatabase
<1>1. StartInv => OneDatabase
  <2> SUFFICES ASSUME StartInv, \A nf \in NF : status[nf] = "serving",
                      ~NamesNoDatabase(env["DATABASE_URL"]), ~dbWasDown,
                      NEW nf \in NF
               PROVE  repo[nf] = "postgres"
    BY DEF OneDatabase, NF, NamesNoDatabase
  <2>0. BuiltInv(nf) /\ status[nf] = "serving"
    BY DEF StartInv
  <2>1. stage[nf] = 3 \/ stage[nf] = 6
    BY <2>0 DEF BuiltInv, StageInv, PartCount
  <2>2. conf[nf] = Load(file, env) /\ repo[nf] \in {"memory", "postgres"}
    <3>1. stage[nf] \notin {0, 1}
      BY <2>1
    <3> QED
      BY <2>0, <3>1 DEF BuiltInv, LoadedInv, RepoInv
  <2>3. DatabaseUrl(nf) = env["DATABASE_URL"]
    <3>1. env["DATABASE_URL"] # ""
      BY DEF NamesNoDatabase
    <3> QED
      BY <2>2, <3>1, LoadedDatabase DEF DatabaseUrl
  <2> QED
    BY <2>0, <2>2, <2>3 DEF BuiltInv, FallbackInv
<1> QED
  BY <1>1, StartInvariant, PTL

(* A process that fell back to memory keeps no connection pool open, and    *)
(* one that works on PostgreSQL has one, whatever file and environment hold *)
(* and whenever the database answers.                                       *)
THEOREM PoolsAreUsed == StartSpec => []PoolIsUsed
<1>1. StartInv => PoolIsUsed
  BY DEF StartInv, BuiltInv, RepoInv, PoolIsUsed
<1> QED
  BY <1>1, StartInvariant, PTL
=============================================================================
