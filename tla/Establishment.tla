---------------------------- MODULE Establishment ----------------------------
(***************************************************************************)
(* PDU session establishment end to end: AMF and SMF composed over the      *)
(* service-based interface and the N4 layer.                                *)
(***************************************************************************)
EXTENDS Amf, Smf, FiniteSets, Functions

vars == <<sbiVars, amfVars, smfVars>>

TypeOK == SbiTypeOK /\ AmfTypeOK /\ SmfTypeOK

Init == SbiInit /\ AmfInit /\ SmfInit

SmfStep ==
  \/ \E r \in Req : CreateSMContext(r)
  \/ \E w \in Worker : WorkerStep(w)
  \/ UpfStep

Next ==
  \/ (\E r \in Req : AmfStep(r)) /\ UNCHANGED smfVars
  \/ SmfStep /\ UNCHANGED amfVars

Spec == Init /\ [][Next]_vars

(* A worker is never held for ever: the UDM, UPF and AMF calls time out     *)
(* after 5 s, 2 s and 5 s, and a database statement is taken to return,     *)
(* with an error if need be.  Nothing is assumed of the AMF, of the UPF or  *)
(* of the network.                                                          *)
Fairness == \A w \in Worker : WF_vars(WorkerStep(w) /\ UNCHANGED amfVars)

FairSpec == Spec /\ Fairness

-----------------------------------------------------------------------------
(* Where a request is. *)

Accepted(r) == createCall[r] = "created"
Queued(r) == r \in Range(queue)
Held(r) == \E w \in Worker : job[w] = r
Open(r) == Queued(r) \/ Held(r)
At(r, states) == \E w \in Worker : job[w] = r /\ pc[w] \in states
Over(r) == Accepted(r) /\ ~Open(r)

BeforeN4 == {"save", "udm", "n4"}
AfterN4 == {"activate", "n1n2", "n1n2wait"}
Failing == {"fail", "notify", "notifywait"}

-----------------------------------------------------------------------------
(* Safety. *)

(* A job is done by one worker, once: an accepted request is in the queue   *)
(* or with a worker, in one place only, and nothing else is (jobQueue,      *)
(* service.go:106-120).                                                     *)
OneWorkerPerSession ==
  /\ \A r \in Req : Open(r) => Accepted(r)
  /\ \A i, j \in 1 .. Len(queue) : queue[i] = queue[j] => i = j
  /\ \A w \in Worker : job[w] # NoJob =>
       /\ ~Queued(job[w])
       /\ \A v \in Worker : job[v] = job[w] => v = w

(* No one is told that a session is up before the UPF has it: neither the   *)
(* database (ACTIVE with its address) nor the AMF (Step 11), and only a     *)
(* session its subscriber may have gets that far (service.go:220-236).      *)
ActiveIsInstalled ==
  \A r \in Req :
    repo[r].status = "ACTIVE" \/ repo[r].ip \/ transfer[r]["ACTIVE"] # "none" =>
      r \in installed /\ Subscribed(r)

(* The failure reason, which the worker guesses from the text of an error   *)
(* (service.go:133-142), tells what is left in the UPF: nothing for         *)
(* DB_ERROR and E2E_ESTABLISHMENT_FAILED, possibly a session nobody uses    *)
(* for PFCP_TIMEOUT, surely one for N1N2_FAILED.                            *)
ReasonTellsStage ==
  \A r \in Req : repo[r].status = "FAILED" =>
    CASE repo[r].reason \in {"DB_ERROR", "E2E_ESTABLISHMENT_FAILED"} ->
           outcome[r] = "idle" /\ r \notin installed
      [] repo[r].reason = "PFCP_TIMEOUT" -> outcome[r] = "failed"
      [] repo[r].reason = "N1N2_FAILED" -> outcome[r] = "ok" /\ r \in installed
      [] OTHER -> FALSE

(* A UPF session without a worker has a row: there is no PFCP deletion, so  *)
(* these rows are the only trace of a leak.  A row that says failed gives a *)
(* reason that admits the UPF session, also when statements fail, and a     *)
(* repository that does not fail says active or failed (service.go:143,     *)
(* 189-274).                                                                *)
OrphanIsRecorded ==
  \A r \in installed : Over(r) =>
    /\ repo[r].status # "NONE"
    /\ repo[r].status = "FAILED" => repo[r].reason \in {"PFCP_TIMEOUT", "N1N2_FAILED"}
    /\ ~DbMayFail => repo[r].status \in {"ACTIVE", "FAILED"}

(* With a repository that does not fail, every accepted session that is     *)
(* over is in the database as active and confirmed by the AMF, or as failed *)
(* with the AMF notified (service.go:145-146).                              *)
OverIsSettled ==
  \A r \in Req : Over(r) /\ ~DbMayFail =>
    \/ repo[r].status = "ACTIVE" /\ transfer[r]["ACTIVE"] = "ok" /\ transfer[r]["FAILED"] = "none"
    \/ repo[r].status = "FAILED" /\ transfer[r]["FAILED"] # "none"

(* A request answered 503 leaves nothing behind: no row, no job, no call to *)
(* UPF or AMF (handler.go:63-72).                                           *)
ShedLeavesNoTrace ==
  \A r \in Req : createCall[r] = "congested" =>
    /\ ~Open(r) /\ repo[r] = NoRow
    /\ outcome[r] = "idle" /\ \A t \in TransferStatus : transfer[r][t] = "none"

(* The dashboard's counters add up with the work in progress: every request *)
(* handled is counted once, as success or as failure, when shed, when its   *)
(* pipeline returns, and at no other time (service.go:111, 132, 149).       *)
EveryRequestCounted ==
  successCounter + failCounter + Len(queue)
    + Cardinality({w \in Worker : pc[w] \notin {"idle"} \cup Failing})
  = Cardinality({r \in Req : createCall[r] \in {"created", "congested"}})

(* The AMF's entry of a subscriber is a session of that subscriber which    *)
(* the SMF accepted, and so is the ref of a Step 15 started from a copy of  *)
(* the entry (amf/handler.go:135, 165, 172 and 201).                        *)
MappingIsOwn ==
  LET OwnSession(supi, ref) == ref # NoRef => SupiOf[ref] = supi /\ Accepted(ref) IN
  /\ \A s \in Supi : OwnSession(s, amfSessions[s])
  /\ \A r \in Req : OwnSession(SupiOf[r], step15[r].ref)

-----------------------------------------------------------------------------
(* Liveness. *)

(* Every accepted request is worked off, also one that had to wait in the   *)
(* queue, whatever the UDM, the UPF and the AMF do and whichever statements *)
(* fail: no worker and no place in the queue is lost (service.go:116-156).  *)
AcceptedIsWorkedOff == \A r \in Req : Accepted(r) ~> Over(r)

-----------------------------------------------------------------------------
(* What a session looks like from outside the SMF. *)

PhaseOf(r) ==
  CASE repo[r].status = "CREATING" -> "creating"
    [] repo[r].status = "ACTIVE" -> "active"
    [] repo[r].status = "FAILED" -> "failed"
    [] repo[r].status = "NONE" /\ createCall[r] = "congested" -> "rejected"
    [] repo[r].status = "NONE" /\ createCall[r] = "created" -> "accepted"
    [] OTHER -> "absent"

Phases == [r \in Req |-> PhaseOf(r)]

Lifecycle == INSTANCE SessionLifecycle WITH
  Session <- Req, phase <- Phases, plane <- installed

(* The SMF keeps the lifecycle it promises; in particular a failed session  *)
(* never comes back and a rejected one never starts.                        *)
ImplementsLifecycle == Lifecycle!LifecycleSpec

-----------------------------------------------------------------------------
(* What the documentation says and the code does not do. *)

(* Step 11 finds the context that Step 5 created, as long as the AMF has    *)
(* not given up on Step 3 (report.md:66-81).                                *)
CallbackFindsContext ==
  \A r \in Req : transfer[r]["ACTIVE"] = "notfound" => trigger[r] = "error"

(* A session the AMF logs as established (amf/handler.go:249) is active.    *)
EstablishedIsActive ==
  \A r \in Req : step15[r].st = "done" => repo[step15[r].ref].status = "ACTIVE"
=============================================================================
