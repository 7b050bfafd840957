--------------------------------- MODULE Amf ---------------------------------
(***************************************************************************)
(* The AMF (internal/amf/handler.go).  Its only state is the map from       *)
(* subscriber to smContextRef, written by the trigger handler when the SMF  *)
(* answered 201 and by a FAILED callback, and read by an ACTIVE callback.   *)
(* The handlers run concurrently, each in a goroutine of the HTTP server.   *)
(***************************************************************************)
EXTENDS Sbi

CONSTANT NoRef     \* an IMSI without an entry

ASSUME NoRefAssumption == NoRef \notin Req

VARIABLES
  trigger,       \* TriggerEstablishment, per request
  amfSessions,   \* Handler.sessions: the last known ref of each IMSI
  step15         \* the goroutine an ACTIVE callback of the request starts

amfVars == <<trigger, amfSessions, step15>>

AmfTypeOK ==
  /\ trigger \in [Req -> {"idle", "waiting", "created", "rejected", "error"}]
  /\ amfSessions \in [Supi -> Req \cup {NoRef}]
  /\ step15 \in [Req -> [st : {"none", "setup", "done", "failed"}, ref : Req \cup {NoRef}]]

AmfInit ==
  /\ trigger = [r \in Req |-> "idle"]
  /\ amfSessions = [s \in Supi |-> NoRef]
  /\ step15 = [r \in Req |-> [st |-> "none", ref |-> NoRef]]

MoveTrigger(r, from, to) ==
  /\ trigger[r] = from
  /\ trigger' = [trigger EXCEPT ![r] = to]

(* POST /trigger: Step 3 goes to the SMF. *)
TriggerEstablishment(r) ==
  /\ MoveTrigger(r, "idle", "waiting")
  /\ createCall' = [createCall EXCEPT ![r] = "sent"]
  /\ UNCHANGED <<transfer, amfSessions, step15>>

(* Mutant: the status of the answer is not looked at. *)
CreatedUnchecked(r) ==
  /\ createCall[r] \in {"created", "congested"}
  /\ MoveTrigger(r, "waiting", "created")
  /\ amfSessions' = [amfSessions EXCEPT ![SupiOf[r]] = r]
  /\ UNCHANGED <<sbiVars, step15>>

(* Step 5, 201: the ref replaces whatever the subscriber had. *)
Created(r) ==
  /\ createCall[r] = "created"
  /\ MoveTrigger(r, "waiting", "created")
  /\ amfSessions' = [amfSessions EXCEPT ![SupiOf[r]] = r]
  /\ UNCHANGED <<sbiVars, step15>>

(* Step 5, 503. *)
Rejected(r) ==
  /\ createCall[r] = "congested"
  /\ MoveTrigger(r, "waiting", "rejected")
  /\ UNCHANGED <<sbiVars, amfSessions, step15>>

(* The connection broke or five seconds are over, answer or not. *)
TriggerError(r) ==
  /\ MoveTrigger(r, "waiting", "error")
  /\ UNCHANGED <<sbiVars, amfSessions, step15>>

(* Step 11 with status ACTIVE: 200 and Step 15 for the ref in the map, not  *)
(* for the one in the message; 404 when the subscriber has no entry.        *)
CallbackActive(r) ==
  LET ref == amfSessions[SupiOf[r]] IN
  /\ \/ /\ ref # NoRef
        /\ AnswerTransfer(r, "ACTIVE", "ok")
        /\ step15' = [step15 EXCEPT ![r] = [st |-> "setup", ref |-> ref]]
     \/ /\ ref = NoRef
        /\ AnswerTransfer(r, "ACTIVE", "notfound")
        /\ UNCHANGED step15
  /\ UNCHANGED <<createCall, trigger, amfSessions>>

(* Step 11 with status FAILED: the failed ref replaces the entry. *)
CallbackFailed(r) ==
  /\ AnswerTransfer(r, "FAILED", "ok")
  /\ amfSessions' = [amfSessions EXCEPT ![SupiOf[r]] = r]
  /\ UNCHANGED <<createCall, trigger, step15>>

(* Step 15 to 17: the SMF acknowledges any ref without looking at it, and   *)
(* the AMF logs the ref as established; or the call fails.                  *)
UpdateSMContext(r) ==
  /\ step15[r].st = "setup"
  /\ \E st \in {"done", "failed"} : step15' = [step15 EXCEPT ![r].st = st]
  /\ UNCHANGED <<sbiVars, trigger, amfSessions>>

AmfStep(r) ==
  \/ TriggerEstablishment(r)
  \/ Created(r) \/ Rejected(r) \/ TriggerError(r)
  \/ CallbackActive(r) \/ CallbackFailed(r)
  \/ UpdateSMContext(r)
=============================================================================
