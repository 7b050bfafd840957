------------------------------ MODULE LoadTester ------------------------------
(***************************************************************************)
(* The load tester (run_load.go) against the SMF's statistics               *)
(* (GET /api/stats, internal/smf/handler.go and db.go).  It fires batches   *)
(* of triggers, each in a goroutine, waits for the last of them, and then   *)
(* asks for the statistics until they look complete.                        *)
(*                                                                         *)
(* Of the SMF only its promise is used, SessionLifecycle; Establishment     *)
(* shows that it is kept.  GetStats counts rows by status and then, in a    *)
(* second query, failures by reason; each query sees one state of the       *)
(* table.  With PostgreSQL a query may fail or its answer be cut short, and *)
(* what was not read counts 0; the rows of earlier campaigns are still      *)
(* there.                                                                   *)
(***************************************************************************)
EXTENDS Naturals, FiniteSets, FiniteSetsExt

CONSTANTS
  Shot,        \* the triggers of this campaign
  Old,         \* sessions of earlier campaigns, if there were any
  BatchSize,   \* triggers per tick
  DbMayFail    \* TRUE with PostgreSQL

ASSUME TesterAssumption ==
  /\ IsFiniteSet(Shot) /\ IsFiniteSet(Old)
  /\ Shot \cap Old = {}
  /\ BatchSize \in Nat \ {0}
  /\ DbMayFail \in BOOLEAN

VARIABLES
  phase, plane,  \* the SMF, as SessionLifecycle has it
  shot,          \* the goroutine of each trigger
  main,          \* where `main' is; in the polling loop, in which query
  stats,         \* the answer of GetStats as far as it is computed
  breakdown,     \* failures by reason, added up
  breakdownCut   \* the second query of this answer failed or was cut short

smfVars == <<phase, plane>>
answer == <<stats, breakdown, breakdownCut>>
vars == <<smfVars, shot, main, answer>>

Smf == INSTANCE SessionLifecycle WITH Session <- Shot \cup Old

MainState == {"firing", "waiting", "sleeping", "query1", "query2", "answered", "reported", "gaveup"}
NoStats == [active |-> 0, pending |-> 0, failed |-> 0]

TypeOK ==
  /\ phase \in [Shot \cup Old -> Smf!Phase]
  /\ plane \in SUBSET (Shot \cup Old)
  /\ shot \in [Shot -> {"none", "spawned", "sent", "created", "error"}]
  /\ main \in MainState
  /\ stats \in [{"active", "pending", "failed"} -> 0 .. Cardinality(Shot \cup Old)]
  /\ breakdown \in 0 .. Cardinality(Shot \cup Old)
  /\ breakdownCut \in BOOLEAN

Init ==
  /\ phase \in [Shot \cup Old -> {"absent", "active", "failed"}]
  /\ \A s \in Shot : phase[s] = "absent"
  /\ plane = {s \in Old : phase[s] # "absent"}
  /\ shot = [s \in Shot |-> "none"]
  /\ main = "firing"
  /\ stats = NoStats
  /\ breakdown = 0
  /\ breakdownCut = FALSE

In(phases) == {s \in Shot \cup Old : phase[s] \in phases}
Shots(states) == {s \in Shot : shot[s] \in states}
SuccessCount == Cardinality(Shots({"created"}))

-----------------------------------------------------------------------------
(* The goroutines of the triggers. *)

MoveShot(s, from, to) ==
  /\ shot[s] \in from
  /\ shot' = [shot EXCEPT ![s] = to]
  /\ UNCHANGED <<smfVars, main, answer>>

Send(s) == MoveShot(s, {"spawned"}, "sent")

(* The AMF passes the SMF's 201 on. *)
ReturnsCreated(s) ==
  /\ phase[s] \notin {"absent", "rejected"}
  /\ MoveShot(s, {"sent"}, "created")

(* Refused, shed, or no answer in time, whatever becomes of the session. *)
ReturnsError(s) == MoveShot(s, {"sent"}, "error")

ShotStep(s) == Send(s) \/ ReturnsCreated(s) \/ ReturnsError(s)

(* The SMF hears of a trigger that was sent; the rest is its own affair. *)
SmfStep ==
  /\ Smf!LifecycleNext
  /\ \A s \in Shot : phase[s] # phase'[s] => shot[s] \notin {"none", "spawned"}
  /\ \A s \in Old : phase[s] = "absent" => phase'[s] = "absent"
  /\ UNCHANGED <<shot, main, answer>>

-----------------------------------------------------------------------------
(* main. *)

MoveMain(from, to) ==
  /\ main = from
  /\ main' = to
  /\ UNCHANGED <<smfVars>>

Tick ==
  /\ main = "firing"
  /\ \E batch \in kSubset(BatchSize, Shots({"none"})) :
       shot' = [s \in Shot |-> IF s \in batch THEN "spawned" ELSE shot[s]]
  /\ UNCHANGED <<smfVars, main, answer>>

TimerFires == MoveMain("firing", "waiting") /\ UNCHANGED <<shot, answer>>

(* Every goroutine spawned has returned: main adds it to the wait group. *)
AllReturned == Shots({"spawned", "sent"}) = {}

Wait ==
  /\ AllReturned
  /\ MoveMain("waiting", "sleeping")
  /\ UNCHANGED <<shot, answer>>

GetStats ==
  /\ MoveMain("sleeping", "query1")
  /\ breakdownCut' = FALSE
  /\ UNCHANGED <<shot, stats, breakdown>>

(* Mutant: a status the switch does not know is taken for a failure. *)
CountOrFailed(status) ==
  IF status = "failed" THEN Cardinality(In({"creating", "failed"})) ELSE Cardinality(In({"active"}))

Count(status) == Cardinality(In({status}))

Counts(read) ==
  LET N(status) == IF status \in read THEN Count(status) ELSE 0
  IN  [active |-> N("active"), pending |-> N("creating"), failed |-> N("failed")]

CountByStatus ==
  /\ stats' = Counts({"active", "creating", "failed"})
  /\ UNCHANGED <<breakdown, breakdownCut>>

CountByFailureReason ==
  /\ breakdown' = Count("failed")
  /\ UNCHANGED <<stats, breakdownCut>>

(* Mutant: the breakdown is queried first. *)
QuerySwapped(n) == IF n = 1 THEN CountByFailureReason ELSE CountByStatus

Query(n) == IF n = 1 THEN CountByStatus ELSE CountByFailureReason

NextQuery == MoveMain("query1", "query2") \/ MoveMain("query2", "answered")

RunQuery ==
  /\ NextQuery
  /\ Query(IF main = "query1" THEN 1 ELSE 2)
  /\ UNCHANGED shot

(* The query fails, or the connection breaks while its groups are read: the *)
(* handler uses the groups it has got, and nobody is told.                  *)
QueryFails ==
  /\ DbMayFail
  /\ NextQuery
  /\ \/ /\ main = "query1"
        /\ \E read \in SUBSET {"active", "creating", "failed"} : stats' = Counts(read)
        /\ UNCHANGED <<breakdown, breakdownCut>>
     \/ /\ main = "query2"
        /\ breakdown' \in 0 .. Count("failed")
        /\ breakdownCut' = TRUE
        /\ UNCHANGED stats
  /\ UNCHANGED shot

(* No connection, another status than 200, or no JSON. *)
StatsFail ==
  /\ main \in {"sleeping", "query1", "query2", "answered"}
  /\ main' = "gaveup"
  /\ UNCHANGED <<smfVars, shot, answer>>

TotalDone == stats.active + stats.failed

(* Mutant: only the second half of the condition. *)
NothingPending == stats.pending = 0 /\ TotalDone > 0

Complete == TotalDone >= SuccessCount \/ (stats.pending = 0 /\ TotalDone > 0)

Decide ==
  /\ \/ Complete /\ MoveMain("answered", "reported")
     \/ ~Complete /\ MoveMain("answered", "sleeping")
  /\ UNCHANGED <<shot, answer>>

MainStep == Tick \/ TimerFires \/ Wait \/ GetStats \/ RunQuery \/ QueryFails \/ StatsFail \/ Decide

Next == MainStep \/ SmfStep \/ \E s \in Shot : ShotStep(s)

Spec == Init /\ [][Next]_vars

(* The timers of the tester end its campaign and every trigger (10 s).  A   *)
(* database that is asked over and over answers.  Nothing is assumed of the *)
(* SMF: with a statement that fails it may leave an accepted session        *)
(* without a row, or its row CREATING, for good.                            *)
Fairness ==
  /\ WF_vars(TimerFires) /\ WF_vars(Wait) /\ WF_vars(GetStats) /\ WF_vars(Decide)
  /\ WF_vars(RunQuery \/ QueryFails) /\ SF_vars(RunQuery /\ main = "query1")
  /\ \A s \in Shot : WF_vars(ShotStep(s))

FairSpec == Spec /\ Fairness

-----------------------------------------------------------------------------
(* What the tester takes for done is done, also when an answer was cut      *)
(* short: a session counted as active may fail before the answer arrives,   *)
(* but it is counted once, and none is counted before it has an outcome     *)
(* (db.go:280-324, handler.go:180).  That the campaign is over does not     *)
(* follow (CampaignIsComplete).                                             *)
TotalDoneIsTrue == TotalDone <= Cardinality(In({"active", "failed"}))

(* The answer is made of two queries at different moments (handler.go:180,  *)
(* 181).  If the second was read to its end, every failure the answer       *)
(* counts has its reason in the breakdown, whatever became of the first:    *)
(* it may name more, never fewer.  If the second failed or was cut short,   *)
(* the answer has failures without a reason and does not say so             *)
(* (db.go:246-249, 253-258).                                                *)
BreakdownCoversFailed ==
  main \in {"answered", "reported"} /\ ~breakdownCut => stats.failed <= breakdown

(* The tester comes to an end (run_load.go:134-180) once every session of   *)
(* its campaign that was accepted has an outcome, also when every trigger   *)
(* was shed or timed out and there is nothing to count, and whichever       *)
(* answers were cut short before.  The condition is needed: with a row that *)
(* stays CREATING, or none at all, the tester may poll for ever.            *)
Settled == Shot \cap In({"accepted", "creating"}) = {}
TesterEnds == <>[]Settled => <>(main \in {"reported", "gaveup"})

(* What the tester says it waits for (run_load.go:131): that the workers    *)
(* are done with the whole campaign.                                        *)
CampaignIsComplete ==
  main = "reported" => \A s \in Shots({"created"}) : phase[s] \notin {"accepted", "creating"}

=============================================================================
