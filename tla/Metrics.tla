------------------------------- MODULE Metrics -------------------------------
(***************************************************************************)
(* The SMF's performance counters (internal/smf/service.go): the workers    *)
(* add to them at the end of a job, one after the other, a shed request     *)
(* adds a failure, and the reporter reads two and takes two of them once a  *)
(* second, one after the other too.  Each access is atomic, the groups are  *)
(* not.                                                                     *)
(*                                                                         *)
(* Every job counts as one unit of latency: what matters is whose latency   *)
(* is in a sum, not how long it took.                                       *)
(***************************************************************************)
EXTENDS Naturals, FiniteSets

CONSTANTS
  Worker,    \* the goroutines of the pool
  MaxJobs,   \* bound of the model: jobs started
  MaxShed    \* bound of the model: requests shed

ASSUME MetricsAssumption ==
  /\ IsFiniteSet(Worker)
  /\ MaxJobs \in Nat
  /\ MaxShed \in Nat

VARIABLES
  at,             \* where each worker is in its job
  started,        \* jobs taken from the queue
  shed,           \* requests answered 503
  latencySum, tpsCounter, successCounter, failCounter,
  reporter,       \* where the reporter is in its tick
  tps, success, failed,  \* what it holds in hand
  taken,          \* throughput and latency of the ticks so far, added up
  report          \* the counters in the last report

counters == <<latencySum, tpsCounter, successCounter, failCounter>>
workerVars == <<at, started, shed>>
reporterVars == <<reporter, tps, success, failed, taken, report>>
metricsVars == <<counters, workerVars, reporterVars>>

MetricsTypeOK ==
  /\ at \in [Worker -> {"idle", "busy", "measured", "counted"}]
  /\ started \in 0 .. MaxJobs
  /\ shed \in 0 .. MaxShed
  /\ {latencySum, tpsCounter, successCounter, failCounter, tps, success, failed} \subseteq Nat
  /\ reporter \in {"waiting", "tps", "success", "failed"}
  /\ taken \in [tps : Nat, latency : Nat]
  /\ report \in [success : Nat, failed : Nat]

MetricsInit ==
  /\ at = [w \in Worker |-> "idle"]
  /\ started = 0 /\ shed = 0
  /\ latencySum = 0 /\ tpsCounter = 0 /\ successCounter = 0 /\ failCounter = 0
  /\ reporter = "waiting"
  /\ tps = 0 /\ success = 0 /\ failed = 0
  /\ taken = [tps |-> 0, latency |-> 0]
  /\ report = [success |-> 0, failed |-> 0]

-----------------------------------------------------------------------------
(* The workers, and the handlers that shed. *)

Proceed(w, from, to) == at[w] = from /\ at' = [at EXCEPT ![w] = to]

StartJob(w) ==
  /\ Proceed(w, "idle", "busy")
  /\ started < MaxJobs
  /\ started' = started + 1
  /\ UNCHANGED <<shed, counters, reporterVars>>

(* Mutant: a job that failed returns before its latency is added. *)
AddLatencyOfSuccess(w) ==
  /\ Proceed(w, "busy", "measured")
  /\ latencySum' = latencySum + 1 \/ UNCHANGED latencySum
  /\ UNCHANGED <<started, shed, tpsCounter, successCounter, failCounter, reporterVars>>

AddLatency(w) ==
  /\ Proceed(w, "busy", "measured")
  /\ latencySum' = latencySum + 1
  /\ UNCHANGED <<started, shed, tpsCounter, successCounter, failCounter, reporterVars>>

AddThroughput(w) ==
  /\ Proceed(w, "measured", "counted")
  /\ tpsCounter' = tpsCounter + 1
  /\ UNCHANGED <<started, shed, latencySum, successCounter, failCounter, reporterVars>>

(* Mutant: only a success is counted here. *)
AddSuccess(w) ==
  /\ Proceed(w, "counted", "idle")
  /\ successCounter' = successCounter + 1 \/ UNCHANGED successCounter
  /\ UNCHANGED <<started, shed, latencySum, tpsCounter, failCounter, reporterVars>>

AddOutcome(w) ==
  /\ Proceed(w, "counted", "idle")
  /\ \/ successCounter' = successCounter + 1 /\ UNCHANGED failCounter
     \/ failCounter' = failCounter + 1 /\ UNCHANGED successCounter
  /\ UNCHANGED <<started, shed, latencySum, tpsCounter, reporterVars>>

Shed ==
  /\ shed < MaxShed
  /\ shed' = shed + 1
  /\ failCounter' = failCounter + 1
  /\ UNCHANGED <<at, started, latencySum, tpsCounter, successCounter, reporterVars>>

-----------------------------------------------------------------------------
(* One tick of the reporter. *)

Advance(from, to) == reporter = from /\ reporter' = to

TakeThroughput ==
  /\ Advance("waiting", "tps")
  /\ tps' = tpsCounter
  /\ tpsCounter' = 0
  /\ UNCHANGED <<workerVars, latencySum, successCounter, failCounter, success, failed, taken, report>>

LoadSuccess ==
  /\ Advance("tps", "success")
  /\ success' = successCounter
  /\ UNCHANGED <<workerVars, counters, tps, failed, taken, report>>

LoadFailed ==
  /\ Advance("success", "failed")
  /\ failed' = failCounter
  /\ UNCHANGED <<workerVars, counters, tps, success, taken, report>>

(* The last value, and the report.  The average is latency by throughput; a *)
(* tick without throughput reports 0 and drops the latency it has taken.    *)
TakeLatency ==
  /\ Advance("failed", "waiting")
  /\ latencySum' = 0
  /\ taken' = [tps |-> taken.tps + tps, latency |-> taken.latency + latencySum]
  /\ report' = [success |-> success, failed |-> failed]
  /\ UNCHANGED <<workerVars, tpsCounter, successCounter, failCounter, tps, success, failed>>

-----------------------------------------------------------------------------
MetricsNext ==
  \/ \E w \in Worker : StartJob(w) \/ AddLatency(w) \/ AddThroughput(w) \/ AddOutcome(w)
  \/ Shed
  \/ TakeThroughput \/ LoadSuccess \/ LoadFailed \/ TakeLatency

MetricsSpec == MetricsInit /\ [][MetricsNext]_metricsVars

-----------------------------------------------------------------------------
InHand == IF reporter = "waiting" THEN 0 ELSE tps

(* Nothing is counted twice or lost between the reports: the throughput     *)
(* reported so far, in hand and not yet taken is that of the jobs that have *)
(* an outcome, up to those whose worker is about to record it               *)
(* (service.go:128-149, 405).                                               *)
ThroughputAddsUp ==
  taken.tps + InHand + tpsCounter + shed
    = successCounter + failCounter + Cardinality({w \in Worker : at[w] = "counted"})

(* A job in the throughput of a tick has its latency taken in that tick or  *)
(* in an earlier one: the workers add latency first and the reporter takes  *)
(* it last, so no throughput is divided into a sum that lacks its jobs      *)
(* because their workers were late (service.go:128-129, 405-408).           *)
LatencyCoversThroughput == taken.tps <= taken.latency

(* The throughputs reported so far add up to at most one job per worker     *)
(* more than the successes and failures shown beside them (service.go:      *)
(* 405-407; web/index.html:228-273).                                        *)
OutcomesKeepUp ==
  taken.tps <= report.success + report.failed + Cardinality(Worker)
=============================================================================
