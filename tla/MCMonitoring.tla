------------------------------ MODULE MCMonitoring ------------------------------
(***************************************************************************)
(* What the SMF shows of itself, for TLC: the counters with their reporter, *)
(* or the dashboard hub.  One of the two moves, the other stays where it    *)
(* begins.                                                                  *)
(***************************************************************************)
EXTENDS Metrics, Dashboard

CONSTANTS w1, w2, c1, c2    \* workers, browsers

ReporterBegins == started = 0 /\ shed = 0 /\ reporter = "waiting"
HubBegins == events = 0 /\ \A c \in Client : pc[c] = "idle"

AllInit == MetricsInit /\ Init

AllNext ==
  \/ MetricsNext /\ HubBegins /\ UNCHANGED vars
  \/ Next /\ ReporterBegins /\ UNCHANGED metricsVars

FairAllSpec == AllInit /\ [][AllNext]_<<metricsVars, vars>> /\ Fairness
=============================================================================
