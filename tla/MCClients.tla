------------------------------- MODULE MCClients -------------------------------
(***************************************************************************)
(* The two programs that drive the system, for TLC: the load tester, or the *)
(* interactive simulator.  One of them moves, the other stays where it      *)
(* begins.                                                                  *)
(***************************************************************************)
EXTENDS LoadTester, Simulator

CONSTANTS s1, s2, s3, o1    \* triggers of this campaign and of an earlier one

TesterBegins == main = "firing" /\ \A s \in Shot : shot[s] = "none"
SimulatorBegins == runs = 1 /\ simMain = "starting" /\ done = 0

AllInit == Init /\ SimInit

AllNext ==
  \/ Next /\ SimulatorBegins /\ UNCHANGED simulatorVars
  \/ /\ SimNext /\ UNCHANGED vars
     /\ TesterBegins /\ \A s \in Old : phase[s] = "active"

AllSpec == AllInit /\ [][AllNext]_<<vars, simulatorVars>>

FairAllSpec == AllSpec /\ Fairness
=============================================================================
