------------------------------- MODULE Simulator -------------------------------
(***************************************************************************)
(* The interactive simulator (cmd/simulator/main.go): it starts the four    *)
(* network functions one after the other, each with `go run' in a process   *)
(* group of its own, sleeps three seconds, asks each for its health, sends  *)
(* one trigger, and on every return kills the groups it has started, the    *)
(* last first.  An interrupt ends it without that: the groups do not get    *)
(* the signal and the deferred calls do not run.                            *)
(*                                                                         *)
(* A function whose port is taken by one of an earlier run exits.           *)
(***************************************************************************)
EXTENDS Naturals, Sequences, FiniteSets

CONSTANTS
  MaxRuns    \* bound on the runs of the simulator

ASSUME SimAssumption == MaxRuns \in Nat \ {0}

Order == <<"UDM", "UPF", "SMF", "AMF">>
HealthOrder == <<"UDM", "UPF", "SMF", "AMF">>
NF == {"UDM", "UPF", "SMF", "AMF"}

VARIABLES
  runs,         \* the simulator has been started so often
  simMain,      \* where it is
  done,         \* functions started, or found healthy, in this part
  deferred,     \* the kills that are pending
  proc,         \* the process group of each function in this run
  stale,        \* functions of an interrupted run that still listen
  interrupted   \* this run was interrupted

simVars == <<runs, simMain, done, deferred>>
procVars == <<proc, stale, interrupted>>
simulatorVars == <<simVars, procVars>>

SimState == {"starting", "sleeping", "checking", "triggering", "settling", "leaving", "ended"}

SimTypeOK ==
  /\ runs \in 1 .. MaxRuns
  /\ simMain \in SimState
  /\ done \in 0 .. Len(Order)
  /\ deferred \in Seq(NF) /\ Len(deferred) <= Len(Order)
  /\ proc \in [NF -> {"none", "building", "up", "exited", "killed"}]
  /\ stale \in SUBSET NF
  /\ interrupted \in BOOLEAN

SimInit ==
  /\ runs = 1
  /\ simMain = "starting" /\ done = 0
  /\ deferred = <<>>
  /\ proc = [nf \in NF |-> "none"]
  /\ stale = {}
  /\ interrupted = FALSE

Listening(nf) == proc[nf] = "up" \/ nf \in stale

(* `go run' is started, or cannot be. *)
Start ==
  /\ simMain = "starting" /\ done < Len(Order)
  /\ \/ /\ proc' = [proc EXCEPT ![Order[done + 1]] = "building"]
        /\ deferred' = Append(deferred, Order[done + 1])
        /\ done' = done + 1 /\ UNCHANGED simMain
     \/ simMain' = "leaving" /\ UNCHANGED <<done, deferred, proc>>
  /\ UNCHANGED <<runs, stale, interrupted>>

Goto(from, to) ==
  /\ simMain = from
  /\ simMain' = to
  /\ done' = 0
  /\ UNCHANGED <<runs, deferred, procVars>>

Sleep == done = Len(Order) /\ Goto("starting", "sleeping")
Wake == Goto("sleeping", "checking")

(* The next function answers with 200 in half a second, or main returns. *)
CheckHealth ==
  /\ simMain = "checking" /\ done < Len(HealthOrder)
  /\ \/ Listening(HealthOrder[done + 1]) /\ done' = done + 1 /\ UNCHANGED simMain
     \/ simMain' = "leaving" /\ UNCHANGED done
  /\ UNCHANGED <<runs, deferred, procVars>>

Healthy == done = Len(HealthOrder) /\ Goto("checking", "triggering")

(* Whatever the AMF answers is printed; without an answer main returns.     *)
Trigger ==
  /\ simMain = "triggering"
  /\ simMain' \in {"settling", "leaving"}
  /\ UNCHANGED <<runs, done, deferred, procVars>>

Settle == Goto("settling", "leaving")

(* Mutant: only the wrapper is killed. *)
KillWrapper ==
  /\ simMain = "leaving"
  /\ IF deferred = <<>>
       THEN simMain' = "ended" /\ UNCHANGED <<deferred, proc>>
       ELSE /\ LET nf == deferred[Len(deferred)]
               IN  proc' = [proc EXCEPT ![nf] = IF @ = "building" THEN "killed" ELSE @]
            /\ deferred' = SubSeq(deferred, 1, Len(deferred) - 1)
            /\ UNCHANGED simMain
  /\ UNCHANGED <<runs, done, stale, interrupted>>

(* The deferred calls, and the end. *)
KillCmd ==
  /\ simMain = "leaving"
  /\ IF deferred = <<>>
       THEN simMain' = "ended" /\ UNCHANGED <<deferred, proc>>
       ELSE /\ proc' = [proc EXCEPT ![deferred[Len(deferred)]] = "killed"]
            /\ deferred' = SubSeq(deferred, 1, Len(deferred) - 1)
            /\ UNCHANGED simMain
  /\ UNCHANGED <<runs, done, stale, interrupted>>

Interrupt ==
  /\ simMain # "ended"
  /\ simMain' = "ended"
  /\ interrupted' = TRUE
  /\ deferred' = <<>>
  /\ UNCHANGED <<runs, done, proc, stale>>

SimStep ==
  Start \/ Sleep \/ Wake \/ CheckHealth \/ Healthy \/ Trigger \/ Settle \/ KillCmd

(* Somebody runs the simulator again.  What is left of the former run keeps *)
(* its ports, and what is still being built will have them.                 *)
Again ==
  /\ simMain = "ended" /\ runs < MaxRuns
  /\ runs' = runs + 1
  /\ simMain' = "starting" /\ done' = 0
  /\ stale' = stale \cup {nf \in NF : proc[nf] \in {"building", "up"}}
  /\ proc' = [nf \in NF |-> "none"]
  /\ interrupted' = FALSE
  /\ UNCHANGED deferred

(* The binary is built and takes its port, or exits at once or later. *)
NfStep ==
  /\ \E nf \in NF :
       \/ proc[nf] = "building" /\ nf \notin stale /\ proc' = [proc EXCEPT ![nf] = "up"]
       \/ proc[nf] \in {"building", "up"} /\ proc' = [proc EXCEPT ![nf] = "exited"]
  /\ UNCHANGED <<simVars, stale, interrupted>>

SimNext == SimStep \/ Interrupt \/ Again \/ NfStep

SimSpec == SimInit /\ [][SimNext]_simulatorVars

-----------------------------------------------------------------------------
(* A simulator that returned by itself has left none of its functions       *)
(* running, whichever way it returned (main.go:35-66, 140-159).             *)
LeavesNothing ==
  simMain = "ended" /\ ~interrupted => \A nf \in NF : proc[nf] \notin {"building", "up"}
=============================================================================
