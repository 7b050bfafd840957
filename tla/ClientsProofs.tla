----------------------------- MODULE ClientsProofs -----------------------------
(***************************************************************************)
(* Proofs about the two programs that drive the system: the load tester,    *)
(* for any number of triggers and any batch, and the interactive simulator, *)
(* for any number of runs.                                                  *)
(***************************************************************************)
EXTENDS LoadTester, Simulator, FiniteSetTheorems, SequenceTheorems, TLAPS

-----------------------------------------------------------------------------
(* The load tester. *)

Counted == Shot \cup Old

LEMMA CountedIsFinite == IsFiniteSet(Counted)
  BY FS_Union, TesterAssumption DEF Counted

(* A set of sessions has a number of members, larger for a larger set.      *)
LEMMA Sizes ==
  ASSUME NEW S, NEW T, S \subseteq T, T \subseteq Counted
  PROVE  /\ IsFiniteSet(S) /\ IsFiniteSet(T)
         /\ Cardinality(S) \in Nat /\ Cardinality(T) \in Nat
         /\ Cardinality(S) <= Cardinality(T)
<1>1. IsFiniteSet(T)
  BY CountedIsFinite, FS_Subset
<1> QED
  BY <1>1, FS_Subset, FS_CardinalityType

(* A count is within the type of the statistics. *)
LEMMA CountType ==
  ASSUME NEW phases
  PROVE  Cardinality(In(phases)) \in 0 .. Cardinality(Counted)
<1>1. In(phases) \subseteq Counted
  BY DEF In, Counted
<1> QED
  BY <1>1, Sizes

(* Nobody is active and failed. *)
LEMMA CountsAddUp ==
  Count("active") + Count("failed") = Cardinality(In({"active", "failed"}))
<1> DEFINE A == In({"active"})
           F == In({"failed"})
<1>1. A \subseteq Counted /\ F \subseteq Counted
  BY DEF In, Counted
<1>2. A \cap F = {} /\ A \cup F = In({"active", "failed"})
  BY DEF In
<1>3. IsFiniteSet(A) /\ IsFiniteSet(F)
  BY <1>1, Sizes
<1>4. Cardinality(A) \in Nat /\ Cardinality(F) \in Nat
  BY <1>3, FS_CardinalityType
<1>5. Cardinality(A \cup F) = Cardinality(A) + Cardinality(F) - Cardinality({})
  BY <1>2, <1>3, FS_Union
<1>6. Cardinality({}) = 0
  BY FS_EmptySet
<1>7. Cardinality(A) + Cardinality(F) = Cardinality(In({"active", "failed"}))
  <2> HIDE DEF A, F
  <2> QED
    BY <1>2, <1>4, <1>5, <1>6
<1> QED
  BY <1>7 DEF Count

(* What an answer has counted is still true, however old it is; its second  *)
(* query counts no fewer failures than its first.                           *)
FailedIsTrue == stats.failed <= Count("failed")
TInv == TypeOK /\ TotalDoneIsTrue /\ FailedIsTrue /\ BreakdownCoversFailed

(* A step of the SMF moves one session.                                     *)
LEMMA SmfMoves ==
  ASSUME TypeOK, SmfStep
  PROVE  /\ phase' \in [Counted -> Smf!Phase]
         /\ plane' \in SUBSET Counted
         /\ In({"failed"}) \subseteq In({"failed"})'
         /\ In({"active", "failed"}) \subseteq In({"active", "failed"})'
<1> USE DEF TypeOK, Counted
<1>1. PICK s \in Counted :
        \/ Smf!Reject(s) \/ Smf!Accept(s) \/ Smf!Create(s)
        \/ Smf!Activate(s) \/ Smf!Fail(s) \/ Smf!Install(s)
  BY DEF SmfStep, Smf!LifecycleNext
<1>2. CASE Smf!Install(s)
  BY <1>2 DEF Smf!Install, In
<1>3. CASE \/ Smf!Reject(s) \/ Smf!Accept(s) \/ Smf!Create(s)
           \/ Smf!Activate(s) \/ Smf!Fail(s)
  <2> PICK from \in {{"absent"}, {"accepted"}, {"creating"}, {"creating", "active"}},
           to \in {"rejected", "accepted", "creating", "active", "failed"} :
        /\ Smf!Become(s, from, to)
        /\ "failed" \notin from
        /\ "active" \in from => to = "failed"
    BY <1>3 DEF Smf!Reject, Smf!Accept, Smf!Create, Smf!Activate, Smf!Fail
  <2>1. phase' \in [Counted -> Smf!Phase] /\ plane' = plane
    BY DEF Smf!Become, Smf!Phase
  <2>2. \A q \in Counted : phase[q] = "failed" => phase'[q] = "failed"
    BY DEF Smf!Become
  <2>3. \A q \in Counted : phase[q] \in {"active", "failed"} => phase'[q] \in {"active", "failed"}
    BY DEF Smf!Become
  <2> QED
    BY <2>1, <2>2, <2>3 DEF In
<1> QED
  BY <1>1, <1>2, <1>3

(* The counts it makes true stay true. *)
LEMMA SmfKeeps ==
  ASSUME TInv, SmfStep
  PROVE  TInv'
<1> USE DEF TInv
<1>1. In({"failed"}) \subseteq In({"failed"})' /\ In({"failed"})' \subseteq Counted
  BY SmfMoves DEF In, Counted
<1>2. /\ In({"active", "failed"}) \subseteq In({"active", "failed"})'
      /\ In({"active", "failed"})' \subseteq Counted
  BY SmfMoves DEF In, Counted
<1>3. /\ Cardinality(In({"failed"})) \in Nat /\ Cardinality(In({"failed"})') \in Nat
      /\ Cardinality(In({"failed"})) <= Cardinality(In({"failed"})')
  BY <1>1, Sizes
<1>4. /\ Cardinality(In({"active", "failed"})) \in Nat
      /\ Cardinality(In({"active", "failed"})') \in Nat
      /\ Cardinality(In({"active", "failed"})) <= Cardinality(In({"active", "failed"})')
  BY <1>2, Sizes
<1>5. UNCHANGED <<shot, main, stats, breakdown, breakdownCut>>
  BY DEF SmfStep, answer
<1>6. TypeOK'
  BY <1>5, SmfMoves DEF TypeOK, Counted
<1>7. /\ stats.active \in Nat /\ stats.failed \in Nat
  BY CountedIsFinite, FS_CardinalityType DEF TypeOK, Counted
<1>8. TotalDoneIsTrue'
  BY <1>4, <1>5, <1>7 DEF TotalDoneIsTrue, TotalDone
<1>9. FailedIsTrue'
  BY <1>3, <1>5, <1>7 DEF FailedIsTrue, Count
<1> QED
  BY <1>5, <1>6, <1>8, <1>9 DEF BreakdownCoversFailed

LEMMA ShotKeeps ==
  ASSUME TInv, NEW s \in Shot, ShotStep(s)
  PROVE  TInv'
<1>1. /\ shot' \in [Shot -> {"none", "spawned", "sent", "created", "error"}]
      /\ UNCHANGED <<phase, plane, main, stats, breakdown, breakdownCut>>
  BY DEF TInv, TypeOK, ShotStep, Send, ReturnsCreated, ReturnsError, MoveShot, smfVars, answer
<1> QED
  BY <1>1 DEF TInv, TypeOK, TotalDoneIsTrue, TotalDone, FailedIsTrue, BreakdownCoversFailed,
              Count, In

(* A query of `main'. *)
LEMMA QueryKeeps ==
  ASSUME TInv, RunQuery \/ QueryFails
  PROVE  TInv'
<1> USE DEF TInv
<1>0. /\ UNCHANGED <<phase, plane, shot>>
      /\ \/ main = "query1" /\ main' = "query2"
         \/ main = "query2" /\ main' = "answered"
  BY DEF RunQuery, QueryFails, NextQuery, MoveMain, smfVars
<1>1. \A phases : In(phases)' = In(phases)
  BY <1>0 DEF In
<1>2. /\ Count("failed")' = Count("failed")
      /\ Cardinality(In({"active", "failed"}))' = Cardinality(In({"active", "failed"}))
  BY <1>0 DEF Count, In
<1>3. /\ Count("active") \in 0 .. Cardinality(Counted)
      /\ Count("creating") \in 0 .. Cardinality(Counted)
      /\ Count("failed") \in 0 .. Cardinality(Counted)
      /\ Cardinality(In({"active", "failed"})) \in 0 .. Cardinality(Counted)
      /\ Cardinality(Counted) \in Nat
  BY CountType, CountedIsFinite, FS_CardinalityType DEF Count
<1>4. CASE main = "query1"
  <2>1. PICK read \in SUBSET {"active", "creating", "failed"} :
          stats' = Counts(read) /\ UNCHANGED <<breakdown, breakdownCut>>
    BY <1>4, <1>0 DEF RunQuery, QueryFails, Query, CountByStatus
  <2>2. /\ stats' \in [{"active", "pending", "failed"} -> 0 .. Cardinality(Counted)]
        /\ stats'.active \in 0 .. Count("active") /\ stats'.failed \in 0 .. Count("failed")
    BY <2>1, <1>3 DEF Counts
  <2>3. TypeOK'
    BY <2>1, <2>2, <1>0, <1>4 DEF TypeOK, MainState, Counted
  <2>4. main' = "query2"
    BY <1>0, <1>4
  <2> QED
    BY <2>2, <2>3, <2>4, <1>2, <1>3, CountsAddUp
       DEF TotalDoneIsTrue, TotalDone, FailedIsTrue, BreakdownCoversFailed
<1>5. CASE main = "query2"
  <2>1. /\ breakdown' \in 0 .. Count("failed") /\ breakdownCut' \in BOOLEAN
        /\ ~breakdownCut' => breakdown' = Count("failed")
        /\ UNCHANGED stats
    <3>1. CASE RunQuery
      BY <3>1, <1>5, <1>3 DEF RunQuery, Query, CountByFailureReason, TypeOK
    <3>2. CASE QueryFails
      BY <3>2, <1>5 DEF QueryFails
    <3> QED
      BY <3>1, <3>2
  <2>2. TypeOK'
    BY <2>1, <1>0, <1>3 DEF TypeOK, MainState, Counted
  <2> QED
    BY <2>1, <2>2, <1>2 DEF TotalDoneIsTrue, TotalDone, FailedIsTrue, BreakdownCoversFailed
<1> QED
  BY <1>0, <1>4, <1>5

(* The other steps of `main' count nothing. *)
LEMMA MainKeeps ==
  ASSUME TInv, Tick \/ TimerFires \/ Wait \/ GetStats \/ StatsFail \/ Decide
  PROVE  TInv'
<1>1. /\ shot' \in [Shot -> {"none", "spawned", "sent", "created", "error"}]
      /\ main' \in MainState /\ breakdownCut' \in BOOLEAN
      /\ UNCHANGED <<phase, plane, stats, breakdown>>
  BY DEF TInv, TypeOK, MainState, Tick, TimerFires, Wait, GetStats, StatsFail, Decide, MoveMain,
         smfVars, answer
<1>2. main' \in {"answered", "reported"} =>
        main \in {"answered", "reported"} /\ breakdownCut' = breakdownCut
  BY DEF Tick, TimerFires, Wait, GetStats, StatsFail, Decide, MoveMain, answer
<1> QED
  BY <1>1, <1>2 DEF TInv, TypeOK, TotalDoneIsTrue, TotalDone, FailedIsTrue, BreakdownCoversFailed,
              Count, In

(* The invariant of the load tester. *)
THEOREM TesterInvariant == Spec => []TInv
<1>1. Init => TInv
  <2> SUFFICES ASSUME Init PROVE TInv
    OBVIOUS
  <2>1. Cardinality(Counted) \in Nat
    BY CountedIsFinite, FS_CardinalityType
  <2>2. TypeOK
    <3>1. phase \in [Counted -> Smf!Phase]
      BY DEF Init, Counted, Smf!Phase
    <3>2. plane \subseteq Counted
      BY DEF Init, Counted
    <3>3. stats \in [{"active", "pending", "failed"} -> 0 .. Cardinality(Counted)]
      BY <2>1 DEF Init, NoStats
    <3>4. shot \in [Shot -> {"none", "spawned", "sent", "created", "error"}]
      BY DEF Init
    <3>5. breakdown \in 0 .. Cardinality(Counted)
      BY <2>1 DEF Init
    <3> QED
      BY <3>1, <3>2, <3>3, <3>4, <3>5 DEF Init, TypeOK, Counted, MainState
  <2>3. Count("failed") \in Nat /\ Cardinality(In({"active", "failed"})) \in Nat
    BY <2>1, CountType DEF Count
  <2> QED
    BY <2>2, <2>3 DEF Init, TInv, TotalDoneIsTrue, TotalDone, FailedIsTrue, BreakdownCoversFailed,
                      NoStats
<1>2. TInv /\ [Next]_vars => TInv'
  <2> SUFFICES ASSUME TInv, [Next]_vars PROVE TInv'
    OBVIOUS
  <2>1. CASE MainStep
    BY <2>1, QueryKeeps, MainKeeps DEF MainStep
  <2>2. CASE SmfStep
    BY <2>2, SmfKeeps
  <2>3. CASE \E s \in Shot : ShotStep(s)
    BY <2>3, ShotKeeps
  <2>4. CASE UNCHANGED vars
    BY <2>4 DEF vars, smfVars, answer, TInv, TypeOK, TotalDoneIsTrue, TotalDone, FailedIsTrue,
                BreakdownCoversFailed, Count, In
  <2> QED
    BY <2>1, <2>2, <2>3, <2>4 DEF Next
<1> QED
  BY <1>1, <1>2, PTL DEF Spec

(* What the tester takes for done is done: each answer adds up to no more   *)
(* sessions than have an outcome (db.go:280-324), however many are under    *)
(* way and however late it is read.                                         *)
THEOREM DoneIsDone == Spec => []TotalDoneIsTrue
  BY TesterInvariant, PTL DEF TInv

(* A second query that was read to its end names a reason for every failure *)
(* the first one counted, cut short or not (handler.go:180-181).            *)
THEOREM BreakdownIsComplete == Spec => []BreakdownCoversFailed
  BY TesterInvariant, PTL DEF TInv

-----------------------------------------------------------------------------
(* The interactive simulator. *)

(* Its kill is pending for every function that was started in this run. *)
KillIsPending ==
  ~interrupted => \A nf \in NF : proc[nf] \in {"building", "up"} =>
                    \E i \in 1 .. Len(deferred) : deferred[i] = nf

StartedInOrder ==
  /\ simMain = "starting" => Len(deferred) = done
  /\ simMain = "ended" => deferred = <<>>
  /\ interrupted => simMain = "ended"

SInv == SimTypeOK /\ StartedInOrder /\ KillIsPending

LEMMA Orders ==
  /\ Len(Order) = 4 /\ Len(HealthOrder) = 4
  /\ \A i \in 1 .. 4 : Order[i] \in NF
<1>1. Len(Order) = 4 /\ Len(HealthOrder) = 4
  BY DEF Order, HealthOrder
<1>2. \A i \in 1 .. 4 : i = 1 \/ i = 2 \/ i = 3 \/ i = 4
  OBVIOUS
<1>3. Order[1] \in NF /\ Order[2] \in NF /\ Order[3] \in NF /\ Order[4] \in NF
  BY DEF Order, NF
<1> QED
  BY <1>1, <1>2, <1>3

(* What the last deferred call leaves. *)
LEMMA WithoutLast ==
  ASSUME NEW S, NEW s \in Seq(S), s # <<>>
  PROVE  /\ Len(s) \in Nat \ {0} /\ s[Len(s)] \in S
         /\ SubSeq(s, 1, Len(s) - 1) \in Seq(S)
         /\ Len(SubSeq(s, 1, Len(s) - 1)) = Len(s) - 1
         /\ \A i \in 1 .. Len(s) - 1 : SubSeq(s, 1, Len(s) - 1)[i] = s[i]
<1>1. Len(s) \in Nat \ {0}
  OBVIOUS
<1>2. \A i \in 1 .. Len(s) : s[i] \in S
  OBVIOUS
<1>3. PICK n \in Nat : n = Len(s) - 1
  BY <1>1
<1>4. /\ SubSeq(s, 1, n) \in Seq(S)
      /\ Len(SubSeq(s, 1, n)) = IF 1 <= n THEN n - 1 + 1 ELSE 0
      /\ \A i \in 1 .. n - 1 + 1 : SubSeq(s, 1, n)[i] = s[1 + i - 1]
  <2>1. \A i \in 1 .. n : s[i] \in S
    BY <1>1, <1>2, <1>3
  <2> QED
    BY <2>1, SubSeqProperties
<1>5. Len(SubSeq(s, 1, n)) = n /\ \A i \in 1 .. n : SubSeq(s, 1, n)[i] = s[i]
  BY <1>4
<1> QED
  BY <1>1, <1>2, <1>3, <1>4, <1>5

LEMMA StartKeeps ==
  ASSUME SInv, Start
  PROVE  SInv'
<1> USE DEF SInv, SimTypeOK, SimState, StartedInOrder, KillIsPending
<1>1. CASE simMain' = "leaving" /\ UNCHANGED <<done, deferred, proc>>
  BY <1>1 DEF Start
<1>2. CASE /\ proc' = [proc EXCEPT ![Order[done + 1]] = "building"]
           /\ deferred' = Append(deferred, Order[done + 1])
           /\ done' = done + 1 /\ UNCHANGED simMain
  <2> DEFINE next == Order[done + 1]
  <2>1. next \in NF /\ done + 1 \in 1 .. 4 /\ Len(deferred) = done
    BY Orders DEF Start
  <2>2. UNCHANGED <<runs, stale, interrupted>> /\ simMain = "starting"
    BY DEF Start
  <2> HIDE DEF next
  <2>3. /\ deferred' \in Seq(NF) /\ Len(deferred') = done'
        /\ \A i \in 1 .. Len(deferred) : deferred'[i] = deferred[i]
        /\ deferred'[Len(deferred')] = next
    BY <1>2, <2>1 DEF next
  <2>4. SimTypeOK' /\ StartedInOrder'
    BY <1>2, <2>1, <2>2, <2>3, Orders DEF next
  <2>5. KillIsPending'
    <3> SUFFICES ASSUME ~interrupted', NEW nf \in NF, proc'[nf] \in {"building", "up"}
                 PROVE  \E i \in 1 .. Len(deferred') : deferred'[i] = nf
      BY DEF KillIsPending
    <3>1. CASE nf = next
      BY <3>1, <2>1, <2>3, <1>2
    <3>2. CASE nf # next
      <4>1. proc'[nf] = proc[nf]
        BY <3>2, <1>2 DEF next
      <4>2. PICK i \in 1 .. Len(deferred) : deferred[i] = nf
        BY <4>1, <2>2
      <4> QED
        BY <4>2, <2>1, <2>3, <1>2
    <3> QED
      BY <3>1, <3>2
  <2> QED
    BY <1>2, <2>2, <2>4, <2>5
<1> QED
  BY <1>1, <1>2 DEF Start

LEMMA CheckKeeps ==
  ASSUME SInv, CheckHealth \/ Healthy
  PROVE  SInv'
<1> USE DEF SInv, SimTypeOK, SimState, StartedInOrder, KillIsPending
<1>1. CASE Healthy
  BY <1>1, Orders DEF Healthy, Goto, procVars
<1>2. CASE CheckHealth /\ simMain' = "leaving" /\ UNCHANGED done
  BY <1>2 DEF CheckHealth, procVars
<1>3. CASE /\ CheckHealth /\ Listening(HealthOrder[done + 1])
           /\ done' = done + 1 /\ UNCHANGED simMain
  <2>1. /\ UNCHANGED <<runs, deferred, proc, stale, interrupted>>
        /\ simMain = "checking" /\ done' \in 0 .. 4
    BY <1>3, Orders DEF CheckHealth, procVars
  <2> QED
    BY <1>3, <2>1, Orders
<1> QED
  BY <1>1, <1>2, <1>3 DEF CheckHealth

LEMMA KillKeeps ==
  ASSUME SInv, KillCmd
  PROVE  SInv'
<1>0. deferred # <<>> => deferred[Len(deferred)] \in NF /\ Len(deferred) \in 1 .. 4
  <2> SUFFICES ASSUME deferred # <<>>
               PROVE  deferred[Len(deferred)] \in NF /\ Len(deferred) \in 1 .. 4
    OBVIOUS
  <2>1. deferred \in Seq(NF) /\ Len(deferred) <= 4
    BY Orders DEF SInv, SimTypeOK
  <2>2. Len(deferred) \in Nat \ {0} /\ deferred[Len(deferred)] \in NF
    BY <2>1, WithoutLast
  <2>3. PICK n \in Nat \ {0} : n = Len(deferred)
    BY <2>2
  <2>4. n \in 1 .. 4
    BY <2>1, <2>3
  <2> QED
    BY <2>2, <2>3, <2>4
<1> USE DEF SInv, SimTypeOK, SimState, StartedInOrder, KillIsPending
<1>1. CASE deferred = <<>>
  BY <1>1 DEF KillCmd
<1>2. CASE deferred # <<>>
  <2> DEFINE last == deferred[Len(deferred)]
  <2>1. /\ proc' = [proc EXCEPT ![last] = "killed"]
        /\ deferred' = SubSeq(deferred, 1, Len(deferred) - 1)
        /\ UNCHANGED <<runs, simMain, done, stale, interrupted>>
        /\ simMain = "leaving"
    BY <1>2 DEF KillCmd
  <2>0. deferred \in Seq(NF) /\ Len(deferred) <= 4
    BY Orders
  <2>2. last \in NF /\ Len(deferred) \in 1 .. 4
    BY <1>0, <1>2
  <2> HIDE DEF last
  <2>3. /\ deferred' \in Seq(NF) /\ Len(deferred') = Len(deferred) - 1
        /\ \A i \in 1 .. Len(deferred') : deferred'[i] = deferred[i]
    BY <1>2, <2>0, <2>1, WithoutLast
  <2>4. SimTypeOK' /\ StartedInOrder'
    BY <2>1, <2>2, <2>3, Orders
  <2>5. KillIsPending'
    <3> SUFFICES ASSUME ~interrupted', NEW nf \in NF, proc'[nf] \in {"building", "up"}
                 PROVE  \E i \in 1 .. Len(deferred') : deferred'[i] = nf
      BY DEF KillIsPending
    <3>1. nf # last /\ proc[nf] \in {"building", "up"}
      BY <2>1, <2>2
    <3>2. PICK i \in 1 .. Len(deferred) : deferred[i] = nf
      BY <3>1, <2>1
    <3>3. i # Len(deferred)
      BY <3>1, <3>2 DEF last
    <3> QED
      BY <3>2, <3>3, <2>2, <2>3
  <2> QED
    BY <2>1, <2>4, <2>5
<1> QED
  BY <1>1, <1>2

LEMMA OtherStepsKeep ==
  ASSUME SInv, Sleep \/ Wake \/ Trigger \/ Settle \/ Interrupt \/ Again \/ UNCHANGED simulatorVars
  PROVE  SInv'
<1> USE DEF SInv, SimTypeOK, SimState, StartedInOrder, KillIsPending
<1>1. CASE Sleep \/ Wake \/ Settle
  BY <1>1, Orders DEF Sleep, Wake, Settle, Goto, procVars
<1>2. CASE Trigger
  BY <1>2 DEF Trigger, procVars
<1>3. CASE Interrupt
  BY <1>3, Orders DEF Interrupt
<1>4. CASE Again
  <2>1. /\ runs' \in 1 .. MaxRuns /\ stale' \in SUBSET NF /\ deferred' = <<>>
        /\ simMain' = "starting" /\ done' = 0 /\ interrupted' = FALSE
        /\ proc' = [nf \in NF |-> "none"]
    BY <1>4, SimAssumption DEF Again
  <2>2. Len(<<>>) = 0 /\ <<>> \in Seq(NF)
    OBVIOUS
  <2>3. SimTypeOK'
    <3>1. done' \in 0 .. Len(Order) /\ deferred' \in Seq(NF) /\ Len(deferred') <= Len(Order)
      BY <2>1, <2>2, Orders
    <3>2. proc' \in [NF -> {"none", "building", "up", "exited", "killed"}]
      BY <2>1
    <3> QED
      BY <2>1, <3>1, <3>2
  <2> QED
    BY <2>1, <2>2, <2>3
<1>5. CASE UNCHANGED simulatorVars
  BY <1>5 DEF simulatorVars, simVars, procVars
<1> QED
  BY <1>1, <1>2, <1>3, <1>4, <1>5

LEMMA NfKeeps ==
  ASSUME SInv, NfStep
  PROVE  SInv'
<1> USE DEF SInv, SimTypeOK, SimState, StartedInOrder, KillIsPending
<1>1. UNCHANGED <<runs, simMain, done, deferred, stale, interrupted>>
  BY DEF NfStep, simVars
<1>2. PICK nf \in NF :
        \/ proc[nf] = "building" /\ nf \notin stale /\ proc' = [proc EXCEPT ![nf] = "up"]
        \/ proc[nf] \in {"building", "up"} /\ proc' = [proc EXCEPT ![nf] = "exited"]
  BY DEF NfStep
<1>3. /\ proc' \in [NF -> {"none", "building", "up", "exited", "killed"}]
      /\ \A f \in NF : proc'[f] \in {"building", "up"} => proc[f] \in {"building", "up"}
  BY <1>2
<1> QED
  BY <1>1, <1>3

(* The invariant of the simulator. *)
THEOREM SimulatorInvariant == SimSpec => []SInv
<1>1. SimInit => SInv
  <2> SUFFICES ASSUME SimInit PROVE SInv
    OBVIOUS
  <2>1. Len(<<>>) = 0 /\ <<>> \in Seq(NF)
    OBVIOUS
  <2>2. SimTypeOK
    <3>1. runs \in 1 .. MaxRuns
      BY SimAssumption DEF SimInit
    <3>2. done \in 0 .. Len(Order) /\ deferred \in Seq(NF) /\ Len(deferred) <= Len(Order)
      BY <2>1, Orders DEF SimInit
    <3>3. proc \in [NF -> {"none", "building", "up", "exited", "killed"}]
      BY DEF SimInit
    <3> QED
      BY <3>1, <3>2, <3>3 DEF SimInit, SimTypeOK, SimState
  <2> QED
    BY <2>1, <2>2 DEF SimInit, SInv, StartedInOrder, KillIsPending
<1>2. SInv /\ [SimNext]_simulatorVars => SInv'
  BY StartKeeps, CheckKeeps, KillKeeps, OtherStepsKeep, NfKeeps DEF SimNext, SimStep
<1> QED
  BY <1>1, <1>2, PTL DEF SimSpec

(* A simulator that returned by itself has left no function running: the    *)
(* deferred kill of a function stays pending until it is done               *)
(* (main.go:35-66, 140-159).                                                *)
THEOREM SimulatorCleansUp == SimSpec => []LeavesNothing
<1>1. SInv => LeavesNothing
  <2> SUFFICES ASSUME SInv, simMain = "ended", ~interrupted, NEW nf \in NF,
                      proc[nf] \in {"building", "up"}
               PROVE  FALSE
    BY DEF LeavesNothing
  <2>1. deferred = <<>>
    BY DEF SInv, StartedInOrder
  <2> QED
    BY <2>1 DEF SInv, KillIsPending
<1> QED
  BY <1>1, SimulatorInvariant, PTL
=============================================================================
