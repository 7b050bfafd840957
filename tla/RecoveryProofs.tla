----------------------------- MODULE RecoveryProofs -----------------------------
(***************************************************************************)
(* Proofs about Recovery, for any number of crashes of each network         *)
(* function at any time.  The invariant of Establishment holds throughout,  *)
(* with what a crash of the SMF has lost excused from being settled.        *)
(***************************************************************************)
EXTENDS Recovery, EstablishmentProofs, FiniteSetTheorems

-----------------------------------------------------------------------------
(* What the PFCP client has numbered, and what the UPF holds. *)

Asked == {r \in Req : outcome[r] # "idle"}

(* Numbers are given out in turn, from 1 again after a restart of the SMF.  *)
NumberInv ==
  /\ counter =< Cardinality(Asked)
  /\ \A r \in Req : number[r] = 0 <=> outcome[r] = "idle"
  /\ crashes["SMF"] = 0 =>
       /\ \A r \in Req : number[r] =< counter
       /\ \A q, r \in Req : number[q] = number[r] /\ number[r] # 0 => q = r

(* What the UPF holds under a number was asked for with that number.        *)
HoldInv ==
  /\ \A n \in Number : sessions[n] # NoRef => sessions[n] \in installed /\ number[sessions[n]] = n
  /\ crashes["UPF"] = 0 => \A r \in installed : sessions[number[r]] # NoRef

RInv == IInv(lost) /\ RecoveryTypeOK /\ NumberInv /\ HoldInv

LEMMA Numbers ==
  /\ IsFiniteSet(Req) /\ Cardinality(Req) \in Nat
  /\ Number = 1 .. Cardinality(Req) /\ 0 \notin Number
  BY RecoveryAssumption, FS_CardinalityType DEF Number

(* No more numbers are needed than there are requests.                      *)
LEMMA AskedIsFinite ==
  /\ IsFiniteSet(Asked) /\ Cardinality(Asked) \in Nat /\ Cardinality(Asked) =< Cardinality(Req)
  /\ (\E r \in Req : outcome[r] = "idle") => Cardinality(Asked) < Cardinality(Req)
<1>1. Asked \subseteq Req
  BY DEF Asked
<1>2. IsFiniteSet(Asked) /\ Cardinality(Asked) =< Cardinality(Req) /\ Cardinality(Asked) \in Nat
  BY <1>1, Numbers, FS_Subset, FS_CardinalityType
<1>3. ASSUME NEW r \in Req, outcome[r] = "idle" PROVE Asked # Req
  BY <1>3 DEF Asked
<1>4. Asked # Req => Cardinality(Asked) < Cardinality(Req)
  <2>1. Cardinality(Req) = Cardinality(Asked) => Req = Asked
    BY <1>1, Numbers, FS_Subset
  <2> QED
    BY <1>2, <2>1, Numbers
<1> QED
  BY <1>2, <1>3, <1>4

LEMMA RInvInit == RecoveryInit => RInv
<1> SUFFICES ASSUME RecoveryInit PROVE RInv
  OBVIOUS
<1>1. IInv(lost)
  <2>1. IInv({})
    BY InvInit DEF RecoveryInit
  <2> QED
    BY <2>1 DEF RecoveryInit
<1>2. RecoveryTypeOK
  BY Numbers DEF RecoveryInit, RecoveryTypeOK
<1>3. outcome = [r \in Req |-> "idle"] /\ installed = {}
  BY DEF RecoveryInit, Init, SmfInit, N4!N4Init
<1>4. NumberInv
  BY <1>3, AskedIsFinite DEF RecoveryInit, NumberInv
<1>5. HoldInv
  BY <1>3 DEF RecoveryInit, HoldInv
<1> QED
  BY <1>1, <1>2, <1>4, <1>5 DEF RInv

-----------------------------------------------------------------------------
(* The steps of the programs. *)

(* To the N4 layer every step is one of its own, or none.                   *)
LEMMA StepsOfN4 ==
  ASSUME IInv(lost), Next
  PROVE  N4!N4Next \/ UNCHANGED <<outcome, installed>>
<1>1. ASSUME NEW r \in Req, AmfStep(r), UNCHANGED smfVars
      PROVE  UNCHANGED <<outcome, installed>>
  BY <1>1 DEF smfVars, n4Vars
<1>2. ASSUME NEW r \in Req, CreateSMContext(r)
      PROVE  UNCHANGED <<outcome, installed>>
  BY <1>2 DEF CreateSMContext, CreateAccepted, CreateHandedOver, CreateShed, n4Vars
<1>3. ASSUME NEW w \in Worker, WorkerStep(w)
      PROVE  N4!N4Next \/ UNCHANGED <<outcome, installed>>
  <2>1. pc[w] # "idle" => job[w] \in Req
    BY DEF IInv, JobInv, TypeOK, SmfTypeOK
  <2>2. CASE SendPfcp(w) \/ AwaitPfcp(w)
    BY <2>1, <2>2 DEF SendPfcp, AwaitPfcp, Advance, ReturnError, FailWith, Goto, N4!N4Next
  <2>3. CASE ~(SendPfcp(w) \/ AwaitPfcp(w))
    BY <1>3, <2>3 DEF WorkerStep, Dequeue, SaveSession, QueryUdm, ActivateSession, SendN1N2,
                      AwaitN1N2, RecordFailure, NotifyFailure, AwaitNotify, n4Vars
  <2> QED
    BY <2>2, <2>3
<1>4. UpfStep => N4!N4Next
  BY DEF UpfStep, N4!N4Next
<1> QED
  BY <1>1, <1>2, <1>3, <1>4 DEF Next, SmfStep

(* The invariant of Establishment is kept, with the same excuses.           *)
LEMMA IInvOfProgram ==
  ASSUME IInv(lost), [Next]_vars, lost' = lost
  PROVE  IInv(lost)'
<1>1. PICK L : L = lost
  OBVIOUS
<1>2. IInv(L)
  BY <1>1 DEF IInv, SettledBut
<1>3. IInv(L)'
  BY <1>2, InvStep
<1> QED
  BY <1>1, <1>3 DEF IInv, SettledBut

LEMMA CalledIs ==
  ASSUME IInv(lost), NEW r \in Req, N4!Send(r)
  PROVE  /\ {q \in Req : outcome[q] = "idle" /\ outcome'[q] = "waiting"} = {r}
         /\ Asked' = Asked \cup {r} /\ r \notin Asked /\ installed' \ installed = {}
<1>1. outcome \in [Req -> N4!Outcome]
  BY DEF IInv, TypeOK, SmfTypeOK, N4!N4TypeOK
<1> QED
  BY <1>1 DEF N4!Send, N4!Move, Asked

Uncalled ==
  \/ \E r \in Req : N4!Install(r) \/ N4!Accept(r) \/ N4!GiveUp(r)
  \/ UNCHANGED <<outcome, installed>>

LEMMA NobodyCalled ==
  ASSUME IInv(lost), Uncalled
  PROVE  /\ {q \in Req : outcome[q] = "idle" /\ outcome'[q] = "waiting"} = {}
         /\ Asked' = Asked
         /\ \A q \in Req : outcome'[q] = "idle" <=> outcome[q] = "idle"
<1>1. outcome \in [Req -> N4!Outcome]
  BY DEF IInv, TypeOK, SmfTypeOK, N4!N4TypeOK
<1> QED
  BY <1>1 DEF Uncalled, N4!Install, N4!Accept, N4!GiveUp, N4!Move, Asked

(* A call takes the next number.                                            *)
LEMMA SendKeeps ==
  ASSUME RInv, ProgramStep, NEW r \in Req, N4!Send(r)
  PROVE  RecoveryTypeOK' /\ NumberInv' /\ HoldInv'
<1> USE DEF RInv, RecoveryTypeOK
<1>1. /\ Asked' = Asked \cup {r} /\ r \notin Asked /\ installed' = installed
      /\ counter' = counter + 1 /\ counter \in Nat
      /\ number' = [number EXCEPT ![r] = counter + 1]
      /\ UNCHANGED <<sessions, crashes, lost>>
  <2>1. Cardinality({r}) = 1
    BY FS_Singleton
  <2>2. counter \in Nat
    BY Numbers
  <2>3. installed' = installed
    BY DEF N4!Send
  <2> QED
    BY <2>1, <2>2, <2>3, CalledIs DEF ProgramStep, CounterAfter, faultVars
<1>2. outcome[r] = "idle" /\ outcome'[r] = "waiting" /\ \A q \in Req \ {r} : outcome'[q] = outcome[q]
  BY DEF N4!Send, N4!Move, IInv, TypeOK, SmfTypeOK, N4!N4TypeOK
<1>3. Cardinality(Asked') = Cardinality(Asked) + 1
  BY <1>1, AskedIsFinite, FS_AddElement
<1>4. counter + 1 \in Number
  BY <1>1, <1>2, Numbers, AskedIsFinite DEF NumberInv
<1>5. RecoveryTypeOK'
  BY <1>1, <1>4
<1>6. NumberInv'
  <2>1. counter' =< Cardinality(Asked)'
    BY <1>1, <1>3, AskedIsFinite DEF NumberInv
  <2>2. \A q \in Req : number'[q] = 0 <=> outcome'[q] = "idle"
    BY <1>1, <1>2 DEF NumberInv
  <2>3. ASSUME crashes'["SMF"] = 0
        PROVE  /\ \A q \in Req : number'[q] =< counter'
               /\ \A p, q \in Req : number'[p] = number'[q] /\ number'[q] # 0 => p = q
    <3>1. \A q \in Req : number[q] =< counter /\ number[q] \in Nat
      BY <1>1, <2>3, Numbers DEF NumberInv
    <3>2. \A p, q \in Req : number[p] = number[q] /\ number[q] # 0 => p = q
      BY <1>1, <2>3 DEF NumberInv
    <3> QED
      BY <1>1, <3>1, <3>2
  <2> QED
    BY <2>1, <2>2, <2>3 DEF NumberInv
<1>7. HoldInv'
  <2>1. r \notin installed
    BY <1>2 DEF IInv, PlaneInv, PlaneOK
  <2>2. \A q \in installed : q \in Req /\ number'[q] = number[q]
    BY <1>1, <2>1 DEF IInv, TypeOK, SmfTypeOK, N4!N4TypeOK
  <2> QED
    BY <1>1, <2>2 DEF HoldInv
<1> QED
  BY <1>5, <1>6, <1>7

(* The UPF stores under the number of the request.                          *)
LEMMA OthersKeep ==
  ASSUME RInv, ProgramStep, Uncalled
  PROVE  RecoveryTypeOK' /\ NumberInv' /\ HoldInv'
<1> USE DEF RInv, RecoveryTypeOK
<1>1. /\ Asked' = Asked /\ counter' = counter /\ counter \in Nat /\ number' = number
      /\ UNCHANGED <<crashes, lost>>
  <2>1. Cardinality({}) = 0
    BY FS_EmptySet
  <2>2. counter \in Nat
    BY Numbers
  <2> DEFINE Called == {q \in Req : outcome[q] = "idle" /\ outcome'[q] = "waiting"}
  <2>3. Called = {} /\ Asked' = Asked
    BY NobodyCalled
  <2>4. /\ counter' = counter + Cardinality(Called)
        /\ number' = [q \in Req |-> IF q \in Called THEN counter + 1 ELSE number[q]]
        /\ UNCHANGED <<crashes, lost>>
    BY DEF ProgramStep, CounterAfter, faultVars
  <2> HIDE DEF Called
  <2>5. counter' = counter
    BY <2>1, <2>2, <2>3, <2>4
  <2>6. number' = [q \in Req |-> number[q]]
    BY <2>3, <2>4
  <2>7. number' = number
    BY <2>6
  <2> QED
    BY <2>2, <2>3, <2>4, <2>5, <2>7
<1>2. NumberInv'
  <2>1. \A q \in Req : outcome'[q] = "idle" <=> outcome[q] = "idle"
    BY NobodyCalled
  <2> QED
    BY <1>1, <2>1 DEF NumberInv
<1>3. ASSUME NEW r \in Req, N4!Install(r) PROVE RecoveryTypeOK' /\ NumberInv' /\ HoldInv'
  <2>1. installed' = installed \cup {r} /\ r \notin installed /\ outcome[r] # "idle"
    BY <1>3 DEF N4!Install
  <2>2. installed' \ installed = {r}
    BY <2>1
  <2>3. number[r] \in Number
    BY <2>1 DEF NumberInv
  <2>4. sessions' = [sessions EXCEPT ![number[r]] = r]
    BY <1>1, <2>2, <2>3 DEF ProgramStep
  <2>5. RecoveryTypeOK'
    BY <1>1, <2>3, <2>4
  <2>6. HoldInv'
    <3>1. installed \subseteq Req /\ NoRef # r
      BY NoRefAssumption DEF IInv, TypeOK, SmfTypeOK, N4!N4TypeOK
    <3>2. \A q \in installed' : number[q] \in Number
      BY <2>1, <2>3, <3>1 DEF NumberInv, IInv, PlaneInv, PlaneOK
    <3> QED
      BY <1>1, <2>1, <2>3, <2>4, <3>1, <3>2 DEF HoldInv
  <2> QED
    BY <1>2, <2>5, <2>6
<1>4. CASE ~\E r \in Req : N4!Install(r)
  <2>1. installed' = installed
    BY <1>4 DEF Uncalled, N4!Accept, N4!GiveUp
  <2>2. sessions' = sessions
    BY <2>1 DEF ProgramStep
  <2> QED
    BY <1>1, <1>2, <2>1, <2>2 DEF HoldInv
<1> QED
  BY <1>3, <1>4

LEMMA ProgramKeeps ==
  ASSUME RInv, ProgramStep
  PROVE  RInv'
<1>1. IInv(lost)'
  BY IInvOfProgram DEF RInv, ProgramStep, faultVars
<1>2. N4!N4Next \/ UNCHANGED <<outcome, installed>>
  BY StepsOfN4 DEF RInv, ProgramStep
<1>3. RecoveryTypeOK' /\ NumberInv' /\ HoldInv'
  <2>1. ASSUME NEW r \in Req, N4!Send(r) PROVE RecoveryTypeOK' /\ NumberInv' /\ HoldInv'
    BY <2>1, SendKeeps
  <2>2. CASE Uncalled
    BY <2>2, OthersKeep
  <2> QED
    BY <1>2, <2>1, <2>2 DEF N4!N4Next, Uncalled
<1> QED
  BY <1>1, <1>3 DEF RInv

-----------------------------------------------------------------------------
(* The faults. *)

(* The invariant says nothing of what the UPF holds.                        *)
LEMMA IInvStays ==
  ASSUME IInv(lost), UNCHANGED vars, lost' = lost
  PROVE  IInv(lost)'
  BY IInvOfProgram

(* A late copy of a datagram puts a session back under its own number.      *)
LEMMA ReinstallKeeps ==
  ASSUME RInv, NEW r \in Req, Reinstall(r)
  PROVE  RInv'
<1>1. /\ r \in installed /\ sessions' = [sessions EXCEPT ![number[r]] = r]
      /\ UNCHANGED <<vars, crashes, lost, counter, number>>
  BY DEF Reinstall, faultVars
<1>2. IInv(lost)'
  BY <1>1, IInvStays DEF RInv
<1>3. UNCHANGED <<outcome, installed>>
  BY <1>1 DEF vars, smfVars, n4Vars
<1>4. number[r] \in Number /\ NoRef # r
  BY <1>1, NoRefAssumption DEF RInv, RecoveryTypeOK, NumberInv, IInv, PlaneInv, PlaneOK
<1>5. RecoveryTypeOK'
  BY <1>1, <1>4 DEF RInv, RecoveryTypeOK
<1>6. NumberInv'
  BY <1>1, <1>3 DEF RInv, NumberInv, Asked
<1>7. HoldInv'
  BY <1>1, <1>3, <1>4 DEF RInv, RecoveryTypeOK, HoldInv
<1> QED
  BY <1>2, <1>5, <1>6, <1>7 DEF RInv

LEMMA RestartUpfKeeps ==
  ASSUME RInv, RestartUpf
  PROVE  RInv'
<1>1. /\ crashes' = [crashes EXCEPT !["UPF"] = @ + 1] /\ sessions' = [n \in Number |-> NoRef]
      /\ UNCHANGED <<vars, lost, counter, number>>
  BY DEF RestartUpf, Crash
<1>2. IInv(lost)'
  BY <1>1, IInvStays DEF RInv
<1>3. UNCHANGED <<outcome, installed>>
  BY <1>1 DEF vars, smfVars, n4Vars
<1>4. crashes' \in [NF -> Nat] /\ crashes'["UPF"] # 0 /\ crashes'["SMF"] = crashes["SMF"]
  BY <1>1 DEF RInv, RecoveryTypeOK, NF
<1> QED
  BY <1>1, <1>2, <1>3, <1>4 DEF RInv, RecoveryTypeOK, NumberInv, HoldInv, Asked

LEMMA CrashAmfKeeps ==
  ASSUME RInv, CrashAmf
  PROVE  RInv'
<1>1. /\ crashes' = [crashes EXCEPT !["AMF"] = @ + 1]
      /\ amfSessions' = [s \in Supi |-> NoRef]
      /\ trigger' = [r \in Req |-> IF trigger[r] = "waiting" THEN "error" ELSE trigger[r]]
      /\ step15' = [r \in Req |->
           IF step15[r].st = "setup" THEN [step15[r] EXCEPT !.st = "failed"] ELSE step15[r]]
      /\ UNCHANGED <<createCall, transfer, smfVars, lost, counter, number, sessions>>
  BY DEF CrashAmf, Crash, sbiVars
<1>2. UNCHANGED <<outcome, installed, queue, pc, job, cause, repo, successCounter, failCounter>>
  BY <1>1 DEF smfVars, n4Vars, poolVars, counters
<1>3. TypeOK'
  <2>1. AmfTypeOK'
    <3>1. \A r \in Req : step15'[r] \in [st : {"none", "setup", "done", "failed"}, ref : Req \cup {NoRef}]
      BY <1>1 DEF RInv, IInv, TypeOK, AmfTypeOK
    <3> QED
      BY <1>1, <3>1 DEF RInv, IInv, TypeOK, AmfTypeOK
  <2> QED
    BY <1>1, <1>2, <2>1 DEF RInv, IInv, TypeOK, SbiTypeOK, SmfTypeOK, N4!N4TypeOK
<1>4. TriggerInv'
  BY <1>1 DEF RInv, IInv, TypeOK, AmfTypeOK, TriggerInv
<1>5. MappingIsOwn'
  <2>1. \A r \in Req : step15'[r].ref = step15[r].ref
    BY <1>1 DEF RInv, IInv, TypeOK, AmfTypeOK
  <2> QED
    BY <1>1, <2>1 DEF RInv, IInv, MappingIsOwn, Accepted
<1>6. (JobInv /\ OneWorkerPerSession /\ PlaneInv /\ StepInv)'
  BY <1>1, <1>2
  DEF RInv, IInv, JobInv, OneWorkerPerSession, PlaneInv, PlaneOK, StepInv, StepOK,
      Open, Queued, Held, Accepted, Untouched, StageOf, Subscribed
<1>7. SettledBut(lost)'
  BY <1>1, <1>2 DEF RInv, IInv, SettledBut, Settled, Over, Open, Queued, Held, Accepted
<1>8. IInv(lost)'
  BY <1>3, <1>4, <1>5, <1>6, <1>7 DEF IInv
<1>9. crashes' \in [NF -> Nat] /\ crashes'["UPF"] = crashes["UPF"] /\ crashes'["SMF"] = crashes["SMF"]
  BY <1>1 DEF RInv, RecoveryTypeOK, NF
<1> QED
  BY <1>1, <1>2, <1>8, <1>9 DEF RInv, RecoveryTypeOK, NumberInv, HoldInv, Asked

(* What was open is excused; of the rest the rows and transfers are kept.   *)
LEMMA CrashSmfKeeps ==
  ASSUME RInv, CrashSmf
  PROVE  RInv'
<1>1. /\ crashes' = [crashes EXCEPT !["SMF"] = @ + 1]
      /\ lost' = lost \cup {r \in Req : Open(r)}
      /\ queue' = <<>> /\ pc' = [w \in Worker |-> "idle"] /\ job' = [w \in Worker |-> NoJob]
      /\ cause' = [w \in Worker |-> "none"]
      /\ outcome' = [r \in Req |-> IF outcome[r] = "waiting" THEN "failed" ELSE outcome[r]]
      /\ successCounter' = 0 /\ failCounter' = 0 /\ counter' = 0
      /\ UNCHANGED <<createCall, transfer, trigger, amfSessions, step15, installed, repo, number, sessions>>
  BY DEF CrashSmf, Crash, sbiVars, amfVars
<1>2. TypeOK'
  <2>1. /\ N4!N4TypeOK'
        /\ queue' \in Seq(Req)
        /\ pc' \in [Worker -> WorkerState] /\ job' \in [Worker -> Req \cup {NoJob}]
        /\ cause' \in [Worker -> Reason]
        /\ successCounter' \in Nat /\ failCounter' \in Nat
    BY <1>1 DEF RInv, IInv, TypeOK, SmfTypeOK, N4!N4TypeOK, N4!Outcome, WorkerState, Reason
  <2> QED
    BY <1>1, <2>1 DEF RInv, IInv, TypeOK, SbiTypeOK, AmfTypeOK, SmfTypeOK
<1>3. TriggerInv' /\ MappingIsOwn'
  BY <1>1 DEF RInv, IInv, TriggerInv, MappingIsOwn, Accepted
<1>4. \A r \in Req : ~Queued(r)' /\ ~Held(r)' /\ ~Open(r)'
  BY <1>1, SmfAssumption DEF Queued, Held, Open, Range
<1>5. JobInv' /\ OneWorkerPerSession' /\ StepInv'
  BY <1>1, <1>4 DEF JobInv, OneWorkerPerSession, StepInv, Failing
<1>6. /\ outcome \in [Req -> N4!Outcome]
      /\ \A r \in Req : outcome'[r] = IF outcome[r] = "waiting" THEN "failed" ELSE outcome[r]
  BY <1>1 DEF RInv, IInv, TypeOK, SmfTypeOK, N4!N4TypeOK
<1>7. PlaneInv'
  <2> SUFFICES ASSUME NEW r \in Req PROVE PlaneOK(r)'
    BY DEF PlaneInv
  <2>1. PlaneOK(r)
    BY DEF RInv, IInv, PlaneInv
  <2>2. Accepted(r)' <=> Accepted(r)
    BY <1>1 DEF Accepted
  <2> QED
    BY <1>1, <1>4, <1>6, <2>1, <2>2 DEF PlaneOK, Untouched, StageOf, Subscribed
<1>8. SettledBut(lost)'
  <2> SUFFICES ASSUME NEW r \in Req \ lost', Over(r)', ~DbMayFail PROVE Settled(r)'
    BY DEF SettledBut
  <2>1. r \notin lost /\ Over(r)
    BY <1>1 DEF Over, Accepted
  <2> QED
    BY <1>1, <2>1 DEF RInv, IInv, SettledBut, Settled
<1>9. IInv(lost)'
  BY <1>2, <1>3, <1>5, <1>7, <1>8 DEF IInv
<1>10. crashes' \in [NF -> Nat] /\ crashes'["UPF"] = crashes["UPF"] /\ crashes'["SMF"] # 0
  BY <1>1 DEF RInv, RecoveryTypeOK, NF
<1>11. RecoveryTypeOK'
  BY <1>1, <1>10 DEF RInv, RecoveryTypeOK
<1>12. NumberInv'
  <2>1. \A r \in Req : outcome'[r] = "idle" <=> outcome[r] = "idle"
    BY <1>6
  <2>2. Asked' = Asked
    BY <2>1 DEF Asked
  <2> QED
    BY <1>1, <1>10, <2>1, <2>2, AskedIsFinite DEF RInv, NumberInv
<1>13. HoldInv'
  BY <1>1, <1>10 DEF RInv, HoldInv
<1> QED
  BY <1>9, <1>11, <1>12, <1>13 DEF RInv

LEMMA RInvariance == RecoverySpec => []RInv
<1>1. RInv /\ [RecoveryNext]_recoveryVars => RInv'
  <2> SUFFICES ASSUME RInv, [RecoveryNext]_recoveryVars PROVE RInv'
    OBVIOUS
  <2>1. CASE UNCHANGED recoveryVars
    <3>1. UNCHANGED <<vars, crashes, lost, counter, number, sessions, outcome, installed>>
      BY <2>1 DEF recoveryVars, faultVars, vars, smfVars, n4Vars
    <3>2. IInv(lost)'
      BY <3>1, IInvStays DEF RInv
    <3> QED
      BY <3>1, <3>2 DEF RInv, RecoveryTypeOK, NumberInv, HoldInv, Asked
  <2> QED
    BY <2>1, ProgramKeeps, ReinstallKeeps, CrashSmfKeeps, RestartUpfKeeps, CrashAmfKeeps
    DEF RecoveryNext
<1> QED
  BY RInvInit, <1>1, PTL DEF RecoverySpec

-----------------------------------------------------------------------------
(* The theorems. *)

(* Types, of the programs and of what crashes do to them.                   *)
THEOREM RecoveryTypeCorrect == RecoverySpec => [](TypeOK /\ RecoveryTypeOK)
<1>1. RInv => TypeOK /\ RecoveryTypeOK
  BY DEF RInv, IInv
<1> QED
  BY <1>1, RInvariance, PTL

(* The rows are enough to find what is left in the UPF, however often       *)
(* anything crashed (service.go:188 before 229).                            *)
THEOREM CrashesLeaveRows == RecoverySpec => []InstalledHasRow
<1>1. RInv => InstalledHasRow
  BY DEF RInv, IInv, TypeOK, SmfTypeOK, N4!N4TypeOK, PlaneInv, PlaneOK, InstalledHasRow
<1> QED
  BY <1>1, RInvariance, PTL

(* Only the requests open at a crash of the SMF stay unsettled              *)
(* (service.go:126-149).                                                    *)
THEOREM SurvivorsSettle == RecoverySpec => []SurvivorsAreSettled
<1>1. RInv => SurvivorsAreSettled
  BY DEF RInv, IInv, SettledBut, Settled, SurvivorsAreSettled
<1> QED
  BY <1>1, RInvariance, PTL

(* A session leaves the UPF only by a restart of the UPF, or for another    *)
(* one with its number, and then the SMF was restarted (upf/server.go:107). *)
THEOREM SessionsLeaveByRestart == RecoverySpec => []LeavesOnlyByRestart
<1>1. RInv => LeavesOnlyByRestart
  <2> SUFFICES ASSUME RInv, NEW r \in installed, ~HeldByUpf(r), ~(crashes["UPF"] > 0)
               PROVE  crashes["SMF"] > 0 /\ \E q \in installed \ {r} : number[q] = number[r]
    BY DEF LeavesOnlyByRestart
  <2>1. r \in Req /\ number[r] \in Number /\ crashes \in [NF -> Nat] /\ number[r] # 0
    BY Numbers DEF RInv, RecoveryTypeOK, NumberInv, IInv, TypeOK, SmfTypeOK, N4!N4TypeOK, PlaneInv, PlaneOK
  <2>2. crashes["UPF"] = 0 /\ crashes["SMF"] \in Nat
    BY <2>1 DEF NF
  <2>3. sessions[number[r]] \in installed /\ number[sessions[number[r]]] = number[r]
    BY <2>1, <2>2 DEF RInv, HoldInv
  <2>4. sessions[number[r]] # r
    BY <2>1 DEF HeldByUpf
  <2>5. crashes["SMF"] # 0
    BY <2>1, <2>3, <2>4 DEF RInv, NumberInv, IInv, TypeOK, SmfTypeOK, N4!N4TypeOK
  <2> QED
    BY <2>2, <2>3, <2>4, <2>5
<1> QED
  BY <1>1, RInvariance, PTL
=============================================================================
