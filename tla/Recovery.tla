-------------------------------- MODULE Recovery --------------------------------
(***************************************************************************)
(* Establishment when the processes crash and are started again.  The SMF   *)
(* loses its queue, the jobs in progress and all its counters, the UPF its  *)
(* sessions, the AMF its map and the handlers in progress; PostgreSQL keeps *)
(* the rows.  No program reads anything back when it starts.                *)
(*                                                                         *)
(* `installed' says what the UPF has answered for, `sessions' what it holds *)
(* now.  The two differ after a restart of the UPF, and after one of the    *)
(* SMF, whose PFCP client counts from 1 again on a new port while the UPF   *)
(* keys its sessions by sequence number alone.                              *)
(***************************************************************************)
EXTENDS Establishment

CONSTANT MaxCrashes     \* bound of the model: crashes of each network function

NF == {"AMF", "SMF", "UPF"}
Number == 1 .. Cardinality(Req)

ASSUME RecoveryAssumption ==
  /\ IsFiniteSet(Req) /\ IsFiniteSet(Worker)
  /\ MaxCrashes \in [NF -> Nat]

VARIABLES
  crashes,     \* of each network function
  lost,        \* accepted requests in the queue or with a worker at a crash
  counter,     \* seqCounter of the SMF's PFCP client
  number,      \* the sequence number of each request's call, 0 before it
  sessions     \* the UPF's sessions, by sequence number

faultVars == <<crashes, lost>>
recoveryVars == <<vars, faultVars, counter, number, sessions>>

RecoveryTypeOK ==
  /\ crashes \in [NF -> Nat]
  /\ lost \in SUBSET Req
  /\ counter \in {0} \cup Number
  /\ number \in [Req -> {0} \cup Number]
  /\ sessions \in [Number -> Req \cup {NoRef}]

RecoveryInit ==
  /\ Init
  /\ crashes = [nf \in NF |-> 0]
  /\ lost = {}
  /\ counter = 0
  /\ number = [r \in Req |-> 0]
  /\ sessions = [n \in Number |-> NoRef]

HeldByUpf(r) == \E n \in Number : sessions[n] = r

-----------------------------------------------------------------------------
(* The steps of the programs, with the numbers they use. *)

Crash(nf) ==
  /\ crashes[nf] < MaxCrashes[nf]
  /\ crashes' = [crashes EXCEPT ![nf] = @ + 1]

(* Mutant: the counter is added to in a copy of the client. *)
CounterAfterStuck(calls) == counter

CounterAfter(calls) == counter + Cardinality(calls)

(* SendPfcp takes the next number, Install stores under the number. *)
ProgramStep ==
  LET Called == {r \in Req : outcome[r] = "idle" /\ outcome'[r] = "waiting"}
      New == installed' \ installed
  IN
  /\ Next
  /\ counter' = CounterAfter(Called)
  /\ number' = [r \in Req |-> IF r \in Called THEN counter + 1 ELSE number[r]]
  /\ sessions' = [n \in Number |->
       IF \E r \in New : number[r] = n THEN CHOOSE r \in New : number[r] = n ELSE sessions[n]]
  /\ UNCHANGED faultVars

(* A second or late copy of a request's datagram arrives. *)
Reinstall(r) ==
  /\ r \in installed
  /\ sessions[number[r]] # r
  /\ sessions' = [sessions EXCEPT ![number[r]] = r]
  /\ UNCHANGED <<vars, faultVars, counter, number>>

-----------------------------------------------------------------------------
(* Crashes, each with the start that follows it. *)

(* Exchanges on the wire stay there; nobody waits for their answers now.    *)
CrashSmf ==
  /\ Crash("SMF")
  /\ lost' = lost \cup {r \in Req : Open(r)}
  /\ queue' = <<>>
  /\ pc' = [w \in Worker |-> "idle"]
  /\ job' = [w \in Worker |-> NoJob]
  /\ cause' = [w \in Worker |-> "none"]
  /\ outcome' = [r \in Req |-> IF outcome[r] = "waiting" THEN "failed" ELSE outcome[r]]
  /\ successCounter' = 0 /\ failCounter' = 0
  /\ counter' = 0
  /\ UNCHANGED <<sbiVars, amfVars, installed, repo, number, sessions>>

RestartUpf ==
  /\ Crash("UPF")
  /\ sessions' = [n \in Number |-> NoRef]
  /\ UNCHANGED <<vars, lost, counter, number>>

CrashAmf ==
  /\ Crash("AMF")
  /\ amfSessions' = [s \in Supi |-> NoRef]
  /\ trigger' = [r \in Req |-> IF trigger[r] = "waiting" THEN "error" ELSE trigger[r]]
  /\ step15' = [r \in Req |->
       IF step15[r].st = "setup" THEN [step15[r] EXCEPT !.st = "failed"] ELSE step15[r]]
  /\ UNCHANGED <<sbiVars, smfVars, lost, counter, number, sessions>>

RecoveryNext ==
  \/ ProgramStep
  \/ \E r \in Req : Reinstall(r)
  \/ CrashSmf \/ RestartUpf \/ CrashAmf

RecoverySpec == RecoveryInit /\ [][RecoveryNext]_recoveryVars

-----------------------------------------------------------------------------
(* The database knows of every session the UPF ever held, whatever crashed  *)
(* when: the row is written before the PFCP request is sent and never       *)
(* deleted, so the rows are enough to find what a crash has left in the UPF *)
(* (service.go:188 before 229).                                             *)
InstalledHasRow == \A r \in installed : repo[r].status # "NONE"

(* A crash of any program concerns only the requests that were open at a    *)
(* crash of the SMF: every other accepted request ends as without crashes,  *)
(* active and confirmed by the AMF or failed and notified, also when the    *)
(* AMF lost its map or the UPF its sessions meanwhile (service.go:126-149). *)
SurvivorsAreSettled ==
  \A r \in Req : Over(r) /\ r \notin lost /\ ~DbMayFail =>
    \/ repo[r].status = "ACTIVE" /\ transfer[r]["ACTIVE"] = "ok" /\ transfer[r]["FAILED"] = "none"
    \/ repo[r].status = "FAILED" /\ transfer[r]["FAILED"] # "none"

(* No session that was once reported as established leaves the UPF unless   *)
(* the UPF restarts, or the SMF does, after which two requests may have one *)
(* number (pfcp_client.go:112, upf/server.go:107).                          *)
LeavesOnlyByRestart ==
  \A r \in installed : ~HeldByUpf(r) =>
    \/ crashes["UPF"] > 0
    \/ /\ crashes["SMF"] > 0
       /\ \E q \in installed \ {r} : number[q] = number[r]

=============================================================================
