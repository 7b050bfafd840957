---------------------------- MODULE N4Transaction ----------------------------
(***************************************************************************)
(* What the N4 layer (SMF PFCP client, UDP, UPF) promises the SMF workers: *)
(* one SendSessionEstablishmentRequest per call, which returns exactly     *)
(* once, successfully only if the UPF holds the session of that very call. *)
(* An unsuccessful call promises nothing: the UPF may hold its session, or *)
(* come to hold it later (the request is still on the wire), and it is     *)
(* never taken out again, since no PFCP deletion exists.                   *)
(***************************************************************************)
CONSTANT Call           \* establishment calls, one per PDU session job

VARIABLES outcome,      \* what the caller knows of its call
          installed     \* calls whose session the UPF holds

n4Vars == <<outcome, installed>>

Outcome == {"idle", "waiting", "ok", "failed"}

N4TypeOK ==
  /\ outcome \in [Call -> Outcome]
  /\ installed \in SUBSET Call

N4Init ==
  /\ outcome = [c \in Call |-> "idle"]
  /\ installed = {}

Move(c, from, to) ==
  /\ outcome[c] = from
  /\ outcome' = [outcome EXCEPT ![c] = to]

(* A worker calls SendSessionEstablishmentRequest. *)
Send(c) == Move(c, "idle", "waiting") /\ UNCHANGED installed

(* The UPF handles the request; this may also happen after the caller gave up. *)
Install(c) ==
  /\ outcome[c] # "idle"
  /\ c \notin installed
  /\ installed' = installed \cup {c}
  /\ UNCHANGED outcome

(* The call returns a response with cause 1. *)
Accept(c) == c \in installed /\ Move(c, "waiting", "ok") /\ UNCHANGED installed

(* The call returns an error: no answer within two seconds, or no packet sent. *)
GiveUp(c) == Move(c, "waiting", "failed") /\ UNCHANGED installed

N4Next == \E c \in Call : Send(c) \/ Install(c) \/ Accept(c) \/ GiveUp(c)

N4Spec == N4Init /\ [][N4Next]_n4Vars
=============================================================================
