-------------------------- MODULE SessionLifecycle ---------------------------
(***************************************************************************)
(* What the SMF promises about a PDU session to those who read its          *)
(* database and its answers (dashboard, /api/stats, the load tester).       *)
(*                                                                         *)
(* A request is rejected for good or accepted.  An accepted session shows   *)
(* up as creating, becomes active at most once, only when the user plane    *)
(* has it, and a failed session stays failed.                               *)
(***************************************************************************)
CONSTANT Session

VARIABLES phase, plane

Phase == {"absent", "rejected", "accepted", "creating", "active", "failed"}

LifecycleInit ==
  /\ phase = [r \in Session |-> "absent"]
  /\ plane = {}

Become(r, from, to) ==
  /\ phase[r] \in from
  /\ phase' = [phase EXCEPT ![r] = to]
  /\ UNCHANGED plane

Reject(r) == Become(r, {"absent"}, "rejected")
Accept(r) == Become(r, {"absent"}, "accepted")
Create(r) == Become(r, {"accepted"}, "creating")
Activate(r) == r \in plane /\ Become(r, {"creating"}, "active")
Fail(r) == Become(r, {"creating", "active"}, "failed")

(* The user plane gets a session only while or after it is created. *)
Install(r) ==
  /\ phase[r] \in {"creating", "active", "failed"}
  /\ r \notin plane
  /\ plane' = plane \cup {r}
  /\ UNCHANGED phase

LifecycleNext ==
  \E r \in Session :
    Reject(r) \/ Accept(r) \/ Create(r) \/ Activate(r) \/ Fail(r) \/ Install(r)

LifecycleSpec == LifecycleInit /\ [][LifecycleNext]_<<phase, plane>>
=============================================================================
