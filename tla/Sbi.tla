--------------------------------- MODULE Sbi ---------------------------------
(***************************************************************************)
(* The service-based interface between AMF and SMF: the HTTP exchanges the  *)
(* two share.  An exchange is one POST; its state is what the server has    *)
(* done with it.  A client that gave up (5 s in both programs) no longer    *)
(* looks at the answer, but the server may still handle the request.  A     *)
(* request that is never handled is lost.                                   *)
(*                                                                         *)
(* A request is named by the trigger it comes from.  The smContextRef that  *)
(* the SMF generates for it is unique, so the request stands for it too.    *)
(***************************************************************************)
CONSTANTS
  Req,         \* PDU session establishments triggered at the AMF
  Supi,        \* subscribers
  Profile,     \* dnn and S-NSSAI, as requested or as subscribed
  SupiOf,      \* the subscriber each request is for
  ProfileOf    \* the profile each request asks for

ASSUME SbiAssumption ==
  /\ SupiOf \in [Req -> Supi]
  /\ ProfileOf \in [Req -> Profile]

VARIABLES
  createCall,  \* Step 3 and 5: CreateSMContext and its answer
  transfer     \* Step 11: the N1N2 transfers of a request, one per status

sbiVars == <<createCall, transfer>>

TransferStatus == {"ACTIVE", "FAILED"}

SbiTypeOK ==
  /\ createCall \in [Req -> {"none", "sent", "created", "congested"}]
  /\ transfer \in [Req -> [TransferStatus -> {"none", "sent", "ok", "notfound"}]]

SbiInit ==
  /\ createCall = [r \in Req |-> "none"]
  /\ transfer = [r \in Req |-> [t \in TransferStatus |-> "none"]]

SendTransfer(r, t) == transfer' = [transfer EXCEPT ![r][t] = "sent"]

AnswerTransfer(r, t, answer) ==
  /\ transfer[r][t] = "sent"
  /\ transfer' = [transfer EXCEPT ![r][t] = answer]

AnswerCreate(r, answer) ==
  /\ createCall[r] = "sent"
  /\ createCall' = [createCall EXCEPT ![r] = answer]
=============================================================================
