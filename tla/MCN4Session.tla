------------------------------ MODULE MCN4Session ------------------------------
(***************************************************************************)
(* The N4 layer for TLC: N4Session, or the server of the UPF byte by byte.  *)
(* One of the two moves, the other stays where it begins.                   *)
(***************************************************************************)
EXTENDS N4Session, UpfServer

CONSTANTS c1, c2, c3, s1, s2, ip1, ip2, ip3, g1, g2, g3

Ips == [c \in Call |-> CASE c = c1 -> ip1 [] c = c2 -> ip2 [] c = c3 -> ip3]

(* One pod makes every call. *)
OnePod == [c \in Call |-> s1]

(* Two pods of the deployment, or a pod before and after its restart. *)
TwoPods == [c \in Call |-> IF c = c1 THEN s1 ELSE s2]

-----------------------------------------------------------------------------
FirstIp == <<10, 11, 22, 2>>
LastIp == <<255, 255, 255, 255>>

(* Numbers at the boundaries of a byte, and what is no request: too short   *)
(* for its type, too short for any, of another version, an answer.          *)
SomeDatagrams ==
  {EncodeRequest(EstablishmentRequest, 255, FirstIp),
   EncodeRequest(EstablishmentRequest, 65536, LastIp),
   EncodeRequest(ModificationRequest, 255, LastIp),
   EncodeRequest(ModificationRequest, 16777217, FirstIp),
   SubSeq(EncodeRequest(EstablishmentRequest, 256, FirstIp), 1, 12),
   <<Flags>>,
   <<33>> \o Tail(EncodeRequest(EstablishmentRequest, 257, FirstIp)),
   EncodeResponse(EstablishmentResponse, 258, 1) \o <<0, 0, 0, 0>>}

N4Begins == \A c \in Call : pc[c] = "idle"
UpfBegins == loop = "reading" /\ taken = {}

AllInit == Init /\ UpfInit

AllNext ==
  \/ Next /\ UpfBegins /\ UNCHANGED upfVars
  \/ UpfNext /\ N4Begins /\ UNCHANGED n4sVars

AllSpec == AllInit /\ [][AllNext]_<<n4sVars, upfVars>>
FairAllSpec == AllSpec /\ Fairness
=============================================================================
