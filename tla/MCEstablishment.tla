--------------------------- MODULE MCEstablishment ---------------------------
(* Constants of Establishment for TLC. *)
EXTENDS Establishment, TLC

CONSTANTS r1, r2, r3,              \* requests
          alice, bob,              \* subscribers
          internet, ims,           \* profiles
          w1, w2                   \* workers

(* r1 and r2 are sessions of one subscriber, r3 asks for a profile that its *)
(* subscriber does not have.                                                *)
Supis == [r \in Req |-> IF r = r3 THEN bob ELSE alice]
Profiles == [r \in Req |-> internet]
Subscriptions == [s \in Supi |-> IF s = alice THEN internet ELSE ims]

WorkerSymmetry == Permutations(Worker)
=============================================================================
