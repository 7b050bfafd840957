------------------------------ MODULE MCRecovery ------------------------------
(* Constants of Recovery for TLC. *)
EXTENDS Recovery

CONSTANTS r1, r2, r3, alice, internet, w1, w2

(* All requests are of one subscriber, with the profile it has.             *)
Supis == [r \in Req |-> alice]
Profiles == [r \in Req |-> internet]
Subscriptions == [s \in Supi |-> internet]

EachOnce == [nf \in NF |-> 1]
=============================================================================
