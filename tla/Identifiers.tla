------------------------------ MODULE Identifiers ------------------------------
(***************************************************************************)
(* The identifiers the SMF gives to a session before it is queued           *)
(* (internal/smf/handler.go, CreateSMContext): the SM context reference,    *)
(* made of the time and of a counter, and the address of AllocateIP         *)
(* (internal/smf/service.go).  Handlers run side by side, and a restart of  *)
(* the pod puts both counters back while the rows of the old sessions stay. *)
(*                                                                         *)
(* The clock is UnixNano, taken to go on over a restart, which takes longer *)
(* than a nanosecond.  smContextCounter has 64 bits and does not come to    *)
(* its end.  A byte has Base values, 256 in the code.                       *)
(***************************************************************************)
EXTENDS Integers, FiniteSets

CONSTANTS
  Req,          \* CreateSMContext requests
  Base,         \* values of a byte
  First,        \* initial ipCounter, 10.11.22.1 in the code
  MaxClock,     \* bounds on the time and on the restarts of a behaviour
  MaxRestarts

Addresses == Base * Base * Base * Base

ASSUME IdentifierAssumption ==
  /\ Base \in Nat \ {0}
  /\ First \in 0 .. (Addresses - 1)
  /\ MaxClock \in Nat /\ MaxRestarts \in Nat

VARIABLES
  clock,
  boots,           \* restarts of the pod so far
  counter,         \* smContextCounter
  ipCounter,
  place,           \* how far the handler of each request is
  boot,            \* the incarnation of the pod it runs in
  stamp, number,   \* the two parts of its reference
  address          \* the counter value its address is made of

podVars == <<clock, boots, counter, ipCounter>>
reqVars == <<place, boot, stamp, number, address>>
identifierVars == <<podVars, reqVars>>

Progress == {"none", "stamped", "numbered", "addressed", "dropped"}

IdentifiersTypeOK ==
  /\ clock \in Nat /\ boots \in Nat
  /\ counter \in Nat /\ ipCounter \in 0 .. (Addresses - 1)
  /\ place \in [Req -> Progress]
  /\ boot \in [Req -> Nat]
  /\ stamp \in [Req -> Nat]
  /\ number \in [Req -> Nat]
  /\ address \in [Req -> 0 .. (Addresses - 1)]

IdentifiersInit ==
  /\ clock = 0 /\ boots = 0
  /\ counter = 0 /\ ipCounter = First
  /\ place = [r \in Req |-> "none"]
  /\ boot = [r \in Req |-> 0]
  /\ stamp = [r \in Req |-> 0]
  /\ number = [r \in Req |-> 0]
  /\ address = [r \in Req |-> 0]

Advance(r, from, to) ==
  /\ place[r] = from
  /\ place' = [place EXCEPT ![r] = to]

(* Mutant: the reference has no time in it. *)
ReadNothing(r) ==
  /\ Advance(r, "none", "stamped")
  /\ boot' = [boot EXCEPT ![r] = boots]
  /\ UNCHANGED <<podVars, stamp, number, address>>

ReadClock(r) ==
  /\ Advance(r, "none", "stamped")
  /\ boot' = [boot EXCEPT ![r] = boots]
  /\ stamp' = [stamp EXCEPT ![r] = clock]
  /\ UNCHANGED <<podVars, number, address>>

Count(r) ==
  /\ Advance(r, "stamped", "numbered")
  /\ counter' = counter + 1
  /\ number' = [number EXCEPT ![r] = counter']
  /\ UNCHANGED <<clock, boots, ipCounter, boot, stamp, address>>

AllocateIP(r) ==
  /\ Advance(r, "numbered", "addressed")
  /\ ipCounter' = (ipCounter + 1) % Addresses
  /\ address' = [address EXCEPT ![r] = ipCounter']
  /\ UNCHANGED <<clock, boots, counter, boot, stamp, number>>

Tick ==
  /\ clock < MaxClock
  /\ clock' = clock + 1
  /\ UNCHANGED <<boots, counter, ipCounter, reqVars>>

(* The handlers of the old process go with it; rows and references made     *)
(* stay.                                                                    *)
Restart ==
  /\ clock < MaxClock /\ boots < MaxRestarts
  /\ clock' = clock + 1
  /\ boots' = boots + 1
  /\ counter' = 0 /\ ipCounter' = First
  /\ place' = [r \in Req |-> IF place[r] \in {"stamped", "numbered"} THEN "dropped" ELSE place[r]]
  /\ UNCHANGED <<boot, stamp, number, address>>

IdentifiersNext ==
  \/ \E r \in Req : ReadClock(r) \/ Count(r) \/ AllocateIP(r)
  \/ Tick \/ Restart

IdentifiersSpec == IdentifiersInit /\ [][IdentifiersNext]_identifierVars

-----------------------------------------------------------------------------
(* Mutant: two shifts by the same number of bits. *)
OctetsShifted(val) ==
  <<val \div (Base * Base * Base) % Base, val \div (Base * Base) % Base,
    val \div Base % Base, val \div Base % Base>>

(* The bytes of the address, big-endian. *)
Octets(val) ==
  <<val \div (Base * Base * Base) % Base, val \div (Base * Base) % Base, val \div Base % Base, val % Base>>

HasRef(r) == place[r] \in {"numbered", "addressed"}

(* No two references of one pod are equal, over all its restarts, so that   *)
(* the primary key holds (handler.go:42-43, "to avoid PK collisions across  *)
(* pod restarts").                                                          *)
RefsAreUnique ==
  \A r, s \in Req : HasRef(r) /\ HasRef(s) /\ r # s => <<stamp[r], number[r]>> # <<stamp[s], number[s]>>

(* No address is given out twice by one process before all of them have     *)
(* been; the counter passes its end (service.go:94-103).                    *)
AddressesAreUnique ==
  \A r, s \in Req :
    /\ place[r] = "addressed" /\ place[s] = "addressed" /\ r # s
    /\ boot[r] = boot[s]
    /\ Cardinality({q \in Req : place[q] = "addressed" /\ boot[q] = boot[r]}) <= Addresses
    => Octets(address[r]) # Octets(address[s])
=============================================================================
