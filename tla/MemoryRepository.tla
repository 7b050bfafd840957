---------------------------- MODULE MemoryRepository ----------------------------
(***************************************************************************)
(* InMemoryRepository (internal/smf/db.go): a map from references to        *)
(* records, used by handlers and workers under one sync.RWMutex.  The       *)
(* fields of a record are assigned one after the other, and the records are *)
(* copied one after the other.                                              *)
(*                                                                         *)
(* UpdateSessionStatus has no caller.  Of the mutex only the exclusion is   *)
(* modelled, not that a waiting writer holds up later readers.              *)
(***************************************************************************)
EXTENDS SessionRows, Naturals

CONSTANTS
  User,       \* goroutines of the SMF
  NoUser,     \* nobody holds the lock for writing
  MaxCalls    \* bound on the calls of a behaviour

ASSUME MemoryAssumption ==
  /\ NoUser \notin User
  /\ MaxCalls \in Nat

VARIABLES
  sessions,          \* the map
  writer, readers,   \* the mutex
  pc, call,          \* where each goroutine is and what it called last
  left,              \* rows its loop has still to visit
  acc,               \* what its call is going to return, or returned
  calls

mutex == <<writer, readers>>
vars == <<sessions, mutex, pc, call, left, acc, calls>>

Place == {"idle", "locking", "looking", "assigning", "reading", "unlocking"}
IsWrite(u) == call[u].op \in Writes
Target(u) == CHOOSE r \in Ref : call[u].refs = {r}

TypeOK ==
  /\ sessions \in Tables
  /\ writer \in User \cup {NoUser} /\ readers \in SUBSET User
  /\ pc \in [User -> Place]
  /\ call \in [User -> Call]
  /\ left \in [User -> SUBSET Ref]
  /\ acc \in [User -> Result]
  /\ calls \in 0 .. MaxCalls

Init ==
  /\ sessions = EmptyTable
  /\ writer = NoUser /\ readers = {}
  /\ pc = [u \in User |-> "idle"]
  /\ call = [u \in User |-> [op |-> "list", refs |-> Ref]]
  /\ left = [u \in User |-> {}]
  /\ acc = [u \in User |-> NoResult]
  /\ calls = 0

Move(u, from, to) ==
  /\ pc[u] = from
  /\ pc' = [pc EXCEPT ![u] = to]

Invoke(u) ==
  /\ calls < MaxCalls
  /\ Move(u, "idle", "locking")
  /\ \E c \in Call : call' = [call EXCEPT ![u] = c]
  /\ acc' = [acc EXCEPT ![u] = NoResult]
  /\ calls' = calls + 1
  /\ UNCHANGED <<sessions, mutex, left>>

(* Mutant: the update takes the lock of a reader. *)
LockShared(u) ==
  /\ IsWrite(u)
  /\ writer = NoUser
  /\ readers' = readers \cup {u}
  /\ Move(u, "locking", "looking")
  /\ UNCHANGED <<sessions, writer, call, left, acc, calls>>

Lock(u) ==
  /\ IsWrite(u)
  /\ writer = NoUser /\ readers = {}
  /\ writer' = u
  /\ Move(u, "locking", "looking")
  /\ UNCHANGED <<sessions, readers, call, left, acc, calls>>

RLock(u) ==
  /\ ~IsWrite(u)
  /\ writer = NoUser
  /\ readers' = readers \cup {u}
  /\ Move(u, "locking", "reading")
  /\ left' = [left EXCEPT ![u] = call[u].refs \cap DOMAIN sessions]
  /\ acc' = [acc EXCEPT ![u].ok = (call[u].op = "get" => call[u].refs \subseteq DOMAIN sessions)]
  /\ UNCHANGED <<sessions, writer, call, calls>>

(* SaveSession stores a copy of the record, whether one is there or not. *)
Save(u) ==
  /\ call[u].op = "save"
  /\ Move(u, "looking", "unlocking")
  /\ sessions' = After(sessions, call[u])
  /\ acc' = [acc EXCEPT ![u].ok = TRUE]
  /\ UNCHANGED <<mutex, call, left, calls>>

NotFound(u) ==
  /\ Move(u, "looking", "unlocking")
  /\ call[u].op # "save" /\ Target(u) \notin DOMAIN sessions
  /\ UNCHANGED <<sessions, mutex, call, left, acc, calls>>

AssignStatus(u) ==
  /\ Move(u, "looking", "assigning")
  /\ call[u].op # "save" /\ Target(u) \in DOMAIN sessions
  /\ LET new == Updated(sessions[Target(u)], call[u].op)
     IN  sessions' = [sessions EXCEPT ![Target(u)].status = new.status]
  /\ UNCHANGED <<mutex, call, left, acc, calls>>

AssignRest(u) ==
  /\ Move(u, "assigning", "unlocking")
  /\ sessions' = [sessions EXCEPT ![Target(u)] = Updated(@, call[u].op)]
  /\ acc' = [acc EXCEPT ![u].ok = TRUE]
  /\ UNCHANGED <<mutex, call, left, calls>>

CopyRow(u) ==
  /\ pc[u] = "reading"
  /\ \E r \in left[u] :
       /\ acc' = [acc EXCEPT ![u].rows = With(@, r, sessions[r])]
       /\ left' = [left EXCEPT ![u] = @ \ {r}]
  /\ UNCHANGED <<sessions, mutex, pc, call, calls>>

AllCopied(u) ==
  /\ left[u] = {}
  /\ Move(u, "reading", "unlocking")
  /\ UNCHANGED <<sessions, mutex, call, left, acc, calls>>

(* The deferred unlock, and the return. *)
Unlock(u) ==
  /\ Move(u, "unlocking", "idle")
  /\ writer' = IF writer = u THEN NoUser ELSE writer
  /\ readers' = readers \ {u}
  /\ UNCHANGED <<sessions, call, left, acc, calls>>

Step(u) ==
  \/ Lock(u) \/ RLock(u)
  \/ Save(u) \/ NotFound(u) \/ AssignStatus(u) \/ AssignRest(u)
  \/ CopyRow(u) \/ AllCopied(u)
  \/ Unlock(u)

Next == \E u \in User : Invoke(u) \/ Step(u)

Spec == Init /\ [][Next]_vars

-----------------------------------------------------------------------------
(* A write takes place when it gets the lock, with all its fields; a read   *)
(* finds the rows as they are for as long as it holds its lock.             *)
Writing == {u \in User : IsWrite(u) /\ pc[u] \in {"looking", "assigning", "unlocking"}}

TableNow == IF writer \in Writing THEN After(sessions, call[writer]) ELSE sessions

Found(u) ==
  IF IsWrite(u)
    THEN [ok |-> call[u].op = "save" \/ call[u].refs \subseteq DOMAIN sessions, rows |-> EmptyTable]
    ELSE [ok |-> FALSE, rows |-> Restrict(sessions, call[u].refs \cap DOMAIN sessions)]

PhaseNow ==
  [u \in User |->
     CASE pc[u] = "idle" -> "idle" [] pc[u] = "locking" -> "called" [] OTHER -> "taken"]

HeldNow == [u \in User |-> IF pc[u] \in {"idle", "locking"} THEN NoResult ELSE Found(u)]

AnswerNow == [u \in User |-> IF pc[u] = "idle" THEN acc[u] ELSE NoResult]

Table == INSTANCE SessionTable WITH
  table <- TableNow, phase <- PhaseNow, held <- HeldNow, answer <- AnswerNow

(* Concurrent calls behave like calls on a table that happen one at a time: *)
(* nobody sees a record whose status and address or reason are of different *)
(* updates (db.go:39-128).                                                  *)
ImplementsTable == Table!TableSpec
=============================================================================
