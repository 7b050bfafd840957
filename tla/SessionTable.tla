------------------------------ MODULE SessionTable ------------------------------
(***************************************************************************)
(* What SessionRepository (internal/smf/db.go) promises to the goroutines   *)
(* that call it, in memory or on PostgreSQL.                                *)
(*                                                                         *)
(* A write takes place at one moment between its call and its return, with  *)
(* all its fields, or not at all; the caller who hears of no error knows    *)
(* that it did, but not that an update found a row to change.  A read       *)
(* answers with rows of one moment, and a listing or a count may leave rows *)
(* out.                                                                     *)
(***************************************************************************)
EXTENDS SessionRows

CONSTANT User     \* those who call

VARIABLES
  table,
  phase, call,   \* where each caller is, and what it called last
  held,          \* what a call found or did when it took place
  answer         \* what it returned

tableVars == <<table, phase, call, held, answer>>

IsWrite(u) == call[u].op \in Writes

TableInit ==
  /\ table \in Tables
  /\ phase = [u \in User |-> "idle"]
  /\ call \in [User -> Call]
  /\ held = [u \in User |-> NoResult]
  /\ answer = [u \in User |-> NoResult]

Begin(u) ==
  /\ phase[u] = "idle"
  /\ phase' = [phase EXCEPT ![u] = "called"]
  /\ \E c \in Call : call' = [call EXCEPT ![u] = c]
  /\ answer' = [answer EXCEPT ![u] = NoResult]
  /\ UNCHANGED <<table, held>>

Write(u) ==
  /\ IsWrite(u)
  /\ table' = After(table, call[u])
  /\ \E ok \in BOOLEAN : held' = [held EXCEPT ![u].ok = ok]

Fail(u) == UNCHANGED <<table, held>>

Read(u) ==
  /\ ~IsWrite(u)
  /\ \E S \in SUBSET (call[u].refs \cap DOMAIN table) :
       held' = [held EXCEPT ![u].rows = Restrict(table, S)]
  /\ UNCHANGED table

Take(u) ==
  /\ phase[u] = "called"
  /\ phase' = [phase EXCEPT ![u] = "taken"]
  /\ Write(u) \/ Fail(u) \/ Read(u)
  /\ UNCHANGED <<call, answer>>

Answer(u, ok, rows) == answer' = [answer EXCEPT ![u] = [ok |-> ok, rows |-> rows]]

(* What is answered was held; a single row is answered whole or not at all. *)
AnswerRows(u) ==
  /\ ~IsWrite(u)
  /\ \E S \in SUBSET DOMAIN held[u].rows :
       /\ call[u].op = "get" => S = call[u].refs
       /\ Answer(u, TRUE, Restrict(held[u].rows, S))

End(u) ==
  /\ phase[u] = "taken"
  /\ phase' = [phase EXCEPT ![u] = "idle"]
  /\ Answer(u, IsWrite(u) /\ held[u].ok, EmptyTable) \/ AnswerRows(u)
  /\ held' = [held EXCEPT ![u] = NoResult]
  /\ UNCHANGED <<table, call>>

TableNext == \E u \in User : Begin(u) \/ Take(u) \/ End(u)

TableSpec == TableInit /\ [][TableNext]_tableVars
=============================================================================
