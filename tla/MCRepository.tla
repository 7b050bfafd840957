------------------------------ MODULE MCRepository ------------------------------
(***************************************************************************)
(* The session store for TLC: the one in memory, the one on PostgreSQL, or  *)
(* the references and addresses of the sessions it stores.  One of the      *)
(* three moves, the others stay where they begin.                           *)
(***************************************************************************)
EXTENDS MemoryRepository, PostgresRepository, Identifiers

CONSTANTS
  u1, u2, u3, r1, r2, q1, q2, q3,   \* goroutines, references, requests
  MaxPgCalls                        \* bound on the calls to PostgreSQL

VARIABLE pgCalls                    \* such calls so far

MemoryBegins == calls = 0
PostgresBegins == pgCalls = 0 /\ DOMAIN pduSessions = {}
RequestsBegin == clock = 0 /\ \A r \in Req : place[r] = "none"

AllInit == Init /\ PgInit /\ IdentifiersInit /\ pgCalls = 0

BoundedPgNext ==
  \E u \in PgUser :
    \/ PgInvoke(u) /\ pgCalls < MaxPgCalls /\ pgCalls' = pgCalls + 1
    \/ PgStep(u) /\ UNCHANGED pgCalls

AllNext ==
  \/ Next /\ PostgresBegins /\ RequestsBegin /\ UNCHANGED <<pgVars, pgCalls, identifierVars>>
  \/ BoundedPgNext /\ MemoryBegins /\ RequestsBegin /\ UNCHANGED <<vars, identifierVars>>
  \/ IdentifiersNext /\ MemoryBegins /\ PostgresBegins /\ UNCHANGED <<vars, pgVars, pgCalls>>

AllSpec == AllInit /\ [][AllNext]_<<vars, pgVars, pgCalls, identifierVars>>
=============================================================================
