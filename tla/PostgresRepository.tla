--------------------------- MODULE PostgresRepository ---------------------------
(***************************************************************************)
(* PostgresRepository (internal/smf/db.go): each call is one statement, run*)
(* on a connection it takes from a pool of at most MaxConns and gives back *)
(* before it returns.  There are more goroutines than connections.         *)
(*                                                                         *)
(* A statement takes place at once in the database; its answer may be lost *)
(* with the connection.  Rows of an answer are read one by one, and a loop *)
(* that ends because the connection broke looks like one that has read all:*)
(* rows.Err is not asked.  A statement has no deadline (context.Background),*)
(* so that it returns is the database's promise, not the program's.        *)
(***************************************************************************)
EXTENDS SessionRows, Naturals, FiniteSets, FiniteSetsExt

CONSTANTS
  PgUser,       \* goroutines of the SMF
  MaxConns,     \* connections of the pool
  Limit         \* rows of a listing

ASSUME PostgresAssumption ==
  /\ MaxConns \in Nat
  /\ Limit \in Nat

VARIABLES
  pduSessions,    \* the table
  free,           \* connections the pool can still give out
  pgPc, pgCall,   \* where each goroutine is and what it called last
  sent,           \* the rows the database answers
  unread,         \* those of them not read yet
  pgAcc           \* what the call is going to return, or returned

pgVars == <<pduSessions, free, pgPc, pgCall, sent, unread, pgAcc>>

PgPlace == {"idle", "acquiring", "connected", "reading", "closing"}
Holding == {"connected", "reading", "closing"}
IsExec(u) == pgCall[u].op \in Writes

PgTypeOK ==
  /\ pduSessions \in Tables
  /\ free \in 0 .. MaxConns
  /\ pgPc \in [PgUser -> PgPlace]
  /\ pgCall \in [PgUser -> Call]
  /\ sent \in [PgUser -> Tables]
  /\ unread \in [PgUser -> SUBSET Ref]
  /\ pgAcc \in [PgUser -> Result]

PgInit ==
  /\ \E S \in SUBSET Ref : pduSessions = [r \in S |-> Fresh]   \* of an earlier process
  /\ free = MaxConns
  /\ pgPc = [u \in PgUser |-> "idle"]
  /\ pgCall = [u \in PgUser |-> [op |-> "list", refs |-> Ref]]
  /\ sent = [u \in PgUser |-> EmptyTable]
  /\ unread = [u \in PgUser |-> {}]
  /\ pgAcc = [u \in PgUser |-> NoResult]

PgMove(u, from, to) ==
  /\ pgPc[u] = from
  /\ pgPc' = [pgPc EXCEPT ![u] = to]

PgInvoke(u) ==
  /\ PgMove(u, "idle", "acquiring")
  /\ \E c \in Call : pgCall' = [pgCall EXCEPT ![u] = c]
  /\ pgAcc' = [pgAcc EXCEPT ![u] = NoResult]
  /\ UNCHANGED <<pduSessions, free, sent, unread>>

Acquire(u) ==
  /\ free > 0
  /\ free' = free - 1
  /\ PgMove(u, "acquiring", "connected")
  /\ UNCHANGED <<pduSessions, pgCall, sent, unread, pgAcc>>

(* A key that is there already makes the statement fail.                   *)
Duplicate(u) == pgCall[u].op = "save" /\ pgCall[u].refs \subseteq DOMAIN pduSessions

(* No error for an update that finds no row.  The statement may have been  *)
(* executed although the answer is an error.                               *)
Exec(u) ==
  /\ PgMove(u, "connected", "closing")
  /\ IsExec(u)
  /\ \/ /\ ~Duplicate(u)
        /\ pduSessions' = After(pduSessions, pgCall[u])
        /\ \E ok \in BOOLEAN : pgAcc' = [pgAcc EXCEPT ![u].ok = ok]
     \/ UNCHANGED <<pduSessions, pgAcc>>
  /\ UNCHANGED <<free, pgCall, sent, unread>>

(* The newest rows up to the limit, or the row asked for; which ones are   *)
(* the newest is left open.                                                *)
Selected(u) ==
  LET there == pgCall[u].refs \cap DOMAIN pduSessions
  IN  kSubset(IF Cardinality(there) < Limit THEN Cardinality(there) ELSE Limit, there)

Query(u) ==
  /\ PgMove(u, "connected", "reading")
  /\ ~IsExec(u)
  /\ \E S \in Selected(u) :
       /\ sent' = [sent EXCEPT ![u] = Restrict(pduSessions, S)]
       /\ unread' = [unread EXCEPT ![u] = S]
  /\ pgAcc' = [pgAcc EXCEPT ![u].ok = (pgCall[u].op = "list")]
  /\ UNCHANGED <<pduSessions, free, pgCall>>

QueryFails(u) ==
  /\ PgMove(u, "connected", "closing")
  /\ ~IsExec(u)
  /\ UNCHANGED <<pduSessions, free, pgCall, sent, unread, pgAcc>>

(* Mutant: a row of the listing is fetched when its turn comes. *)
ScanRowLate(u) ==
  /\ pgPc[u] = "reading"
  /\ \E r \in unread[u] :
       /\ pgAcc' = [pgAcc EXCEPT ![u] = [ok |-> TRUE, rows |-> With(@.rows, r, pduSessions[r])]]
       /\ unread' = [unread EXCEPT ![u] = @ \ {r}]
  /\ UNCHANGED <<pduSessions, free, pgPc, pgCall, sent>>

ScanRow(u) ==
  /\ pgPc[u] = "reading"
  /\ \E r \in unread[u] :
       /\ pgAcc' = [pgAcc EXCEPT ![u] = [ok |-> TRUE, rows |-> With(@.rows, r, sent[u][r])]]
       /\ unread' = [unread EXCEPT ![u] = @ \ {r}]
  /\ UNCHANGED <<pduSessions, free, pgPc, pgCall, sent>>

(* There is no next row: all were read, or the connection broke. *)
NoNext(u) ==
  /\ PgMove(u, "reading", "closing")
  /\ unread' = [unread EXCEPT ![u] = {}]
  /\ UNCHANGED <<pduSessions, free, pgCall, sent, pgAcc>>

(* Mutant: the way out for a row that cannot be scanned closes nothing. *)
ScanFailsOpen(u) ==
  /\ unread[u] # {}
  /\ PgMove(u, "reading", "idle")
  /\ pgAcc' = [pgAcc EXCEPT ![u] = NoResult]
  /\ unread' = [unread EXCEPT ![u] = {}]
  /\ sent' = [sent EXCEPT ![u] = EmptyTable]
  /\ UNCHANGED <<pduSessions, free, pgCall>>

(* A row that cannot be scanned ends a listing or a single read. *)
ScanFails(u) ==
  /\ unread[u] # {}
  /\ PgMove(u, "reading", "closing")
  /\ pgAcc' = [pgAcc EXCEPT ![u] = NoResult]
  /\ unread' = [unread EXCEPT ![u] = {}]
  /\ UNCHANGED <<pduSessions, free, pgCall, sent>>

(* rows.Close, deferred, or the end of Exec or Scan gives the connection   *)
(* back.                                                                   *)
Close(u) ==
  /\ PgMove(u, "closing", "idle")
  /\ free' = free + 1
  /\ sent' = [sent EXCEPT ![u] = EmptyTable]
  /\ UNCHANGED <<pduSessions, pgCall, unread, pgAcc>>

PgStep(u) ==
  \/ Acquire(u)
  \/ Exec(u) \/ Query(u) \/ QueryFails(u)
  \/ ScanRow(u) \/ NoNext(u) \/ ScanFails(u)
  \/ Close(u)

PgNext == \E u \in PgUser : PgInvoke(u) \/ PgStep(u)

PgSpec == PgInit /\ [][PgNext]_pgVars

(* A statement is answered, or its connection breaks; and the pool serves   *)
(* those who wait for a connection in their order.                          *)
PgFairness == \A u \in PgUser : WF_pgVars(PgStep(u)) /\ SF_pgVars(Acquire(u))

-----------------------------------------------------------------------------
(* The connections given out are those of the calls in progress: none is   *)
(* lost on any way out, none is used twice (db.go:144, 214-235).           *)
ConnsAccountedFor == free + Cardinality({u \in PgUser : pgPc[u] \in Holding}) = MaxConns

PgHeld(u) ==
  IF IsExec(u) THEN [ok |-> pgAcc[u].ok, rows |-> EmptyTable] ELSE [ok |-> FALSE, rows |-> sent[u]]

PgPhaseNow ==
  [u \in PgUser |->
     IF pgPc[u] = "idle" THEN "idle"
       ELSE IF pgPc[u] \in {"acquiring", "connected"} THEN "called" ELSE "taken"]
PgHeldNow ==
  [u \in PgUser |-> IF pgPc[u] \in {"reading", "closing"} THEN PgHeld(u) ELSE NoResult]
PgAnswerNow == [u \in PgUser |-> IF pgPc[u] = "idle" THEN pgAcc[u] ELSE NoResult]

PgTable == INSTANCE SessionTable WITH
  User <- PgUser, call <- pgCall,
  table <- pduSessions, phase <- PgPhaseNow, held <- PgHeldNow, answer <- PgAnswerNow

(* Concurrent calls behave like calls on a table that happen one at a time *)
(* (db.go:160-261).  A statement whose caller hears of no error was        *)
(* executed once, though an update may have found no row to change; after  *)
(* an error it may have been executed or not.  A listing may have been cut *)
(* short, but the rows it has were there together.                         *)
PostgresImplementsTable == PgTable!TableSpec

(* Every call returns, also when there are fewer connections than callers  *)
(* and the calls go on for ever: no way out of a call keeps a connection   *)
(* (db.go:144, 160-261).                                                   *)
EveryStatementReturns == \A u \in PgUser : (pgPc[u] # "idle") ~> (pgPc[u] = "idle")
=============================================================================
