----------------------------- MODULE RepositoryProofs -----------------------------
(***************************************************************************)
(* The repository on PostgreSQL loses no connection of its pool and         *)
(* implements the abstract table, for any number of goroutines, references, *)
(* connections and calls.  The lemmas about rows and calls are those of the *)
(* repository in memory.  The references of the rows, and the addresses     *)
(* stored in them, are unique, for any number of requests and restarts, any *)
(* size of a byte and any first address.                                    *)
(***************************************************************************)
EXTENDS PostgresRepository, Identifiers, MemoryRepositoryProofs, FiniteSetTheorems

-----------------------------------------------------------------------------
(* The connections in use.                                                  *)
InUse == {u \in PgUser : pgPc[u] \in Holding}

ConnInv == IsFiniteSet(InUse) /\ ConnsAccountedFor

(* What a goroutine has so far: nothing before its statement, and then, of  *)
(* a query, only rows that the database sent, and those of its call.        *)
NothingYet(u) ==
  /\ pgPc[u] \in {"acquiring", "connected"} => pgAcc[u] = NoResult
  /\ pgPc[u] \in {"acquiring", "connected"} => sent[u] = EmptyTable
  /\ pgPc[u] = "idle" => sent[u] = EmptyTable
  /\ pgPc[u] = "reading" => ~IsExec(u)
  /\ pgPc[u] # "reading" => unread[u] = {}

Executed(u) ==
  pgPc[u] = "closing" /\ IsExec(u) => pgAcc[u].rows = EmptyTable

Scanned(u) ==
  pgPc[u] \in {"reading", "closing"} /\ ~IsExec(u) =>
    /\ DOMAIN sent[u] \subseteq pgCall[u].refs
    /\ unread[u] \subseteq DOMAIN sent[u]
    /\ DOMAIN pgAcc[u].rows \subseteq DOMAIN sent[u]
    /\ pgAcc[u].rows = Restrict(sent[u], DOMAIN pgAcc[u].rows)
    /\ ~pgAcc[u].ok => pgAcc[u].rows = EmptyTable
    /\ pgAcc[u].ok /\ pgCall[u].op = "get" => DOMAIN pgAcc[u].rows = pgCall[u].refs

PgDataInv == \A u \in PgUser : NothingYet(u) /\ Executed(u) /\ Scanned(u)

PgInv == PgTypeOK /\ ConnInv /\ PgDataInv

LEMMA Limits == MaxConns \in Nat
  BY PostgresAssumption

LEMMA PgInitInv == PgInit => PgInv
<1> SUFFICES ASSUME PgInit PROVE PgInv
  OBVIOUS
<1>1. PgTypeOK
  <2>1. [op |-> "list", refs |-> Ref] \in Call
    BY DEF Call
  <2>2. PICK S \in SUBSET Ref : pduSessions = [r \in S |-> Fresh]
    BY DEF PgInit
  <2>3. pduSessions \in Tables
    BY <2>2, TablesAre
  <2>4. /\ free \in 0 .. MaxConns
        /\ pgPc \in [PgUser -> PgPlace]
        /\ unread \in [PgUser -> SUBSET Ref]
    BY Limits DEF PgInit, PgPlace
  <2>5. /\ pgCall \in [PgUser -> Call]
        /\ sent \in [PgUser -> Tables]
        /\ pgAcc \in [PgUser -> Result]
    BY <2>1, NoResultIs, TablesAre DEF PgInit
  <2> QED
    BY <2>3, <2>4, <2>5 DEF PgTypeOK
<1>2. ConnInv
  <2>1. InUse = {}
    BY DEF PgInit, InUse, Holding
  <2> QED
    <3>1. IsFiniteSet(InUse) /\ Cardinality(InUse) = 0 /\ free = MaxConns
      BY <2>1, FS_EmptySet DEF PgInit
    <3> QED
      BY <3>1, Limits DEF ConnInv, ConnsAccountedFor, InUse
<1>3. PgDataInv
  BY DEF PgInit, PgDataInv, NothingYet, Executed, Scanned
<1> QED
  BY <1>1, <1>2, <1>3 DEF PgInv

-----------------------------------------------------------------------------
(* The pool. *)

(* A goroutine that keeps its connection, or has none, changes no count.    *)
LEMMA PoolStays ==
  ASSUME ConnInv, free' = free,
         \A u \in PgUser : pgPc'[u] \in Holding <=> pgPc[u] \in Holding
  PROVE  ConnInv'
<1>1. InUse' = InUse
  BY DEF InUse, Holding
<1> QED
  BY <1>1 DEF ConnInv, ConnsAccountedFor, InUse

LEMMA PoolStep == PgInv /\ [PgNext]_pgVars => ConnInv'
<1> SUFFICES ASSUME PgInv, [PgNext]_pgVars PROVE ConnInv'
  OBVIOUS
<1>0. /\ IsFiniteSet(InUse) /\ free + Cardinality(InUse) = MaxConns
      /\ pgPc \in [PgUser -> PgPlace] /\ free \in Nat
      /\ Cardinality(InUse) \in Nat
  BY Limits, FS_CardinalityType DEF PgInv, PgTypeOK, ConnInv, ConnsAccountedFor, InUse
<1>1. ASSUME NEW u \in PgUser, PgInvoke(u) PROVE ConnInv'
  BY <1>0, <1>1, PoolStays DEF PgInvoke, PgMove, PgInv, Holding
<1>2. ASSUME NEW u \in PgUser, Acquire(u) PROVE ConnInv'
  <2>1. InUse' = InUse \cup {u} /\ u \notin InUse
    BY <1>0, <1>2 DEF Acquire, PgMove, InUse, Holding
  <2>2. IsFiniteSet(InUse') /\ Cardinality(InUse') = Cardinality(InUse) + 1
    BY <1>0, <2>1, FS_AddElement
  <2>3. free' + Cardinality(InUse') = MaxConns
    BY <1>0, <1>2, <2>2 DEF Acquire
  <2> QED
    BY <2>2, <2>3 DEF ConnInv, ConnsAccountedFor, InUse
<1>3. ASSUME NEW u \in PgUser, \/ Exec(u) \/ Query(u) \/ QueryFails(u)
                               \/ NoNext(u) \/ ScanFails(u)
      PROVE  ConnInv'
  BY <1>0, <1>3, PoolStays
     DEF Exec, Query, QueryFails, NoNext, ScanFails, PgMove, PgInv, Holding
<1>4. ASSUME NEW u \in PgUser, ScanRow(u) PROVE ConnInv'
  BY <1>4, PoolStays DEF ScanRow, PgInv
<1>5. ASSUME NEW u \in PgUser, Close(u) PROVE ConnInv'
  <2>1. InUse' = InUse \ {u} /\ u \in InUse
    BY <1>0, <1>5 DEF Close, PgMove, InUse, Holding
  <2>2. IsFiniteSet(InUse') /\ Cardinality(InUse') = Cardinality(InUse) - 1
    BY <1>0, <2>1, FS_RemoveElement
  <2>3. free' + Cardinality(InUse') = MaxConns
    BY <1>0, <1>5, <2>2 DEF Close
  <2> QED
    BY <2>2, <2>3 DEF ConnInv, ConnsAccountedFor, InUse
<1>6. CASE UNCHANGED pgVars
  BY <1>6, PoolStays DEF pgVars, PgInv
<1> QED
  BY <1>1, <1>2, <1>3, <1>4, <1>5, <1>6 DEF PgNext, PgStep

-----------------------------------------------------------------------------
(* The types. *)

(* A goroutine that gives its connection back had one of the pool.          *)
LEMMA FreeFits == PgInv /\ ConnInv' /\ free' \in Nat => free' \in 0 .. MaxConns
<1> SUFFICES ASSUME PgInv, ConnInv', free' \in Nat PROVE free' \in 0 .. MaxConns
  OBVIOUS
<1>1. IsFiniteSet(InUse') /\ free' + Cardinality(InUse') = MaxConns
  BY DEF ConnInv, ConnsAccountedFor, InUse
<1>2. Cardinality(InUse') \in Nat
  BY <1>1, FS_CardinalityType
<1> QED
  BY <1>1, <1>2, Limits

(* The rows a query may select.                                             *)
LEMMA SelectedAre ==
  ASSUME NEW u \in PgUser, NEW S \in Selected(u)
  PROVE  S \subseteq pgCall[u].refs \cap DOMAIN pduSessions
  BY DEF Selected, kSubset

LEMMA WithType ==
  ASSUME NEW t \in Tables, NEW S \in SUBSET DOMAIN t, NEW r \in DOMAIN t
  PROVE  /\ With(Restrict(t, S), r, t[r]) = Restrict(t, S \cup {r})
         /\ DOMAIN Restrict(t, S \cup {r}) = S \cup {r}
         /\ Restrict(t, S \cup {r}) \in Tables
<1>1. DOMAIN Restrict(t, S) = S /\ \A q \in S : Restrict(t, S)[q] = t[q]
  BY DEF Restrict
<1>2. With(Restrict(t, S), r, t[r])
        = [q \in S \cup {r} |-> IF q = r THEN t[r] ELSE Restrict(t, S)[q]]
  BY <1>1 DEF With
<1>3. \A q \in S \cup {r} : (IF q = r THEN t[r] ELSE Restrict(t, S)[q]) = t[q]
  BY <1>1
<1>4. Restrict(t, S \cup {r}) = [q \in S \cup {r} |-> t[q]]
  BY DEF Restrict
<1>5. With(Restrict(t, S), r, t[r]) = Restrict(t, S \cup {r})
  BY <1>2, <1>3, <1>4
<1> QED
  BY <1>4, <1>5, RestrictType

(* A row read is one of those the database sent.                            *)
LEMMA ScanRowDoes ==
  ASSUME PgInv, NEW u \in PgUser, ScanRow(u)
  PROVE  \E r \in unread[u], S \in SUBSET DOMAIN sent[u] :
           /\ S = DOMAIN pgAcc[u].rows \cup {r} /\ r \in DOMAIN sent[u]
           /\ pgAcc' = [pgAcc EXCEPT ![u] = [ok |-> TRUE, rows |-> Restrict(sent[u], S)]]
           /\ [ok |-> TRUE, rows |-> Restrict(sent[u], S)] \in Result
           /\ DOMAIN Restrict(sent[u], S) = S
           /\ unread' = [unread EXCEPT ![u] = @ \ {r}]
<1>1. ~IsExec(u) /\ Scanned(u) /\ pgPc[u] = "reading" /\ sent[u] \in Tables
  BY DEF PgInv, PgDataInv, NothingYet, ScanRow, PgTypeOK
<1>2. PICK r \in unread[u] :
        /\ pgAcc' = [pgAcc EXCEPT ![u] = [ok |-> TRUE, rows |-> With(@.rows, r, sent[u][r])]]
        /\ unread' = [unread EXCEPT ![u] = @ \ {r}]
  BY DEF ScanRow
<1> DEFINE D == DOMAIN pgAcc[u].rows
<1>3. D \subseteq DOMAIN sent[u] /\ r \in DOMAIN sent[u] /\ pgAcc[u].rows = Restrict(sent[u], D)
  BY <1>1, <1>2 DEF Scanned
<1> HIDE DEF D
<1>4. /\ With(Restrict(sent[u], D), r, sent[u][r]) = Restrict(sent[u], D \cup {r})
      /\ DOMAIN Restrict(sent[u], D \cup {r}) = D \cup {r}
      /\ Restrict(sent[u], D \cup {r}) \in Tables
  BY <1>1, <1>3, WithType
<1>5. With(pgAcc[u].rows, r, sent[u][r]) = Restrict(sent[u], D \cup {r})
  BY <1>3, <1>4
<1>6. pgAcc' = [pgAcc EXCEPT ![u] = [ok |-> TRUE, rows |-> Restrict(sent[u], D \cup {r})]]
  BY <1>2, <1>5
<1>7. [ok |-> TRUE, rows |-> Restrict(sent[u], D \cup {r})] \in Result
  BY <1>4 DEF Result
<1> QED
  BY <1>2, <1>3, <1>4, <1>6, <1>7 DEF D

LEMMA PgTypeStep == PgInv /\ ConnInv' /\ [PgNext]_pgVars => PgTypeOK'
<1> SUFFICES ASSUME PgInv, ConnInv', [PgNext]_pgVars PROVE PgTypeOK'
  OBVIOUS
<1> USE DEF PgInv
<1>0. NoResult \in Result /\ EmptyTable \in Tables /\ free \in Nat
  BY NoResultIs, TablesAre, Limits DEF PgTypeOK
<1>1. ASSUME NEW u \in PgUser, PgInvoke(u) PROVE PgTypeOK'
  BY <1>0, <1>1, Limits DEF PgInvoke, PgMove, PgTypeOK, PgPlace
<1>2. ASSUME NEW u \in PgUser, Acquire(u) PROVE PgTypeOK'
  BY <1>0, <1>2, Limits DEF Acquire, PgMove, PgTypeOK, PgPlace
<1>3. ASSUME NEW u \in PgUser, Exec(u) PROVE PgTypeOK'
  <2>1. After(pduSessions, pgCall[u]) \in Tables
    BY AfterType DEF PgTypeOK
  <2>2. \A b \in BOOLEAN : [pgAcc EXCEPT ![u].ok = b] \in [PgUser -> Result]
    BY DEF PgTypeOK, Result
  <2> QED
    BY <1>3, <2>1, <2>2 DEF Exec, PgMove, PgTypeOK, PgPlace
<1>4. ASSUME NEW u \in PgUser, Query(u) PROVE PgTypeOK'
  <2>1. PICK S \in Selected(u) : /\ sent' = [sent EXCEPT ![u] = Restrict(pduSessions, S)]
                                 /\ unread' = [unread EXCEPT ![u] = S]
    BY <1>4 DEF Query
  <2>2. S \subseteq DOMAIN pduSessions
    BY SelectedAre
  <2>3. Restrict(pduSessions, S) \in Tables /\ S \in SUBSET Ref
    BY <2>2, RestrictType, TablesAre DEF PgTypeOK
  <2>4. [pgAcc EXCEPT ![u].ok = (pgCall[u].op = "list")] \in [PgUser -> Result]
    BY DEF PgTypeOK, Result
  <2> QED
    BY <1>4, <2>1, <2>3, <2>4 DEF Query, PgMove, PgTypeOK, PgPlace
<1>5. ASSUME NEW u \in PgUser, QueryFails(u) \/ NoNext(u) \/ ScanFails(u) PROVE PgTypeOK'
  BY <1>0, <1>5 DEF QueryFails, NoNext, ScanFails, PgMove, PgTypeOK, PgPlace
<1>6. ASSUME NEW u \in PgUser, ScanRow(u) PROVE PgTypeOK'
  <2>1. PICK r \in unread[u], S \in SUBSET DOMAIN sent[u] :
          /\ pgAcc' = [pgAcc EXCEPT ![u] = [ok |-> TRUE, rows |-> Restrict(sent[u], S)]]
          /\ [ok |-> TRUE, rows |-> Restrict(sent[u], S)] \in Result
          /\ unread' = [unread EXCEPT ![u] = @ \ {r}]
    BY <1>6, ScanRowDoes
  <2>2. pgAcc' \in [PgUser -> Result] /\ unread' \in [PgUser -> SUBSET Ref]
    BY <2>1 DEF PgTypeOK
  <2> QED
    BY <1>6, <2>2 DEF ScanRow, PgTypeOK
<1>7. ASSUME NEW u \in PgUser, Close(u) PROVE PgTypeOK'
  <2>1. free' \in 0 .. MaxConns
    BY <1>0, <1>7, FreeFits DEF Close
  <2> QED
    BY <1>0, <1>7, <2>1 DEF Close, PgMove, PgTypeOK, PgPlace
<1>8. CASE UNCHANGED pgVars
  BY <1>8 DEF pgVars, PgTypeOK
<1> QED
  BY <1>1, <1>2, <1>3, <1>4, <1>5, <1>6, <1>7, <1>8 DEF PgNext, PgStep

-----------------------------------------------------------------------------
(* What the goroutines have. *)

(* A goroutine that does not move has what it had.                          *)
LEMMA PgDataStays ==
  ASSUME PgInv, NEW v \in PgUser,
         pgPc'[v] = pgPc[v], pgCall'[v] = pgCall[v], sent'[v] = sent[v],
         unread'[v] = unread[v], pgAcc'[v] = pgAcc[v]
  PROVE  (NothingYet(v) /\ Executed(v) /\ Scanned(v))'
<1>1. NothingYet(v) /\ Executed(v) /\ Scanned(v)
  BY DEF PgInv, PgDataInv
<1>2. NoResult' = NoResult /\ EmptyTable' = EmptyTable /\ (IsExec(v)' <=> IsExec(v))
  BY DEF NoResult, EmptyTable, Fresh, IsExec
<1>3. \A S : Restrict(sent[v], S)' = Restrict(sent'[v], S)
  BY DEF Restrict
<1> QED
  BY <1>1, <1>2, <1>3 DEF NothingYet, Executed, Scanned

LEMMA PgDataStep == PgInv /\ [PgNext]_pgVars => PgDataInv'
<1> SUFFICES ASSUME PgInv, [PgNext]_pgVars PROVE PgDataInv'
  OBVIOUS
<1> DEFINE Ok(v) == (NothingYet(v) /\ Executed(v) /\ Scanned(v))'
<1>0. /\ PgTypeOK
      /\ NoResult' = NoResult /\ EmptyTable' = EmptyTable
      /\ NoResult.ok = FALSE /\ NoResult.rows = EmptyTable
      /\ DOMAIN EmptyTable = {} /\ \A t : Restrict(t, {}) = EmptyTable
  BY NoResultIs DEF PgInv, NoResult, EmptyTable, Fresh, Restrict
<1>a. \A u \in PgUser : NothingYet(u) /\ Executed(u) /\ Scanned(u)
  BY DEF PgInv, PgDataInv
<1>b. ASSUME NEW u \in PgUser, PgInvoke(u) \/ PgStep(u), Ok(u) PROVE PgDataInv'
  <2>1. \A v \in PgUser \ {u} : Ok(v)
    BY <1>0, <1>b, PgDataStays
       DEF PgInvoke, PgStep, Acquire, Exec, Query, QueryFails, ScanRow, NoNext, ScanFails,
           Close, PgMove, PgTypeOK
  <2> QED
    BY <1>b, <2>1 DEF PgDataInv
<1>1. ASSUME NEW u \in PgUser, PgInvoke(u) PROVE Ok(u)
  BY <1>0, <1>1, <1>a
     DEF PgInvoke, PgMove, PgTypeOK, NothingYet, Executed, Scanned
<1>2. ASSUME NEW u \in PgUser, Acquire(u) PROVE Ok(u)
  BY <1>0, <1>2, <1>a
     DEF Acquire, PgMove, PgTypeOK, NothingYet, Executed, Scanned
<1>3. ASSUME NEW u \in PgUser, Exec(u) PROVE Ok(u)
  <2>1. pgAcc[u] = NoResult /\ unread[u] = {}
    BY <1>3, <1>a DEF NothingYet, Exec, PgMove
  <2>2. pgAcc'[u].rows = EmptyTable
    BY <1>0, <1>3, <2>1 DEF Exec, PgTypeOK, Result
  <2>3. IsExec(u)' /\ pgPc'[u] = "closing" /\ unread'[u] = {}
    BY <1>0, <1>3, <2>1 DEF Exec, PgMove, PgTypeOK, IsExec
  <2> QED
    BY <1>0, <2>2, <2>3 DEF NothingYet, Executed, Scanned
<1>4. ASSUME NEW u \in PgUser, Query(u) PROVE Ok(u)
  <2>1. PICK S \in Selected(u) : /\ sent' = [sent EXCEPT ![u] = Restrict(pduSessions, S)]
                                 /\ unread' = [unread EXCEPT ![u] = S]
    BY <1>4 DEF Query
  <2>2. pgAcc[u] = NoResult
    BY <1>4, <1>a DEF NothingYet, Query, PgMove
  <2>3. pgAcc'[u].rows = EmptyTable /\ pgAcc'[u].ok = (pgCall[u].op = "list")
    BY <1>0, <1>4, <2>2 DEF Query, PgTypeOK, Result
  <2>4. /\ pgPc'[u] = "reading" /\ ~IsExec(u)' /\ pgCall' = pgCall
        /\ sent'[u] = Restrict(pduSessions, S) /\ unread'[u] = S
    BY <1>0, <1>4, <2>1 DEF Query, PgMove, PgTypeOK, IsExec
  <2>5. DOMAIN sent'[u] = S /\ S \subseteq pgCall[u].refs
    BY <2>4, SelectedAre DEF Restrict
  <2> QED
    BY <1>0, <2>3, <2>4, <2>5 DEF NothingYet, Executed, Scanned
<1>5. ASSUME NEW u \in PgUser, QueryFails(u) PROVE Ok(u)
  <2>1. pgAcc[u] = NoResult /\ sent[u] = EmptyTable /\ unread[u] = {}
    BY <1>5, <1>a DEF NothingYet, QueryFails, PgMove
  <2>2. /\ pgPc'[u] = "closing" /\ ~IsExec(u)'
        /\ pgAcc'[u] = NoResult /\ sent'[u] = EmptyTable /\ unread'[u] = {}
    BY <1>0, <1>5, <2>1 DEF QueryFails, PgMove, PgTypeOK, IsExec
  <2> QED
    BY <1>0, <2>2 DEF NothingYet, Executed, Scanned
<1>6. ASSUME NEW u \in PgUser, ScanRow(u) PROVE Ok(u)
  <2>1. PICK r \in unread[u], S \in SUBSET DOMAIN sent[u] :
          /\ S = DOMAIN pgAcc[u].rows \cup {r} /\ r \in DOMAIN sent[u]
          /\ pgAcc' = [pgAcc EXCEPT ![u] = [ok |-> TRUE, rows |-> Restrict(sent[u], S)]]
          /\ DOMAIN Restrict(sent[u], S) = S
          /\ unread' = [unread EXCEPT ![u] = @ \ {r}]
    BY <1>6, ScanRowDoes
  <2>2. pgPc[u] = "reading" /\ UNCHANGED <<pgPc, pgCall, sent>> /\ ~IsExec(u) /\ Scanned(u)
    BY <1>6, <1>a DEF ScanRow, NothingYet
  <2>3. /\ pgAcc'[u].ok = TRUE /\ pgAcc'[u].rows = Restrict(sent'[u], S)
        /\ DOMAIN pgAcc'[u].rows = S
        /\ unread'[u] \subseteq unread[u]
    BY <1>0, <2>1, <2>2 DEF PgTypeOK
  <2>4. DOMAIN sent'[u] \subseteq pgCall'[u].refs /\ unread[u] \subseteq DOMAIN sent'[u]
    BY <2>2 DEF Scanned
  <2>5. pgCall[u].op = "get" => S = pgCall[u].refs
    <3>1. pgCall[u].op = "get" => \E q \in Ref : pgCall[u].refs = {q}
      BY <1>0, CallShape DEF PgTypeOK
    <3> QED
      BY <2>1, <2>2, <2>4, <3>1
  <2>6. ~IsExec(u)'
    BY <2>2 DEF IsExec
  <2> QED
    BY <2>2, <2>3, <2>4, <2>5, <2>6 DEF NothingYet, Executed, Scanned
<1>7. ASSUME NEW u \in PgUser, NoNext(u) \/ ScanFails(u) PROVE Ok(u)
  <2>1. /\ pgPc[u] = "reading" /\ pgPc'[u] = "closing" /\ unread'[u] = {}
        /\ UNCHANGED <<pgCall, sent>> /\ ~IsExec(u)' /\ ~IsExec(u) /\ Scanned(u)
    BY <1>0, <1>7, <1>a DEF NoNext, ScanFails, PgMove, PgTypeOK, NothingYet, IsExec
  <2>2. pgAcc'[u] = pgAcc[u] \/ pgAcc'[u] = NoResult
    BY <1>0, <1>7 DEF NoNext, ScanFails, PgTypeOK
  <2>3. CASE pgAcc'[u] = NoResult
    <3>1. pgAcc'[u].ok = FALSE /\ pgAcc'[u].rows = EmptyTable
      BY <1>0, <2>3
    <3> QED
      BY <1>0, <2>1, <3>1 DEF NothingYet, Executed, Scanned
  <2>4. CASE pgAcc'[u] = pgAcc[u]
    BY <1>0, <2>1, <2>4 DEF NothingYet, Executed, Scanned
  <2> QED
    BY <2>2, <2>3, <2>4
<1>8. ASSUME NEW u \in PgUser, Close(u) PROVE Ok(u)
  <2>1. /\ pgPc'[u] = "idle" /\ sent'[u] = EmptyTable /\ unread'[u] = {}
    BY <1>0, <1>8, <1>a DEF Close, PgMove, PgTypeOK, NothingYet
  <2> QED
    BY <1>0, <2>1 DEF NothingYet, Executed, Scanned
<1>9. CASE UNCHANGED pgVars
  BY <1>9, PgDataStays DEF pgVars, PgDataInv
<1> HIDE DEF Ok
<1> QED
  BY <1>b, <1>1, <1>2, <1>3, <1>4, <1>5, <1>6, <1>7, <1>8, <1>9 DEF PgNext, PgStep

(* The types, the count of connections, and what each goroutine has so far. *)
THEOREM PgInvariant == PgSpec => []PgInv
<1>1. PgInv /\ [PgNext]_pgVars => PgInv'
  BY PoolStep, PgTypeStep, PgDataStep DEF PgInv
<1> QED
  BY PgInitInv, <1>1, PTL DEF PgSpec

(* No connection of the pool is lost on any way out of a call, or given to  *)
(* two (db.go:144, 214-235).                                                *)
THEOREM NoConnIsLost == PgSpec => []ConnsAccountedFor
<1>1. PgInv => ConnsAccountedFor
  BY DEF PgInv, ConnInv
<1> QED
  BY PgInvariant, <1>1, PTL

-----------------------------------------------------------------------------
(* The abstract table, of the goroutines of this module.                    *)
LEMMA PgSameRows ==
  /\ PgTable!Call = Call /\ PgTable!NoResult = NoResult
  /\ PgTable!EmptyTable = EmptyTable /\ PgTable!Tables = Tables
  /\ \A t, c : PgTable!After(t, c) = After(t, c)
  /\ \A t, S : PgTable!Restrict(t, S) = Restrict(t, S)
  /\ \A u : PgTable!IsWrite(u) <=> IsExec(u)
<1>1. PgTable!Fresh = Fresh /\ PgTable!Row = Row /\ PgTable!Writes = Writes
  BY DEF PgTable!Fresh, Fresh, PgTable!Row, Row, PgTable!Writes, Writes
<1>2. \A row, op : PgTable!Updated(row, op) = Updated(row, op)
  BY DEF PgTable!Updated, Updated
<1>3. PgTable!EmptyTable = EmptyTable /\ PgTable!Tables = Tables
  BY <1>1 DEF PgTable!EmptyTable, EmptyTable, PgTable!Tables, Tables
<1>4. PgTable!NoResult = NoResult
  BY <1>3 DEF PgTable!NoResult, NoResult
<1>5. PgTable!Call = Call
  BY <1>1 DEF PgTable!Call, Call
<1>6. \A t, c : PgTable!After(t, c) = After(t, c)
  BY <1>1, <1>2 DEF PgTable!After, After
<1>7. \A t, S : PgTable!Restrict(t, S) = Restrict(t, S)
  BY DEF PgTable!Restrict, Restrict
<1>8. \A u : PgTable!IsWrite(u) <=> IsExec(u)
  BY <1>1 DEF PgTable!IsWrite, IsExec
<1> QED
  BY <1>3, <1>4, <1>5, <1>6, <1>7, <1>8

LEMMA ConstantsStay == NoResult' = NoResult /\ EmptyTable' = EmptyTable
  BY DEF NoResult, EmptyTable, Fresh

(* What the others see of a goroutine that does not move.                   *)
LEMMA PgOthersStay ==
  ASSUME NEW u \in PgUser,
         \A v \in PgUser \ {u} :
           /\ pgPc'[v] = pgPc[v] /\ pgCall'[v] = pgCall[v]
           /\ sent'[v] = sent[v] /\ pgAcc'[v] = pgAcc[v]
  PROVE  /\ \A x : x = PgPhaseNow'[u] => PgPhaseNow' = [PgPhaseNow EXCEPT ![u] = x]
         /\ \A x : x = PgHeldNow'[u] => PgHeldNow' = [PgHeldNow EXCEPT ![u] = x]
         /\ \A x : x = PgAnswerNow'[u] => PgAnswerNow' = [PgAnswerNow EXCEPT ![u] = x]
<1>1. \A v \in PgUser \ {u} : PgHeld(v)' = PgHeld(v)
  BY ConstantsStay DEF PgHeld, IsExec
<1>2. \A v \in PgUser \ {u} :
        /\ PgPhaseNow'[v] = PgPhaseNow[v] /\ PgAnswerNow'[v] = PgAnswerNow[v]
        /\ PgHeldNow'[v] = PgHeldNow[v]
  BY <1>1, ConstantsStay DEF PgPhaseNow, PgHeldNow, PgAnswerNow
<1>3. /\ PgPhaseNow = [v \in PgUser |-> PgPhaseNow[v]] /\ PgPhaseNow' = [v \in PgUser |-> PgPhaseNow'[v]]
      /\ PgHeldNow = [v \in PgUser |-> PgHeldNow[v]] /\ PgHeldNow' = [v \in PgUser |-> PgHeldNow'[v]]
      /\ PgAnswerNow = [v \in PgUser |-> PgAnswerNow[v]] /\ PgAnswerNow' = [v \in PgUser |-> PgAnswerNow'[v]]
  BY DEF PgPhaseNow, PgHeldNow, PgAnswerNow
<1> QED
  BY <1>2, <1>3

(* A step that others see nothing of.                                       *)
LEMMA PgStutters ==
  ASSUME NEW u \in PgUser, UNCHANGED <<pduSessions, pgCall>>,
         \A v \in PgUser \ {u} :
           pgPc'[v] = pgPc[v] /\ sent'[v] = sent[v] /\ pgAcc'[v] = pgAcc[v],
         PgPhaseNow'[u] = PgPhaseNow[u], PgHeldNow'[u] = PgHeldNow[u],
         PgAnswerNow'[u] = PgAnswerNow[u]
  PROVE  UNCHANGED PgTable!tableVars
<1>1. /\ PgPhaseNow' = [PgPhaseNow EXCEPT ![u] = PgPhaseNow[u]]
      /\ PgHeldNow' = [PgHeldNow EXCEPT ![u] = PgHeldNow[u]]
      /\ PgAnswerNow' = [PgAnswerNow EXCEPT ![u] = PgAnswerNow[u]]
  BY PgOthersStay
<1>2. PgPhaseNow' = PgPhaseNow /\ PgHeldNow' = PgHeldNow /\ PgAnswerNow' = PgAnswerNow
  BY <1>1 DEF PgPhaseNow, PgHeldNow, PgAnswerNow
<1> QED
  BY <1>2 DEF PgTable!tableVars

LEMMA PgInvokeMaps ==
  ASSUME PgInv, NEW u \in PgUser, PgInvoke(u)
  PROVE  PgTable!Begin(u)
<1>1. /\ pgPc[u] = "idle" /\ pgPc'[u] = "acquiring" /\ pgAcc'[u] = NoResult
      /\ \A v \in PgUser \ {u} : /\ pgPc'[v] = pgPc[v] /\ pgCall'[v] = pgCall[v]
                                 /\ sent'[v] = sent[v] /\ pgAcc'[v] = pgAcc[v]
      /\ pduSessions' = pduSessions
  BY DEF PgInvoke, PgMove, PgInv, PgTypeOK
<1>2. PICK c \in Call : pgCall' = [pgCall EXCEPT ![u] = c]
  BY DEF PgInvoke
<1>3. /\ PgPhaseNow[u] = "idle" /\ PgPhaseNow'[u] = "called"
      /\ PgHeldNow[u] = NoResult /\ PgHeldNow'[u] = NoResult /\ PgAnswerNow'[u] = NoResult
  BY <1>1, ConstantsStay DEF PgPhaseNow, PgHeldNow, PgAnswerNow
<1>4. /\ PgPhaseNow' = [PgPhaseNow EXCEPT ![u] = "called"]
      /\ PgHeldNow' = [PgHeldNow EXCEPT ![u] = NoResult]
      /\ PgAnswerNow' = [PgAnswerNow EXCEPT ![u] = NoResult]
  BY <1>1, <1>3, PgOthersStay
<1>5. PgHeldNow' = PgHeldNow
  BY <1>3, <1>4 DEF PgHeldNow
<1> QED
  BY <1>1, <1>2, <1>3, <1>4, <1>5, PgSameRows DEF PgTable!Begin

(* The statement is the moment of the call.                                 *)
LEMMA ExecMaps ==
  ASSUME PgInv, NEW u \in PgUser, Exec(u)
  PROVE  PgTable!Take(u)
<1>1. /\ pgPc[u] = "connected" /\ pgPc'[u] = "closing" /\ IsExec(u) /\ IsExec(u)'
      /\ \A v \in PgUser \ {u} : /\ pgPc'[v] = pgPc[v] /\ pgCall'[v] = pgCall[v]
                                 /\ sent'[v] = sent[v] /\ pgAcc'[v] = pgAcc[v]
      /\ pgCall' = pgCall
  BY DEF Exec, PgMove, PgInv, PgTypeOK, IsExec
<1>2. pgAcc[u] = NoResult /\ pgAcc[u] \in Result
  BY <1>1 DEF PgInv, PgDataInv, NothingYet, PgTypeOK
<1>3. /\ PgPhaseNow[u] = "called" /\ PgPhaseNow'[u] = "taken"
      /\ PgHeldNow[u] = NoResult /\ PgHeldNow'[u] = [ok |-> pgAcc'[u].ok, rows |-> EmptyTable]
      /\ PgAnswerNow[u] = NoResult /\ PgAnswerNow'[u] = NoResult
  BY <1>1, ConstantsStay DEF PgPhaseNow, PgHeldNow, PgAnswerNow, PgHeld
<1>4. /\ PgPhaseNow' = [PgPhaseNow EXCEPT ![u] = "taken"]
      /\ PgHeldNow' = [PgHeldNow EXCEPT ![u] = [ok |-> pgAcc'[u].ok, rows |-> EmptyTable]]
      /\ PgAnswerNow' = [PgAnswerNow EXCEPT ![u] = NoResult]
  BY <1>1, <1>3, PgOthersStay
<1>5. PgAnswerNow' = PgAnswerNow
  BY <1>3, <1>4 DEF PgAnswerNow
<1>6. PgTable!Write(u) \/ PgTable!Fail(u)
  <2>1. CASE UNCHANGED <<pduSessions, pgAcc>>
    <3>1. [ok |-> pgAcc'[u].ok, rows |-> EmptyTable] = NoResult
      BY <1>2, <2>1 DEF NoResult
    <3>2. PgHeldNow' = PgHeldNow
      BY <1>3, <1>4, <3>1 DEF PgHeldNow
    <3> QED
      BY <2>1, <3>2 DEF PgTable!Fail
  <2>2. ASSUME NEW ok \in BOOLEAN, pgAcc' = [pgAcc EXCEPT ![u].ok = ok],
               pduSessions' = After(pduSessions, pgCall[u])
        PROVE  PgTable!Write(u)
    <3>1. pgAcc'[u].ok = ok
      BY <1>2, <2>2 DEF PgInv, PgTypeOK, Result
    <3>2. [NoResult EXCEPT !.ok = ok] = [ok |-> ok, rows |-> EmptyTable]
      BY NoResultIs, ResultFields
    <3>3. PgHeldNow' = [PgHeldNow EXCEPT ![u].ok = ok]
      BY <1>3, <1>4, <3>1, <3>2
    <3> QED
      BY <1>1, <2>2, <3>3, PgSameRows DEF PgTable!Write
  <2> QED
    BY <2>1, <2>2 DEF Exec
<1> QED
  BY <1>1, <1>3, <1>4, <1>5, <1>6 DEF PgTable!Take

LEMMA QueryMaps ==
  ASSUME PgInv, NEW u \in PgUser, Query(u) \/ QueryFails(u)
  PROVE  PgTable!Take(u)
<1>1. /\ pgPc[u] = "connected" /\ pgPc'[u] \in {"reading", "closing"} /\ ~IsExec(u) /\ ~IsExec(u)'
      /\ \A v \in PgUser \ {u} : /\ pgPc'[v] = pgPc[v] /\ pgCall'[v] = pgCall[v]
                                 /\ sent'[v] = sent[v] /\ pgAcc'[v] = pgAcc[v]
      /\ UNCHANGED <<pgCall, pduSessions>>
  BY DEF Query, QueryFails, PgMove, PgInv, PgTypeOK, IsExec
<1>2. sent[u] = EmptyTable
  BY <1>1 DEF PgInv, PgDataInv, NothingYet
<1>3. /\ PgPhaseNow[u] = "called" /\ PgPhaseNow'[u] = "taken"
      /\ PgHeldNow[u] = NoResult /\ PgHeldNow'[u] = [ok |-> FALSE, rows |-> sent'[u]]
      /\ PgAnswerNow[u] = NoResult /\ PgAnswerNow'[u] = NoResult
  BY <1>1, ConstantsStay DEF PgPhaseNow, PgHeldNow, PgAnswerNow, PgHeld
<1>4. /\ PgPhaseNow' = [PgPhaseNow EXCEPT ![u] = "taken"]
      /\ PgHeldNow' = [PgHeldNow EXCEPT ![u] = [ok |-> FALSE, rows |-> sent'[u]]]
      /\ PgAnswerNow' = [PgAnswerNow EXCEPT ![u] = NoResult]
  BY <1>1, <1>3, PgOthersStay
<1>5. PgAnswerNow' = PgAnswerNow
  BY <1>3, <1>4 DEF PgAnswerNow
<1>6. PgTable!Read(u) \/ PgTable!Fail(u)
  <2>1. CASE QueryFails(u)
    <3>1. [ok |-> FALSE, rows |-> sent'[u]] = NoResult
      BY <1>2, <2>1 DEF QueryFails, NoResult
    <3>2. PgHeldNow' = PgHeldNow
      BY <1>3, <1>4, <3>1 DEF PgHeldNow
    <3> QED
      BY <1>1, <3>2 DEF PgTable!Fail
  <2>2. CASE Query(u)
    <3>1. PICK S \in Selected(u) : sent' = [sent EXCEPT ![u] = Restrict(pduSessions, S)]
      BY <2>2 DEF Query
    <3>2. S \subseteq pgCall[u].refs \cap DOMAIN pduSessions
      BY SelectedAre
    <3> DEFINE t == Restrict(pduSessions, S)
    <3>3. t \in Tables
      BY <3>2, RestrictType DEF PgInv, PgTypeOK
    <3>4. sent'[u] = t
      BY <3>1 DEF PgInv, PgTypeOK
    <3>5. t = PgTable!Restrict(pduSessions, S)
      BY PgSameRows
    <3> HIDE DEF t
    <3>6. [NoResult EXCEPT !.rows = t] = [ok |-> FALSE, rows |-> t]
      BY <3>3, NoResultWith
    <3>7. PgHeldNow' = [PgHeldNow EXCEPT ![u].rows = PgTable!Restrict(pduSessions, S)]
      BY <1>3, <1>4, <3>4, <3>5, <3>6
    <3>8. ~PgTable!IsWrite(u) /\ pduSessions' = pduSessions
      BY <1>1, PgSameRows
    <3>9. S \in SUBSET (pgCall[u].refs \cap DOMAIN pduSessions)
      BY <3>2
    <3> QED
      BY ONLY <3>7, <3>8, <3>9 DEF PgTable!Read
  <2> QED
    BY <2>1, <2>2
<1> QED
  BY <1>1, <1>3, <1>4, <1>5, <1>6 DEF PgTable!Take

(* A listing that ends early, and a row that cannot be scanned, are seen    *)
(* when the call returns.                                                   *)
LEMMA ReadingMaps ==
  ASSUME PgInv, NEW u \in PgUser, Acquire(u) \/ ScanRow(u) \/ NoNext(u) \/ ScanFails(u)
  PROVE  UNCHANGED PgTable!tableVars
<1>1. /\ UNCHANGED <<pduSessions, pgCall, sent>>
      /\ \A v \in PgUser \ {u} : pgPc'[v] = pgPc[v] /\ pgAcc'[v] = pgAcc[v]
  <2>1. CASE Acquire(u) \/ NoNext(u) \/ ScanFails(u)
    BY <2>1 DEF Acquire, NoNext, ScanFails, PgMove, PgInv, PgTypeOK
  <2>2. CASE ScanRow(u)
    BY <2>2 DEF ScanRow, PgInv, PgTypeOK
  <2> QED
    BY <2>1, <2>2
<1>2. \/ pgPc[u] = "acquiring" /\ pgPc'[u] = "connected"
      \/ pgPc[u] = "reading" /\ pgPc'[u] \in {"reading", "closing"} /\ ~IsExec(u)
  BY DEF Acquire, ScanRow, NoNext, ScanFails, PgMove, PgInv, PgTypeOK, PgDataInv, NothingYet
<1>3. (IsExec(u)' <=> IsExec(u)) /\ sent'[u] = sent[u]
  BY <1>1 DEF IsExec
<1>4. /\ PgPhaseNow'[u] = PgPhaseNow[u] /\ PgHeldNow'[u] = PgHeldNow[u]
      /\ PgAnswerNow'[u] = PgAnswerNow[u]
  BY <1>2, <1>3, ConstantsStay DEF PgPhaseNow, PgHeldNow, PgAnswerNow, PgHeld
<1> QED
  BY <1>1, <1>4, PgStutters

(* What is returned was held.                                               *)
LEMMA CloseMaps ==
  ASSUME PgInv, NEW u \in PgUser, Close(u)
  PROVE  PgTable!End(u)
<1>1. /\ pgPc[u] = "closing" /\ pgPc'[u] = "idle"
      /\ \A v \in PgUser \ {u} : /\ pgPc'[v] = pgPc[v] /\ pgCall'[v] = pgCall[v]
                                 /\ sent'[v] = sent[v] /\ pgAcc'[v] = pgAcc[v]
      /\ UNCHANGED <<pduSessions, pgCall, pgAcc>>
  BY DEF Close, PgMove, PgInv, PgTypeOK
<1>2. Executed(u) /\ Scanned(u) /\ pgAcc[u] \in Result
  BY DEF PgInv, PgDataInv, PgTypeOK
<1>3. /\ PgPhaseNow[u] = "taken" /\ PgPhaseNow'[u] = "idle"
      /\ PgHeldNow[u] = PgHeld(u) /\ PgHeldNow'[u] = NoResult
      /\ PgAnswerNow'[u] = pgAcc[u]
  BY <1>1, ConstantsStay DEF PgPhaseNow, PgHeldNow, PgAnswerNow
<1>4. /\ PgPhaseNow' = [PgPhaseNow EXCEPT ![u] = "idle"]
      /\ PgHeldNow' = [PgHeldNow EXCEPT ![u] = NoResult]
      /\ PgAnswerNow' = [PgAnswerNow EXCEPT ![u] = pgAcc[u]]
  BY <1>1, <1>3, PgOthersStay
<1>5. pgAcc[u] = [ok |-> pgAcc[u].ok, rows |-> pgAcc[u].rows] /\ pgAcc[u].ok \in BOOLEAN
  BY <1>2, ResultFields
<1>6. \/ PgTable!Answer(u, PgTable!IsWrite(u) /\ PgHeldNow[u].ok, PgTable!EmptyTable)
      \/ PgTable!AnswerRows(u)
  <2>1. CASE IsExec(u)
    <3>1. pgAcc[u].rows = EmptyTable
      BY <1>1, <1>2, <2>1 DEF Executed
    <3>2. pgAcc[u].ok = (PgTable!IsWrite(u) /\ PgHeldNow[u].ok)
      BY <1>3, <1>5, <2>1, PgSameRows DEF PgHeld
    <3> QED
      BY <1>4, <1>5, <3>1, <3>2, PgSameRows DEF PgTable!Answer
  <2>2. CASE ~IsExec(u) /\ ~pgAcc[u].ok
    <3>1. pgAcc[u].rows = EmptyTable
      BY <1>1, <1>2, <2>2 DEF Scanned
    <3>2. pgAcc[u].ok = (PgTable!IsWrite(u) /\ PgHeldNow[u].ok)
      BY <1>5, <2>2, PgSameRows
    <3> QED
      BY <1>4, <1>5, <3>1, <3>2, PgSameRows DEF PgTable!Answer
  <2>3. CASE ~IsExec(u) /\ pgAcc[u].ok
    <3> DEFINE S == DOMAIN pgAcc[u].rows
    <3>1. PgHeldNow[u].rows = sent[u]
      BY <1>3, <2>3 DEF PgHeld
    <3>2. /\ S \in SUBSET DOMAIN PgHeldNow[u].rows
          /\ pgCall[u].op = "get" => S = pgCall[u].refs
          /\ pgAcc[u].rows = PgTable!Restrict(PgHeldNow[u].rows, S)
      BY <1>1, <1>2, <2>3, <3>1, PgSameRows DEF Scanned
    <3>3. pgAcc[u] = [ok |-> TRUE, rows |-> PgTable!Restrict(PgHeldNow[u].rows, S)]
      BY <1>5, <2>3, <3>2
    <3>4. PgTable!Answer(u, TRUE, PgTable!Restrict(PgHeldNow[u].rows, S))
      BY <1>4, <3>3 DEF PgTable!Answer
    <3>5. ~PgTable!IsWrite(u)
      BY <2>3, PgSameRows
    <3> HIDE DEF S
    <3> QED
      BY ONLY <3>2, <3>4, <3>5 DEF PgTable!AnswerRows
  <2> QED
    BY <2>1, <2>2, <2>3
<1> QED
  BY <1>1, <1>3, <1>4, <1>6, PgSameRows DEF PgTable!End

LEMMA PgInitMaps == PgInit => PgTable!TableInit
<1> SUFFICES ASSUME PgInit PROVE PgTable!TableInit
  OBVIOUS
<1>1. pduSessions \in Tables /\ pgCall \in [PgUser -> Call]
  BY PgInitInv DEF PgInv, PgTypeOK
<1>2. /\ PgPhaseNow = [u \in PgUser |-> "idle"] /\ PgHeldNow = [u \in PgUser |-> NoResult]
      /\ PgAnswerNow = [u \in PgUser |-> NoResult]
  BY DEF PgInit, PgPhaseNow, PgHeldNow, PgAnswerNow
<1> QED
  BY <1>1, <1>2, PgSameRows DEF PgTable!TableInit

(* The repository on PostgreSQL is the table too (db.go:160-261).           *)
THEOREM PostgresIsTable == PgSpec => PostgresImplementsTable
<1>1. PgInv /\ [PgNext]_pgVars => [PgTable!TableNext]_PgTable!tableVars
  <2> SUFFICES ASSUME PgInv, [PgNext]_pgVars PROVE [PgTable!TableNext]_PgTable!tableVars
    OBVIOUS
  <2>1. ASSUME NEW u \in PgUser, PgInvoke(u) PROVE PgTable!TableNext
    BY <2>1, PgInvokeMaps DEF PgTable!TableNext
  <2>2. ASSUME NEW u \in PgUser, Exec(u) \/ Query(u) \/ QueryFails(u) PROVE PgTable!TableNext
    BY <2>2, ExecMaps, QueryMaps DEF PgTable!TableNext
  <2>3. ASSUME NEW u \in PgUser, Close(u) PROVE PgTable!TableNext
    BY <2>3, CloseMaps DEF PgTable!TableNext
  <2>4. ASSUME NEW u \in PgUser, Acquire(u) \/ ScanRow(u) \/ NoNext(u) \/ ScanFails(u)
        PROVE  UNCHANGED PgTable!tableVars
    BY <2>4, ReadingMaps
  <2>5. CASE UNCHANGED pgVars
    BY <2>5 DEF pgVars, PgTable!tableVars, PgPhaseNow, PgHeldNow, PgAnswerNow, PgHeld, IsExec,
                NoResult, EmptyTable, Fresh
  <2> QED
    BY <2>1, <2>2, <2>3, <2>4, <2>5 DEF PgNext, PgStep
<1> QED
  BY PgInitMaps, <1>1, PgInvariant, PTL DEF PgSpec, PostgresImplementsTable, PgTable!TableSpec

-----------------------------------------------------------------------------
(* The references. *)

Begun(r) == place[r] \in {"stamped", "numbered", "addressed"}
InProgress(r) == place[r] \in {"stamped", "numbered"}

(* A handler in progress belongs to the process that runs. *)
OfThisBoot == \A r \in Req : InProgress(r) => boot[r] = boots

(* The parts of a reference against the counters they were taken from. *)
NotAhead ==
  \A r \in Req : Begun(r) =>
    /\ boot[r] <= boots
    /\ stamp[r] <= clock
    /\ boot[r] < boots => stamp[r] < clock
    /\ HasRef(r) /\ boot[r] = boots => number[r] <= counter

(* What a later process stamps is later. *)
BootsInOrder ==
  \A r, s \in Req : Begun(r) /\ Begun(s) /\ boot[r] < boot[s] => stamp[r] < stamp[s]

(* One process counts every number once. *)
CountedOnce ==
  \A r, s \in Req : HasRef(r) /\ HasRef(s) /\ r # s /\ boot[r] = boot[s] => number[r] # number[s]

RInv == IdentifiersTypeOK /\ OfThisBoot /\ NotAhead /\ BootsInOrder /\ CountedOnce

-----------------------------------------------------------------------------
(* A counter reduced to the addresses is one of them (AllocateIP).          *)
LEMMA AddressesPositive == Addresses \in Nat /\ Addresses > 0
<1>1. Base \in Nat /\ Base > 0
  BY IdentifierAssumption
<1>2. ASSUME NEW a \in Nat, NEW b \in Nat, a > 0, b > 0
      PROVE  a * b \in Nat /\ a * b > 0
  BY <1>2
<1>3. Base * Base \in Nat /\ Base * Base > 0
  BY <1>1, <1>2
<1>4. Base * Base * Base \in Nat /\ Base * Base * Base > 0
  BY <1>1, <1>2, <1>3
<1> QED
  BY <1>1, <1>2, <1>4 DEF Addresses

LEMMA Reduced ==
  ASSUME NEW n \in Nat
  PROVE  n % Addresses \in 0 .. (Addresses - 1)
<1>1. ASSUME NEW m \in Nat, m > 0
      PROVE  n % m \in 0 .. (m - 1)
  BY <1>1
<1> QED
  BY <1>1, AddressesPositive

(* Every variable keeps its type. *)
LEMMA IdentifiersTypeStep ==
  ASSUME IdentifiersTypeOK, [IdentifiersNext]_identifierVars
  PROVE  IdentifiersTypeOK'
<1> USE IdentifierAssumption DEF IdentifiersTypeOK, Progress, podVars, reqVars
<1>1. ASSUME NEW r \in Req, ReadClock(r)
      PROVE  IdentifiersTypeOK'
  BY <1>1 DEF ReadClock, Advance
<1>2. ASSUME NEW r \in Req, Count(r)
      PROVE  IdentifiersTypeOK'
  BY <1>2 DEF Count, Advance
<1>3. ASSUME NEW r \in Req, AllocateIP(r)
      PROVE  IdentifiersTypeOK'
  <2>1. ipCounter + 1 \in Nat
    OBVIOUS
  <2>2. ipCounter' \in 0 .. (Addresses - 1)
    BY <1>3, <2>1, Reduced DEF AllocateIP
  <2> QED
    BY <1>3, <2>2 DEF AllocateIP, Advance
<1>4. CASE Tick
  BY <1>4 DEF Tick
<1>5. CASE Restart
  BY <1>5 DEF Restart
<1>6. CASE UNCHANGED identifierVars
  BY <1>6 DEF identifierVars
<1> QED
  BY <1>1, <1>2, <1>3, <1>4, <1>5, <1>6 DEF IdentifiersNext

LEMMA RefStep ==
  ASSUME RInv, [IdentifiersNext]_identifierVars
  PROVE  (OfThisBoot /\ NotAhead /\ BootsInOrder /\ CountedOnce)'
<1> USE DEF RInv, Begun, InProgress, HasRef
<1>0. IdentifiersTypeOK /\ IdentifiersTypeOK'
  BY IdentifiersTypeStep
<1>1. ASSUME NEW r \in Req, ReadClock(r)
      PROVE  (OfThisBoot /\ NotAhead /\ BootsInOrder /\ CountedOnce)'
  <2> USE <1>0, <1>1 DEF ReadClock, Advance, podVars, IdentifiersTypeOK
  <2>1. OfThisBoot' /\ NotAhead'
    BY DEF OfThisBoot, NotAhead
  <2>2. BootsInOrder'
    BY DEF BootsInOrder, NotAhead
  <2>3. CountedOnce'
    BY DEF CountedOnce
  <2> QED
    BY <2>1, <2>2, <2>3
<1>2. ASSUME NEW r \in Req, Count(r)
      PROVE  (OfThisBoot /\ NotAhead /\ BootsInOrder /\ CountedOnce)'
  <2> USE <1>0, <1>2 DEF Count, Advance, IdentifiersTypeOK
  <2>1. OfThisBoot' /\ NotAhead'
    BY DEF OfThisBoot, NotAhead
  <2>2. BootsInOrder'
    BY DEF BootsInOrder
  <2>3. CountedOnce'
    BY DEF CountedOnce, OfThisBoot, NotAhead
  <2> QED
    BY <2>1, <2>2, <2>3
<1>3. ASSUME NEW r \in Req, AllocateIP(r)
      PROVE  (OfThisBoot /\ NotAhead /\ BootsInOrder /\ CountedOnce)'
  <2> USE <1>0, <1>3 DEF AllocateIP, Advance, IdentifiersTypeOK
  <2>1. OfThisBoot' /\ NotAhead'
    BY DEF OfThisBoot, NotAhead
  <2>2. BootsInOrder'
    BY DEF BootsInOrder
  <2>3. CountedOnce'
    BY DEF CountedOnce
  <2> QED
    BY <2>1, <2>2, <2>3
<1>4. CASE Tick
  BY <1>0, <1>4 DEF Tick, reqVars, IdentifiersTypeOK, OfThisBoot, NotAhead, BootsInOrder, CountedOnce
<1>5. CASE Restart
  <2> USE <1>0, <1>5 DEF Restart, IdentifiersTypeOK
  <2>1. OfThisBoot'
    BY DEF OfThisBoot
  <2>2. NotAhead'
    BY DEF NotAhead
  <2>3. BootsInOrder' /\ CountedOnce'
    BY DEF BootsInOrder, CountedOnce
  <2> QED
    BY <2>1, <2>2, <2>3
<1>6. CASE UNCHANGED identifierVars
  BY <1>6 DEF identifierVars, podVars, reqVars, OfThisBoot, NotAhead, BootsInOrder, CountedOnce
<1> QED
  BY <1>1, <1>2, <1>3, <1>4, <1>5, <1>6 DEF IdentifiersNext

-----------------------------------------------------------------------------
(* The invariant holds, with it the types of the counters and of what the   *)
(* handlers read from them.                                                 *)
THEOREM IdentifiersInvariant == IdentifiersSpec => []RInv
<1>1. IdentifiersInit => RInv
  <2> SUFFICES ASSUME IdentifiersInit PROVE RInv
    OBVIOUS
  <2>1. IdentifiersTypeOK
    BY IdentifierAssumption, AddressesPositive DEF IdentifiersInit, IdentifiersTypeOK, Progress
  <2>2. OfThisBoot /\ NotAhead /\ BootsInOrder /\ CountedOnce
    BY DEF IdentifiersInit, OfThisBoot, NotAhead, BootsInOrder, CountedOnce, Begun, InProgress, HasRef
  <2> QED
    BY <2>1, <2>2 DEF RInv
<1>2. RInv /\ [IdentifiersNext]_identifierVars => RInv'
  BY IdentifiersTypeStep, RefStep DEF RInv
<1> QED
  BY <1>1, <1>2, PTL DEF IdentifiersSpec

(* The counters and addresses have their types, for any size of a byte.     *)
THEOREM IdentifiersTypeCorrect == IdentifiersSpec => []IdentifiersTypeOK
<1>1. RInv => IdentifiersTypeOK
  BY DEF RInv
<1> QED
  BY <1>1, IdentifiersInvariant, PTL

(* No two references of a pod are equal, whatever its handlers interleave   *)
(* and however often it restarts (CreateSMContext).                         *)
THEOREM RefsUnique == IdentifiersSpec => []RefsAreUnique
<1>1. RInv => RefsAreUnique
  <2> SUFFICES ASSUME RInv, NEW r \in Req, NEW s \in Req, HasRef(r), HasRef(s), r # s
               PROVE  <<stamp[r], number[r]>> # <<stamp[s], number[s]>>
    BY DEF RefsAreUnique
  <2> USE DEF RInv, IdentifiersTypeOK, HasRef, Begun
  <2>1. CASE boot[r] = boot[s]
    BY <2>1 DEF CountedOnce
  <2>2. CASE boot[r] < boot[s] \/ boot[s] < boot[r]
    <3>1. stamp[r] # stamp[s]
      BY <2>2 DEF BootsInOrder
    <3> QED
      BY <3>1
  <2> QED
    BY <2>1, <2>2
<1> QED
  BY <1>1, IdentifiersInvariant, PTL


-----------------------------------------------------------------------------
(* Division by any number. *)

LEMMA Divided ==
  ASSUME NEW n \in Nat, NEW m \in Nat, m > 0
  PROVE  n \div m \in Nat /\ n % m \in Nat /\ n % m < m /\ n = m * (n \div m) + (n % m)
<1>1. n \div m \in Nat /\ n % m \in Nat /\ n % m < m
  OBVIOUS
<1>2. n = (n \div m) * m + (n % m)
  OBVIOUS
<1> DEFINE q == n \div m
           r == n % m
<1>3. q * m = m * q
  <2> HIDE DEF q
  <2> QED
    BY <1>1 DEF q
<1> QED
  BY <1>1, <1>2, <1>3

(* There is one quotient and one remainder. *)
LEMMA OneQuotient ==
  ASSUME NEW m \in Nat, m > 0, NEW q \in Nat, NEW p \in Nat,
         NEW r \in Nat, NEW s \in Nat, r < m, s < m, m * q + r = m * p + s
  PROVE  q = p /\ r = s
<1>1. ASSUME NEW a \in Nat, NEW b \in Nat, a < b PROVE m * a + m <= m * b
  <2>1. b - a - 1 \in Nat
    BY <1>1
  <2>2. m * (b - a - 1) >= 0
    BY <2>1
  <2>3. m * (b - a - 1) = m * b - m * a - m
    OBVIOUS
  <2> QED
    BY <2>2, <2>3
<1>2. ~(q < p)
  <2>1. m * q \in Nat /\ m * p \in Nat
    OBVIOUS
  <2> QED
    BY <1>1, <2>1
<1>3. ~(p < q)
  <2>1. m * q \in Nat /\ m * p \in Nat
    OBVIOUS
  <2> QED
    BY <1>1, <2>1
<1>4. q = p
  BY <1>2, <1>3
<1> QED
  BY <1>4

LEMMA DividedSo ==
  ASSUME NEW m \in Nat, m > 0, NEW q \in Nat, NEW r \in Nat, r < m, NEW n \in Nat, n = m * q + r
  PROVE  n \div m = q /\ n % m = r
<1> DEFINE qq == n \div m
           rr == n % m
<1>1. qq \in Nat /\ rr \in Nat /\ rr < m /\ n = m * qq + rr
  BY Divided
<1> HIDE DEF qq, rr
<1>2. qq = q /\ rr = r
  BY <1>1, OneQuotient
<1> QED
  BY <1>2 DEF qq, rr

(* A counter that wraps counts on modulo its end. *)
LEMMA WrapsOn ==
  ASSUME NEW m \in Nat, m > 0, NEW n \in Nat
  PROVE  ((n % m) + 1) % m = (n + 1) % m
<1> DEFINE q == n \div m
           r == n % m
<1>1. q \in Nat /\ r \in Nat /\ r < m /\ n = m * q + r
  BY Divided
<1> HIDE DEF q, r
<1>2. CASE r + 1 < m
  <2>1. (n + 1) % m = r + 1
    <3>1. n + 1 = m * q + (r + 1)
      BY <1>1
    <3> QED
      BY ONLY <1>1, <1>2, <3>1, DividedSo
  <2>2. (r + 1) % m = r + 1
    <3>1. r + 1 = m * 0 + (r + 1)
      BY <1>1
    <3> QED
      BY ONLY <1>1, <1>2, <3>1, DividedSo
  <2> QED
    BY <2>1, <2>2 DEF r
<1>3. CASE r + 1 = m
  <2>1. (n + 1) % m = 0
    <3>1. n + 1 = m * (q + 1) + 0
      BY <1>1, <1>3
    <3> QED
      BY ONLY <1>1, <1>3, <3>1, DividedSo
  <2>2. (r + 1) % m = 0
    <3>1. r + 1 = m * 1 + 0
      BY <1>1, <1>3
    <3> QED
      BY ONLY <1>1, <1>3, <3>1, DividedSo
  <2> QED
    BY <2>1, <2>2 DEF r
<1> QED
  BY <1>1, <1>2, <1>3

(* Numbers that are nearer to each other than the end wrap to two. *)
LEMMA WrapsApart ==
  ASSUME NEW m \in Nat, m > 0, NEW a \in Nat, NEW i \in 1 .. m, NEW j \in 1 .. m,
         (a + i) % m = (a + j) % m
  PROVE  i = j
<1>1. ASSUME NEW k \in 1 .. m, NEW l \in 1 .. m, k < l, (a + k) % m = (a + l) % m PROVE FALSE
  <2> DEFINE q == (a + k) \div m
             p == (a + l) \div m
             r == (a + k) % m
  <2>1. q \in Nat /\ p \in Nat /\ r \in Nat /\ r < m /\ a + k = m * q + r /\ a + l = m * p + r
    BY <1>1, Divided
  <2> HIDE DEF p, q, r
  <2>2. a + l = m * q + (r + (l - k))
    BY <2>1
  <2>3. CASE r + (l - k) < m
    <3>1. r = r + (l - k)
      <4>1. r + (l - k) \in Nat /\ m * p + r = m * q + (r + (l - k))
        BY <1>1, <2>1, <2>2
      <4> HIDE <1>1
      <4> DEFINE s == r + (l - k)
      <4>2. s \in Nat /\ s < m /\ m * p + r = m * q + s
        BY <4>1, <2>3
      <4> HIDE DEF s
      <4>3. r = s
        BY <2>1, <4>2, OneQuotient
      <4> QED
        BY <4>3 DEF s
    <3> QED
      BY <1>1, <2>1, <3>1
  <2>4. CASE r + (l - k) >= m
    <3> DEFINE s == r + (l - k) - m
    <3>1. s \in Nat /\ s < m /\ s < r
      BY <1>1, <2>1, <2>4
    <3>2. m * p + r = m * (q + 1) + s
      BY <2>1, <2>2
    <3> HIDE DEF s
    <3>3. q + 1 \in Nat
      BY <2>1
    <3>4. r = s
      BY ONLY m \in Nat, m > 0, <2>1, <3>1, <3>2, <3>3, OneQuotient
    <3> QED
      BY <2>1, <3>1, <3>4
  <2> QED
    BY <1>1, <2>1, <2>3, <2>4
<1> QED
  BY <1>1

LEMMA DividedTwice ==
  ASSUME NEW n \in Nat, NEW k \in Nat, k > 0, NEW m \in Nat, m > 0
  PROVE  n \div (m * k) = (n \div m) \div k
<1> DEFINE q == n \div m
           r == n % m
           p == q \div k
           s == q % k
<1>1. q \in Nat /\ r \in Nat /\ r < m /\ n = m * q + r
  BY Divided
<1>2. p \in Nat /\ s \in Nat /\ s < k /\ q = k * p + s
  BY <1>1, Divided
<1> HIDE DEF p, q, r, s
<1>3. m * k \in Nat /\ m * k > 0
  OBVIOUS
<1>4. n = (m * k) * p + (m * s + r)
  <2>1. m * q = m * (k * p) + m * s
    BY <1>2
  <2>2. m * (k * p) = (m * k) * p
    BY <1>2
  <2> QED
    BY <1>1, <1>2, <2>1, <2>2
<1>5. m * s + r \in Nat /\ m * s + r < m * k
  <2>1. m * s + m = m * (s + 1)
    BY <1>2
  <2>2. m * (k - (s + 1)) >= 0
    BY <1>2
  <2>3. m * (k - (s + 1)) = m * k - m * (s + 1)
    BY <1>2
  <2> QED
    BY <1>1, <1>2, <2>1, <2>2, <2>3
<1>6. n \div (m * k) = p
  <2> DEFINE mk == m * k
             ms == m * s + r
  <2>1. mk \in Nat /\ mk > 0 /\ ms \in Nat /\ ms < mk /\ n = mk * p + ms
    BY <1>3, <1>4, <1>5
  <2> HIDE DEF mk, ms
  <2>2. n \div mk = p
    BY ONLY <2>1, <1>2, DividedSo, n \in Nat
  <2> QED
    BY <2>2 DEF mk
<1> QED
  BY <1>6 DEF p, q

(* The bytes determine the address.                                         *)
LEMMA OctetsDiffer ==
  ASSUME NEW x \in 0 .. (Addresses - 1), NEW y \in 0 .. (Addresses - 1), Octets(x) = Octets(y)
  PROVE  x = y
<1> DEFINE d(v) == v \div Base
           e(v) == v % Base
<1>1. Base \in Nat /\ Base > 0
  BY IdentifierAssumption
<1>2. ASSUME NEW v \in Nat
      PROVE  d(v) \in Nat /\ e(v) \in Nat /\ e(v) < Base /\ v = Base * d(v) + e(v)
  BY <1>1, Divided
<1>3. /\ Base * Base \in Nat /\ Base * Base > 0
      /\ Base * Base * Base \in Nat /\ Base * Base * Base > 0
  <2>1. ASSUME NEW a \in Nat, NEW b \in Nat, a > 0, b > 0
        PROVE  a * b \in Nat /\ a * b > 0
    BY <2>1
  <2> QED
    BY <1>1, <2>1
<1>4. ASSUME NEW v \in Nat
      PROVE  /\ v \div (Base * Base) = d(d(v))
             /\ v \div (Base * Base * Base) = d(d(d(v)))
             /\ v \div (Base * Base * Base * Base) = d(d(d(d(v))))
  <2>1. v \div (Base * Base) = d(d(v))
    BY <1>1, DividedTwice
  <2>2. v \div (Base * Base * Base) = d(v \div (Base * Base))
    BY <1>1, <1>3, DividedTwice
  <2>3. v \div (Base * Base * Base * Base) = d(v \div (Base * Base * Base))
    BY <1>1, <1>3, DividedTwice
  <2> QED
    BY <2>1, <2>2, <2>3
<1>5. ASSUME NEW v \in 0 .. (Addresses - 1)
      PROVE  d(d(d(d(v)))) = 0
  <2>1. v \in Nat /\ v < Addresses /\ v = Addresses * 0 + v /\ Addresses \in Nat /\ Addresses > 0
    BY AddressesPositive
  <2>2. v \div Addresses = 0
    BY ONLY <2>1, DividedSo
  <2> QED
    BY <1>4, <2>1, <2>2 DEF Addresses
<1>6. ASSUME NEW v \in Nat
      PROVE  Octets(v) = <<e(d(d(d(v)))), e(d(d(v))), e(d(v)), e(v)>>
  BY <1>4 DEF Octets
<1>7. x \in Nat /\ y \in Nat
  BY AddressesPositive
<1>8. /\ e(x) = e(y) /\ e(d(x)) = e(d(y)) /\ e(d(d(x))) = e(d(d(y)))
      /\ e(d(d(d(x)))) = e(d(d(d(y))))
  <2>1. /\ Octets(x) = <<e(d(d(d(x)))), e(d(d(x))), e(d(x)), e(x)>>
        /\ Octets(y) = <<e(d(d(d(y)))), e(d(d(y))), e(d(y)), e(y)>>
    BY <1>6, <1>7
  <2>2. ASSUME NEW a1, NEW a2, NEW a3, NEW a4, NEW b1, NEW b2, NEW b3, NEW b4,
               <<a1, a2, a3, a4>> = <<b1, b2, b3, b4>>
        PROVE  a1 = b1 /\ a2 = b2 /\ a3 = b3 /\ a4 = b4
    BY ONLY <2>2
  <2>3. <<e(d(d(d(x)))), e(d(d(x))), e(d(x)), e(x)>> = <<e(d(d(d(y)))), e(d(d(y))), e(d(y)), e(y)>>
    BY ONLY <2>1, Octets(x) = Octets(y)
  <2> HIDE DEF d, e
  <2> QED
    BY <2>2, <2>3
<1>9. d(d(d(d(x)))) = d(d(d(d(y))))
  BY <1>5
<1> HIDE DEF d, e
<1>10. ASSUME NEW v \in Nat, NEW w \in Nat, d(v) = d(w), e(v) = e(w)
       PROVE  v = w
  <2>1. v = Base * d(v) + e(v) /\ w = Base * d(w) + e(w)
    BY <1>2
  <2> QED
    BY <1>10, <2>1
<1>11. \A v \in Nat : d(v) \in Nat
  BY <1>2
<1>12. d(d(d(x))) = d(d(d(y)))
  BY <1>7, <1>8, <1>9, <1>10, <1>11
<1>13. d(d(x)) = d(d(y))
  BY <1>7, <1>8, <1>12, <1>10, <1>11
<1>14. d(x) = d(y)
  BY <1>7, <1>8, <1>13, <1>10, <1>11
<1> QED
  BY <1>7, <1>8, <1>14, <1>10


-----------------------------------------------------------------------------
(* The addresses. *)

(* The requests that one process gave an address.                           *)
Given == [b \in Nat |-> {q \in Req : place[q] = "addressed" /\ boot[q] = b}]
Total == [b \in Nat |-> Cardinality(Given[b])]

GivenFinite == \A b \in Nat : IsFiniteSet(Given[b])

(* The counter has gone one step for each of them since the process began.  *)
CounterAt == ipCounter = (First + Total[boots]) % Addresses

(* nth says which one of its process each request was: no two were the same.*)
NumberedBy(nth) ==
  /\ \A r \in Req : place[r] = "addressed" =>
       nth[r] \in 1 .. Total[boot[r]] /\ address[r] = (First + nth[r]) % Addresses
  /\ \A r, s \in Req :
       place[r] = "addressed" /\ place[s] = "addressed" /\ r # s /\ boot[r] = boot[s] => nth[r] # nth[s]

InSequence == \E nth \in [Req -> Nat] : NumberedBy(nth)

AddressInv == GivenFinite /\ CounterAt /\ InSequence

LEMMA FirstIs == First \in Nat /\ First % Addresses = First
<1>1. First \in Nat /\ First < Addresses /\ First = Addresses * 0 + First
  BY IdentifierAssumption, AddressesPositive
<1> QED
  BY ONLY <1>1, AddressesPositive, DividedSo

(* While no address is given out and none forgotten.                        *)
LEMMA AddressesStay ==
  ASSUME AddressInv, boots' = boots, ipCounter' = ipCounter, address' = address,
         \A q \in Req : place'[q] = "addressed" <=> place[q] = "addressed",
         \A q \in Req : place[q] = "addressed" => boot'[q] = boot[q]
  PROVE  AddressInv'
<1>1. Given' = Given
  BY DEF Given
<1>2. Total' = Total
  BY <1>1 DEF Total
<1>3. GivenFinite' /\ CounterAt'
  BY <1>1, <1>2 DEF AddressInv, GivenFinite, CounterAt
<1>4. PICK nth \in [Req -> Nat] : NumberedBy(nth)
  BY DEF AddressInv, InSequence
<1>5. NumberedBy(nth)'
  BY <1>2, <1>4 DEF NumberedBy
<1> QED
  BY <1>3, <1>5 DEF AddressInv, InSequence

LEMMA AddressStep == RInv /\ AddressInv /\ [IdentifiersNext]_identifierVars => AddressInv'
<1> SUFFICES ASSUME RInv, AddressInv, [IdentifiersNext]_identifierVars PROVE AddressInv'
  OBVIOUS
<1>0. /\ IdentifiersTypeOK
      /\ \A r \in Req : InProgress(r) => boot[r] = boots
      /\ \A r \in Req : Begun(r) => boot[r] <= boots
  BY DEF RInv, OfThisBoot, NotAhead
<1>1. ASSUME NEW r \in Req, ReadClock(r) \/ Count(r) PROVE AddressInv'
  BY <1>0, <1>1, AddressesStay DEF ReadClock, Count, Advance, podVars, IdentifiersTypeOK
<1>2. ASSUME NEW r \in Req, AllocateIP(r) PROVE AddressInv'
  <2> DEFINE n == Total[boots]
  <2>1. /\ place[r] = "numbered" /\ place' = [place EXCEPT ![r] = "addressed"]
        /\ boots' = boots /\ boot' = boot /\ boot[r] = boots /\ boots \in Nat
        /\ ipCounter' = (ipCounter + 1) % Addresses /\ address' = [address EXCEPT ![r] = ipCounter']
    BY <1>0, <1>2 DEF AllocateIP, Advance, InProgress, IdentifiersTypeOK
  <2>2. Given'[boots] = Given[boots] \cup {r} /\ r \notin Given[boots]
    BY <1>0, <2>1 DEF Given, IdentifiersTypeOK
  <2>3. \A b \in Nat : b # boots => Given'[b] = Given[b]
    BY <1>0, <2>1 DEF Given, IdentifiersTypeOK
  <2>4. IsFiniteSet(Given[boots]) /\ n \in Nat
    BY <2>1, FS_CardinalityType DEF AddressInv, GivenFinite, Total
  <2>5. IsFiniteSet(Given'[boots]) /\ Total'[boots] = n + 1
    <3>1. /\ IsFiniteSet(Given[boots] \cup {r})
          /\ Cardinality(Given[boots] \cup {r}) = Cardinality(Given[boots]) + 1
      BY <2>2, <2>4, FS_AddElement
    <3> QED
      BY <2>1, <2>2, <3>1 DEF Total
  <2>6. \A b \in Nat : b # boots => Total'[b] = Total[b]
    BY <2>3 DEF Total
  <2>7. GivenFinite'
    BY <2>3, <2>5 DEF AddressInv, GivenFinite
  <2>8. ipCounter' = (First + (n + 1)) % Addresses
    <3>1. ipCounter = (First + n) % Addresses /\ First + n \in Nat
      BY <2>4, FirstIs DEF AddressInv, CounterAt
    <3>2. (((First + n) % Addresses) + 1) % Addresses = ((First + n) + 1) % Addresses
      BY <3>1, AddressesPositive, WrapsOn
    <3>3. (First + n) + 1 = First + (n + 1)
      BY <2>4, FirstIs
    <3> QED
      BY <2>1, <3>1, <3>2, <3>3
  <2>9. CounterAt'
    BY <2>1, <2>5, <2>8 DEF CounterAt, Total
  <2>10. PICK nth \in [Req -> Nat] : NumberedBy(nth)
    BY DEF AddressInv, InSequence
  <2>11. PICK new \in [Req -> Nat] : new = [nth EXCEPT ![r] = n + 1]
    <3>1. [nth EXCEPT ![r] = n + 1] \in [Req -> Nat]
      BY <2>4
    <3> HIDE DEF n
    <3> QED
      BY <3>1
  <2>12. NumberedBy(new)'
    <3>1. new[r] = n + 1 /\ \A q \in Req \ {r} : new[q] = nth[q]
      BY <2>11
    <3>2. ASSUME NEW q \in Req, place'[q] = "addressed"
          PROVE  /\ new[q] \in 1 .. Total'[boot'[q]]
                 /\ address'[q] = (First + new[q]) % Addresses
      <4>1. CASE q = r
        BY <1>0, <2>1, <2>4, <2>5, <2>8, <3>1, <4>1 DEF IdentifiersTypeOK
      <4>2. CASE q # r
        <5>1. place[q] = "addressed" /\ boot[q] \in Nat /\ address'[q] = address[q] /\ boot'[q] = boot[q]
          BY <1>0, <2>1, <3>2, <4>2 DEF IdentifiersTypeOK
        <5>2. nth[q] \in 1 .. Total[boot[q]] /\ address[q] = (First + nth[q]) % Addresses
          BY <2>10, <5>1 DEF NumberedBy
        <5>3. nth[q] \in 1 .. Total'[boot[q]]
          <6>1. CASE boot[q] = boots
            BY <2>4, <2>5, <5>2, <6>1
          <6>2. CASE boot[q] # boots
            BY <2>6, <5>1, <5>2, <6>2
          <6> QED
            BY <6>1, <6>2
        <5> QED
          BY <2>1, <3>1, <4>2, <5>1, <5>2, <5>3
      <4> QED
        BY <4>1, <4>2
    <3>3. ASSUME NEW q \in Req, NEW s \in Req, place'[q] = "addressed", place'[s] = "addressed",
                 q # s, boot'[q] = boot'[s]
          PROVE  new[q] # new[s]
      <4>1. ASSUME NEW x \in Req, x # r, place'[x] = "addressed", boot[x] = boots
            PROVE  nth[x] \in 1 .. n
        <5>1. place[x] = "addressed"
          BY <1>0, <2>1, <4>1 DEF IdentifiersTypeOK
        <5> QED
          BY <2>10, <4>1, <5>1 DEF NumberedBy
      <4>2. CASE q # r /\ s # r
        <5>1. place[q] = "addressed" /\ place[s] = "addressed" /\ boot[q] = boot[s]
          BY <1>0, <2>1, <3>3, <4>2 DEF IdentifiersTypeOK
        <5>2. nth[q] # nth[s]
          BY <2>10, <3>3, <5>1 DEF NumberedBy
        <5> QED
          BY <3>1, <4>2, <5>2
      <4>3. CASE q = r
        <5>1. nth[s] \in 1 .. n
          BY <2>1, <3>3, <4>1, <4>3
        <5> QED
          BY <2>4, <3>1, <3>3, <4>3, <5>1
      <4>4. CASE s = r
        <5>1. nth[q] \in 1 .. n
          BY <2>1, <3>3, <4>1, <4>4
        <5> QED
          BY <2>4, <3>1, <3>3, <4>4, <5>1
      <4> QED
        BY <4>2, <4>3, <4>4
    <3> QED
      BY <3>2, <3>3 DEF NumberedBy
  <2> QED
    BY <2>7, <2>9, <2>12 DEF AddressInv, InSequence
<1>3. CASE Tick
  BY <1>3, AddressesStay DEF Tick, reqVars
<1>4. CASE Restart
  <2>1. /\ boots' = boots + 1 /\ ipCounter' = First /\ boot' = boot /\ address' = address
        /\ \A q \in Req : place'[q] = "addressed" <=> place[q] = "addressed"
    BY <1>0, <1>4 DEF Restart, IdentifiersTypeOK
  <2>2. Given' = Given /\ Total' = Total
    BY <2>1 DEF Given, Total
  <2>3. Given[boots'] = {} /\ boots' \in Nat
    BY <1>0, <2>1 DEF Given, Begun, IdentifiersTypeOK
  <2>5. CounterAt'
    <3>1. Total'[boots'] = 0
      BY <2>2, <2>3, FS_EmptySet DEF Total
    <3> QED
      BY <2>1, <3>1, FirstIs DEF CounterAt
  <2>6. GivenFinite'
    BY <2>2 DEF AddressInv, GivenFinite
  <2>7. PICK nth \in [Req -> Nat] : NumberedBy(nth)
    BY DEF AddressInv, InSequence
  <2>8. NumberedBy(nth)'
    BY <2>1, <2>2, <2>7 DEF NumberedBy
  <2> QED
    BY <2>5, <2>6, <2>8 DEF AddressInv, InSequence
<1>5. CASE UNCHANGED identifierVars
  BY <1>5, AddressesStay DEF identifierVars, podVars, reqVars
<1> QED
  BY <1>1, <1>2, <1>3, <1>4, <1>5 DEF IdentifiersNext

(* A process gives no address twice before it has given all, whatever its   *)
(* handlers interleave and wherever the counter begins (service.go:94-103). *)
THEOREM AddressesUnique == IdentifiersSpec => []AddressesAreUnique
<1>1. IdentifiersInit => AddressInv
  <2> SUFFICES ASSUME IdentifiersInit PROVE AddressInv
    OBVIOUS
  <2>1. boots \in Nat /\ \A b \in Nat : Given[b] = {}
    BY DEF IdentifiersInit, Given
  <2>2. Total[boots] = 0 /\ GivenFinite
    BY <2>1, FS_EmptySet DEF Total, GivenFinite
  <2>3. CounterAt
    BY <2>2, FirstIs DEF IdentifiersInit, CounterAt
  <2>4. [r \in Req |-> 0] \in [Req -> Nat] /\ NumberedBy([r \in Req |-> 0])
    BY DEF IdentifiersInit, NumberedBy
  <2> QED
    BY <2>2, <2>3, <2>4 DEF AddressInv, InSequence
<1>2. IdentifiersTypeOK /\ AddressInv => AddressesAreUnique
  <2> SUFFICES ASSUME IdentifiersTypeOK, AddressInv, NEW r \in Req, NEW s \in Req,
                      place[r] = "addressed", place[s] = "addressed", r # s, boot[r] = boot[s],
                      Total[boot[r]] <= Addresses, Octets(address[r]) = Octets(address[s])
               PROVE  FALSE
    BY DEF AddressesAreUnique, Total, Given, IdentifiersTypeOK
  <2>1. address[r] = address[s]
    BY OctetsDiffer DEF IdentifiersTypeOK
  <2>2. PICK nth \in [Req -> Nat] : NumberedBy(nth)
    BY DEF AddressInv, InSequence
  <2>3. IsFiniteSet(Given[boot[r]])
    BY DEF AddressInv, GivenFinite, IdentifiersTypeOK
  <2>4. Total[boot[r]] \in Nat
    BY <2>3, FS_CardinalityType DEF Total, IdentifiersTypeOK
  <2>5. /\ nth[r] \in 1 .. Addresses /\ nth[s] \in 1 .. Addresses /\ nth[r] # nth[s]
        /\ (First + nth[r]) % Addresses = (First + nth[s]) % Addresses
    BY <2>1, <2>2, <2>4, AddressesPositive DEF NumberedBy
  <2> QED
    BY ONLY <2>5, FirstIs, AddressesPositive, WrapsApart
<1>3. RInv => IdentifiersTypeOK
  BY DEF RInv
<1> QED
  BY <1>1, <1>2, <1>3, AddressStep, IdentifiersInvariant, PTL DEF IdentifiersSpec

=============================================================================
