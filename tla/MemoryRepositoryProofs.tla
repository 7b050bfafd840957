------------------------- MODULE MemoryRepositoryProofs -------------------------
(***************************************************************************)
(* The repository in memory implements the abstract table, for any number   *)
(* of goroutines, references and calls.                                     *)
(***************************************************************************)
EXTENDS MemoryRepository, TLAPS

LEMMA Setup == NoUser \notin User /\ MaxCalls \in Nat
  BY MemoryAssumption

-----------------------------------------------------------------------------
(* Rows and calls. *)

(* A call that is no listing is about one reference.                        *)
LEMMA CallShape ==
  ASSUME NEW c \in Call
  PROVE  /\ c = [op |-> c.op, refs |-> c.refs]
         /\ c.op \in Writes \cup {"get", "list"}
         /\ c.refs \subseteq Ref
         /\ c.op # "list" => \E r \in Ref : c.refs = {r}
  BY DEF Call, Writes

LEMMA TargetIs ==
  ASSUME NEW u \in User, call[u] \in Call, call[u].op # "list"
  PROVE  Target(u) \in Ref /\ call[u].refs = {Target(u)}
<1>1. PICK r \in Ref : call[u].refs = {r}
  BY CallShape
<1>2. \A q \in Ref : call[u].refs = {q} => q = r
  BY <1>1
<1> QED
  BY <1>1, <1>2 DEF Target

LEMMA UpdatedType ==
  ASSUME NEW row \in Row, NEW op
  PROVE  Updated(row, op) \in Row
  BY DEF Updated, Row

(* An update done twice is done once.                                       *)
LEMMA UpdatedTwice ==
  ASSUME NEW row \in Row, NEW op
  PROVE  Updated(Updated(row, op), op) = Updated(row, op)
<1>1. CASE op = "activate"
  BY <1>1 DEF Updated, Row
<1>2. CASE op # "activate"
  BY <1>2 DEF Updated, Row
<1> QED
  BY <1>1, <1>2

(* The status assigned first is the one the whole update assigns.           *)
LEMMA UpdatedAfterStatus ==
  ASSUME NEW row \in Row, NEW op,
         NEW half, half = [row EXCEPT !.status = Updated(row, op).status]
  PROVE  half \in Row /\ Updated(half, op) = Updated(row, op)
<1>1. CASE op = "activate"
  BY <1>1 DEF Updated, Row
<1>2. CASE op # "activate"
  BY <1>2 DEF Updated, Row
<1> QED
  BY <1>1, <1>2

LEMMA TablesAre ==
  /\ \A t \in Tables : t = [r \in DOMAIN t |-> t[r]] /\ DOMAIN t \subseteq Ref /\ \A r \in DOMAIN t : t[r] \in Row
  /\ \A t : t = [r \in DOMAIN t |-> t[r]] /\ DOMAIN t \subseteq Ref /\ (\A r \in DOMAIN t : t[r] \in Row) => t \in Tables
  /\ EmptyTable \in Tables
  /\ Fresh \in Row
<1>1. \A t \in Tables : t = [r \in DOMAIN t |-> t[r]] /\ DOMAIN t \subseteq Ref /\ \A r \in DOMAIN t : t[r] \in Row
  BY DEF Tables
<1>2. ASSUME NEW t, t = [r \in DOMAIN t |-> t[r]], DOMAIN t \subseteq Ref, \A r \in DOMAIN t : t[r] \in Row
      PROVE  t \in Tables
  <2>1. t \in [DOMAIN t -> Row] /\ DOMAIN t \in SUBSET Ref
    BY <1>2
  <2> QED
    BY <2>1 DEF Tables
<1>3. Fresh \in Row
  BY DEF Fresh, Row
<1>4. EmptyTable \in Tables
  <2>1. EmptyTable \in [{} -> Row] /\ {} \in SUBSET Ref
    BY DEF EmptyTable
  <2> QED
    BY <2>1 DEF Tables
<1> QED
  BY <1>1, <1>2, <1>3, <1>4

LEMMA AfterType ==
  ASSUME NEW t \in Tables, NEW c \in Call
  PROVE  After(t, c) \in Tables
<1>1. \A r \in DOMAIN t : Updated(t[r], c.op) \in Row /\ t[r] \in Row
  BY TablesAre, UpdatedType
<1>2. DOMAIN t \subseteq Ref /\ c.refs \subseteq Ref
  BY TablesAre, CallShape
<1>3. CASE c.op = "save"
  <2>1. DOMAIN After(t, c) = DOMAIN t \cup c.refs
    BY <1>3 DEF After
  <2>2. \A r \in DOMAIN t \cup c.refs : After(t, c)[r] \in Row
    BY <1>1, <1>3, TablesAre DEF After
  <2>3. After(t, c) = [r \in DOMAIN After(t, c) |-> After(t, c)[r]]
    BY <1>3, <2>1 DEF After
  <2> QED
    BY <2>1, <2>2, <2>3, <1>2, TablesAre
<1>4. CASE c.op # "save"
  <2>1. DOMAIN After(t, c) = DOMAIN t
    BY <1>4 DEF After
  <2>2. \A r \in DOMAIN t : After(t, c)[r] \in Row
    BY <1>1, <1>4 DEF After
  <2>3. After(t, c) = [r \in DOMAIN After(t, c) |-> After(t, c)[r]]
    BY <1>4, <2>1 DEF After
  <2> QED
    BY <2>1, <2>2, <2>3, <1>2, TablesAre
<1> QED
  BY <1>3, <1>4

(* A call done twice is done once.                                          *)
LEMMA AfterTwice ==
  ASSUME NEW t \in Tables, NEW c \in Call
  PROVE  After(After(t, c), c) = After(t, c)
<1>1. CASE c.op = "save"
  BY <1>1 DEF After
<1>2. CASE c.op # "save"
  <2>1. \A r \in DOMAIN t : Updated(Updated(t[r], c.op), c.op) = Updated(t[r], c.op)
    BY TablesAre, UpdatedTwice
  <2> QED
    BY <1>2, <2>1 DEF After
<1> QED
  BY <1>1, <1>2

(* An update of a reference that is not there changes nothing.              *)
LEMMA AfterMissing ==
  ASSUME NEW t \in Tables, NEW c \in Call, c.op # "save", c.refs \cap DOMAIN t = {}
  PROVE  After(t, c) = t
<1>1. \A r \in DOMAIN t : r \notin c.refs
  OBVIOUS
<1>2. t = [r \in DOMAIN t |-> t[r]]
  BY TablesAre
<1> QED
  BY <1>1, <1>2 DEF After

-----------------------------------------------------------------------------
(* The lock is held by the writer that is inside, or by the readers.        *)
WriterInside == writer # NoUser =>
  /\ IsWrite(writer) /\ pc[writer] \in {"looking", "assigning", "unlocking"}
  /\ readers = {}

InsideIsWriter == \A u \in User :
  /\ pc[u] \in {"looking", "assigning"} => IsWrite(u)
  /\ pc[u] = "reading" => ~IsWrite(u)
  /\ pc[u] \in {"looking", "assigning", "unlocking"} /\ IsWrite(u) => writer = u

ReadersInside == \A u \in User :
  u \in readers <=> ~IsWrite(u) /\ pc[u] \in {"reading", "unlocking"}

(* What a goroutine is about to return, and what it has done so far.        *)
BeforeDone(u) ==
  /\ pc[u] \in {"locking", "looking", "assigning"} => acc[u] = NoResult
  /\ pc[u] = "assigning" => call[u].op # "save" /\ call[u].refs \subseteq DOMAIN sessions

WriteDone(u) ==
  pc[u] = "unlocking" /\ IsWrite(u) =>
    /\ After(sessions, call[u]) = sessions
    /\ acc[u].ok <=> call[u].op = "save" \/ call[u].refs \subseteq DOMAIN sessions
    /\ acc[u].rows = EmptyTable

ReadSoFar(u) ==
  pc[u] \in {"reading", "unlocking"} /\ ~IsWrite(u) =>
    /\ left[u] \subseteq call[u].refs \cap DOMAIN sessions
    /\ pc[u] = "unlocking" => left[u] = {}
    /\ acc[u].ok <=> (call[u].op = "get" => call[u].refs \subseteq DOMAIN sessions)
    /\ acc[u].rows = Restrict(sessions, (call[u].refs \cap DOMAIN sessions) \ left[u])

LockInv == WriterInside /\ InsideIsWriter /\ ReadersInside

DataInv == \A u \in User : BeforeDone(u) /\ WriteDone(u) /\ ReadSoFar(u)

MInv == TypeOK /\ LockInv /\ DataInv

LEMMA InitInv == Init => MInv
<1> SUFFICES ASSUME Init PROVE MInv
  OBVIOUS
<1>1. TypeOK
  <2>1. [op |-> "list", refs |-> Ref] \in Call
    BY DEF Call
  <2>2. NoResult \in Result
    BY TablesAre DEF NoResult, Result
  <2> QED
    BY <2>1, <2>2, TablesAre, Setup DEF Init, TypeOK, Place
<1>2. LockInv
  BY DEF Init, LockInv, WriterInside, InsideIsWriter, ReadersInside
<1>3. DataInv
  BY DEF Init, DataInv, BeforeDone, WriteDone, ReadSoFar
<1> QED
  BY <1>1, <1>2, <1>3 DEF MInv

-----------------------------------------------------------------------------
(* What the steps inside the lock do to the map and to the answer.          *)
LEMMA AssignStatusDoes ==
  ASSUME MInv, NEW u \in User, AssignStatus(u)
  PROVE  /\ sessions' \in Tables /\ DOMAIN sessions' = DOMAIN sessions
         /\ After(sessions', call[u]) = After(sessions, call[u])
         /\ call[u].refs \subseteq DOMAIN sessions
<1> DEFINE t == Target(u)
           half == [sessions[t] EXCEPT !.status = Updated(sessions[t], call[u].op).status]
<1>1. IsWrite(u) /\ call[u] \in Call /\ sessions \in Tables
  BY DEF MInv, LockInv, InsideIsWriter, AssignStatus, Move, TypeOK
<1>2. call[u].op \notin {"list", "save"}
  BY <1>1 DEF IsWrite, Writes, AssignStatus
<1>3. t \in DOMAIN sessions /\ call[u].refs = {t} /\ sessions[t] \in Row
  BY <1>1, <1>2, TargetIs, TablesAre DEF AssignStatus
<1>4. half \in Row /\ Updated(half, call[u].op) = Updated(sessions[t], call[u].op)
  BY <1>3, UpdatedAfterStatus
<1>5. sessions' = [sessions EXCEPT ![t] = half]
  BY <1>3 DEF AssignStatus
<1> HIDE DEF half, t
<1>6. sessions' = [r \in DOMAIN sessions |-> IF r = t THEN half ELSE sessions[r]]
  BY <1>1, <1>5, TablesAre
<1>7. DOMAIN sessions' = DOMAIN sessions
  BY <1>6
<1>8. sessions' \in Tables
  BY <1>1, <1>4, <1>6, <1>7, TablesAre
<1>9. After(sessions', call[u]) = After(sessions, call[u])
  BY <1>2, <1>3, <1>4, <1>6, <1>7 DEF After
<1> QED
  BY <1>3, <1>7, <1>8, <1>9

LEMMA AssignRestDoes ==
  ASSUME MInv, NEW u \in User, AssignRest(u)
  PROVE  /\ sessions' = After(sessions, call[u])
         /\ call[u].refs \subseteq DOMAIN sessions /\ DOMAIN sessions' = DOMAIN sessions
         /\ call[u].op # "save"
<1> DEFINE t == Target(u)
           new == Updated(sessions[t], call[u].op)
<1>1. IsWrite(u) /\ call[u] \in Call /\ sessions \in Tables
  BY DEF MInv, LockInv, InsideIsWriter, AssignRest, Move, TypeOK
<1>2. call[u].op # "save" /\ call[u].refs \subseteq DOMAIN sessions
  BY DEF MInv, DataInv, BeforeDone, AssignRest, Move
<1>3. call[u].op \notin {"list", "save"}
  BY <1>1, <1>2 DEF IsWrite, Writes
<1>4. t \in DOMAIN sessions /\ call[u].refs = {t}
  BY <1>1, <1>2, <1>3, TargetIs
<1>5. sessions' = [sessions EXCEPT ![t] = new]
  BY <1>4 DEF AssignRest
<1> HIDE DEF new, t
<1>6. sessions' = [r \in DOMAIN sessions |-> IF r = t THEN new ELSE sessions[r]]
  BY <1>1, <1>5, TablesAre
<1>7. sessions' = After(sessions, call[u])
  BY <1>3, <1>4, <1>6 DEF After, new
<1> QED
  BY <1>2, <1>6, <1>7

LEMMA WithOneMore ==
  ASSUME NEW t \in Tables, NEW D \in SUBSET Ref, NEW L \in SUBSET D, NEW r \in L
  PROVE  With(Restrict(t, D \ L), r, t[r]) = Restrict(t, D \ (L \ {r}))
<1>1. (D \ L) \cup {r} = D \ (L \ {r})
  OBVIOUS
<1>2. DOMAIN Restrict(t, D \ L) = D \ L
  BY DEF Restrict
<1>3. With(Restrict(t, D \ L), r, t[r])
        = [q \in D \ (L \ {r}) |-> IF q = r THEN t[r] ELSE Restrict(t, D \ L)[q]]
  BY <1>1, <1>2 DEF With
<1>4. \A q \in D \ (L \ {r}) : (IF q = r THEN t[r] ELSE Restrict(t, D \ L)[q]) = t[q]
  BY <1>1 DEF Restrict
<1>5. Restrict(t, D \ (L \ {r})) = [q \in D \ (L \ {r}) |-> t[q]]
  BY DEF Restrict
<1> QED
  BY <1>3, <1>4, <1>5

LEMMA RestrictType ==
  ASSUME NEW t \in Tables, NEW S \in SUBSET DOMAIN t
  PROVE  Restrict(t, S) \in Tables
<1>1. DOMAIN Restrict(t, S) = S /\ \A r \in S : Restrict(t, S)[r] = t[r]
  BY DEF Restrict
<1>2. Restrict(t, S) = [r \in DOMAIN Restrict(t, S) |-> Restrict(t, S)[r]]
  BY DEF Restrict
<1> QED
  BY <1>1, <1>2, TablesAre

LEMMA CopyRowDoes ==
  ASSUME MInv, NEW u \in User, CopyRow(u)
  PROVE  /\ ~IsWrite(u) /\ left'[u] \subseteq left[u]
         /\ acc' = [acc EXCEPT ![u].rows = Restrict(sessions, (call[u].refs \cap DOMAIN sessions) \ left'[u])]
         /\ left' \in [User -> SUBSET Ref] /\ acc' \in [User -> Result]
         /\ \A v \in User \ {u} : left'[v] = left[v] /\ acc'[v] = acc[v]
<1> DEFINE D == call[u].refs \cap DOMAIN sessions
<1>1. ~IsWrite(u) /\ pc[u] = "reading"
  BY DEF MInv, LockInv, InsideIsWriter, CopyRow
<1>2. /\ left[u] \subseteq D
      /\ acc[u].rows = Restrict(sessions, D \ left[u])
  <2>1. ReadSoFar(u)
    BY DEF MInv, DataInv
  <2> QED
    BY <1>1, <2>1 DEF ReadSoFar
<1>3. PICK r \in left[u] : /\ acc' = [acc EXCEPT ![u].rows = With(@, r, sessions[r])]
                           /\ left' = [left EXCEPT ![u] = @ \ {r}]
  BY DEF CopyRow
<1>4. left'[u] = left[u] \ {r}
  BY <1>3 DEF MInv, TypeOK
<1>5. With(acc[u].rows, r, sessions[r]) = Restrict(sessions, D \ left'[u])
  <2> HIDE DEF D
  <2>1. With(Restrict(sessions, D \ left[u]), r, sessions[r]) = Restrict(sessions, D \ (left[u] \ {r}))
    <3>1. sessions \in Tables /\ D \in SUBSET Ref /\ left[u] \in SUBSET D
      BY <1>2, CallShape DEF D, MInv, TypeOK
    <3> QED
      BY ONLY <3>1, WithOneMore
  <2> QED
    BY <1>2, <1>4, <2>1
<1>6. acc' = [acc EXCEPT ![u].rows = Restrict(sessions, D \ left'[u])]
  BY <1>3, <1>5
<1>7. Restrict(sessions, D \ left'[u]) \in Tables
  BY RestrictType DEF MInv, TypeOK
<1>8. acc' \in [User -> Result]
  BY <1>6, <1>7 DEF MInv, TypeOK, Result
<1>9. left' \in [User -> SUBSET Ref]
  BY <1>3 DEF MInv, TypeOK
<1>10. \A v \in User \ {u} : left'[v] = left[v] /\ acc'[v] = acc[v]
  BY <1>3 DEF MInv, TypeOK
<1> QED
  BY <1>1, <1>4, <1>6, <1>8, <1>9, <1>10

-----------------------------------------------------------------------------
(* The types are kept.                                                      *)
LEMMA TypeStep == MInv /\ [Next]_vars => TypeOK'
<1> SUFFICES ASSUME MInv, [Next]_vars PROVE TypeOK'
  OBVIOUS
<1> USE DEF MInv
<1>1. ASSUME NEW u \in User, Invoke(u) PROVE TypeOK'
  <2>1. NoResult \in Result
    BY TablesAre DEF NoResult, Result
  <2> QED
    BY <1>1, <2>1, Setup DEF Invoke, Move, TypeOK, mutex, Place
<1>2. ASSUME NEW u \in User, Lock(u) PROVE TypeOK'
  BY <1>2 DEF Lock, Move, TypeOK, Place
<1>3. ASSUME NEW u \in User, RLock(u) PROVE TypeOK'
  <2>1. call[u].refs \cap DOMAIN sessions \subseteq Ref
    BY CallShape DEF TypeOK
  <2>2. [acc EXCEPT ![u].ok = (call[u].op = "get" => call[u].refs \subseteq DOMAIN sessions)]
          \in [User -> Result]
    BY DEF TypeOK, Result
  <2> QED
    BY <1>3, <2>1, <2>2 DEF RLock, Move, TypeOK, Place
<1>4. ASSUME NEW u \in User, Save(u) PROVE TypeOK'
  <2>1. After(sessions, call[u]) \in Tables
    BY AfterType DEF TypeOK
  <2>2. [acc EXCEPT ![u].ok = TRUE] \in [User -> Result]
    BY DEF TypeOK, Result
  <2> QED
    BY <1>4, <2>1, <2>2 DEF Save, Move, TypeOK, Place, mutex
<1>5. ASSUME NEW u \in User, NotFound(u) PROVE TypeOK'
  BY <1>5 DEF NotFound, Move, TypeOK, Place, mutex
<1>6. ASSUME NEW u \in User, AssignStatus(u) PROVE TypeOK'
  BY <1>6, AssignStatusDoes DEF AssignStatus, Move, TypeOK, Place, mutex
<1>7. ASSUME NEW u \in User, AssignRest(u) PROVE TypeOK'
  <2>1. sessions' \in Tables
    BY <1>7, AssignRestDoes, AfterType DEF TypeOK
  <2>2. [acc EXCEPT ![u].ok = TRUE] \in [User -> Result]
    BY DEF TypeOK, Result
  <2> QED
    BY <1>7, <2>1, <2>2 DEF AssignRest, Move, TypeOK, Place, mutex
<1>8. ASSUME NEW u \in User, CopyRow(u) PROVE TypeOK'
  BY <1>8, CopyRowDoes DEF CopyRow, TypeOK, mutex
<1>9. ASSUME NEW u \in User, AllCopied(u) PROVE TypeOK'
  BY <1>9 DEF AllCopied, Move, TypeOK, Place, mutex
<1>10. ASSUME NEW u \in User, Unlock(u) PROVE TypeOK'
  BY <1>10 DEF Unlock, Move, TypeOK, Place
<1>11. CASE UNCHANGED vars
  BY <1>11 DEF vars, mutex, TypeOK
<1> QED
  BY <1>1, <1>2, <1>3, <1>4, <1>5, <1>6, <1>7, <1>8, <1>9, <1>10, <1>11 DEF Next, Step

(* Lock and places go together.                                             *)
LEMMA LockStep == MInv /\ [Next]_vars => LockInv'
<1> SUFFICES ASSUME MInv, [Next]_vars PROVE LockInv'
  OBVIOUS
<1> USE DEF MInv, LockInv, WriterInside, InsideIsWriter, ReadersInside
<1>0. \A u \in User : u # NoUser
  BY Setup
<1>1. ASSUME NEW u \in User, Invoke(u) PROVE LockInv'
  <2>1. u \notin readers /\ writer # u
    BY <1>0, <1>1 DEF Invoke, Move
  <2>2. \A v \in User \ {u} : pc'[v] = pc[v] /\ call'[v] = call[v]
    BY <1>1 DEF Invoke, Move, TypeOK
  <2>3. pc'[u] = "locking" /\ writer' = writer /\ readers' = readers
    BY <1>1 DEF Invoke, Move, TypeOK, mutex
  <2> QED
    BY <2>1, <2>2, <2>3 DEF IsWrite, TypeOK
<1>2. ASSUME NEW u \in User, Lock(u) PROVE LockInv'
  <2>1. pc' = [pc EXCEPT ![u] = "looking"] /\ pc[u] = "locking"
    BY <1>2 DEF Lock, Move
  <2>2. writer' = u /\ readers = {} /\ readers' = {} /\ writer = NoUser /\ IsWrite(u)
    BY <1>2 DEF Lock
  <2>3. \A v \in User : IsWrite(v)' <=> IsWrite(v)
    BY <1>2 DEF Lock, IsWrite
  <2> QED
    BY <1>0, <2>1, <2>2, <2>3 DEF TypeOK
<1>3. ASSUME NEW u \in User, RLock(u) PROVE LockInv'
  <2>1. pc' = [pc EXCEPT ![u] = "reading"] /\ pc[u] = "locking"
    BY <1>3 DEF RLock, Move
  <2>2. writer' = NoUser /\ writer = NoUser /\ readers' = readers \cup {u} /\ ~IsWrite(u)
    BY <1>3 DEF RLock
  <2>3. \A v \in User : IsWrite(v)' <=> IsWrite(v)
    BY <1>3 DEF RLock, IsWrite
  <2> QED
    BY <1>0, <2>1, <2>2, <2>3 DEF TypeOK
<1>4. ASSUME NEW u \in User, Save(u) \/ NotFound(u) \/ AssignStatus(u) \/ AssignRest(u) PROVE LockInv'
  <2>1. /\ pc[u] \in {"looking", "assigning"}
        /\ \E to \in {"assigning", "unlocking"} : pc' = [pc EXCEPT ![u] = to]
    BY <1>4 DEF Save, NotFound, AssignStatus, AssignRest, Move
  <2>2. writer' = writer /\ readers' = readers /\ writer = u /\ IsWrite(u)
    BY <1>4, <2>1 DEF Save, NotFound, AssignStatus, AssignRest, mutex
  <2>3. \A v \in User : IsWrite(v)' <=> IsWrite(v)
    BY <1>4 DEF Save, NotFound, AssignStatus, AssignRest, IsWrite
  <2> QED
    BY <1>0, <2>1, <2>2, <2>3 DEF TypeOK
<1>5. ASSUME NEW u \in User, CopyRow(u) PROVE LockInv'
  BY <1>5 DEF CopyRow, mutex, IsWrite
<1>6. ASSUME NEW u \in User, AllCopied(u) PROVE LockInv'
  <2>1. pc' = [pc EXCEPT ![u] = "unlocking"] /\ pc[u] = "reading"
    BY <1>6 DEF AllCopied, Move
  <2>2. writer' = writer /\ readers' = readers /\ ~IsWrite(u)
    BY <1>6, <2>1 DEF AllCopied, mutex
  <2>3. \A v \in User : IsWrite(v)' <=> IsWrite(v)
    BY <1>6 DEF AllCopied, IsWrite
  <2> QED
    BY <2>1, <2>2, <2>3 DEF TypeOK
<1>7. ASSUME NEW u \in User, Unlock(u) PROVE LockInv'
  <2>1. pc' = [pc EXCEPT ![u] = "idle"] /\ pc[u] = "unlocking"
    BY <1>7 DEF Unlock, Move
  <2>2. writer' = (IF writer = u THEN NoUser ELSE writer) /\ readers' = readers \ {u}
    BY <1>7 DEF Unlock
  <2>3. \A v \in User : IsWrite(v)' <=> IsWrite(v)
    BY <1>7 DEF Unlock, IsWrite
  <2>4. writer' # NoUser => IsWrite(writer)' /\ writer' = writer /\ writer # u /\ writer \in User
    BY <2>2, <1>7 DEF TypeOK, Unlock, IsWrite
  <2> QED
    BY <1>0, <2>1, <2>2, <2>3, <2>4 DEF TypeOK
<1>8. CASE UNCHANGED vars
  BY <1>8 DEF vars, mutex, IsWrite
<1> QED
  BY <1>1, <1>2, <1>3, <1>4, <1>5, <1>6, <1>7, <1>8 DEF Next, Step

-----------------------------------------------------------------------------
(* What a goroutine that does not move has done stays done.                 *)
LEMMA DataStays ==
  ASSUME MInv, NEW v \in User,
         pc'[v] = pc[v], call'[v] = call[v], acc'[v] = acc[v], left'[v] = left[v],
         pc[v] \in {"idle", "locking"} \/ sessions' = sessions
  PROVE  (BeforeDone(v) /\ WriteDone(v) /\ ReadSoFar(v))'
<1>1. BeforeDone(v) /\ WriteDone(v) /\ ReadSoFar(v)
  BY DEF MInv, DataInv
<1>2. CASE pc[v] \in {"idle", "locking"}
  BY <1>1, <1>2 DEF BeforeDone, WriteDone, ReadSoFar, NoResult
<1>3. CASE sessions' = sessions
  BY <1>1, <1>3 DEF BeforeDone, WriteDone, ReadSoFar, IsWrite, NoResult
<1> QED
  BY <1>2, <1>3

LEMMA DataStep == MInv /\ [Next]_vars => DataInv'
<1> SUFFICES ASSUME MInv, [Next]_vars PROVE DataInv'
  OBVIOUS
<1>0. \A u \in User : BeforeDone(u) /\ WriteDone(u) /\ ReadSoFar(u)
  BY DEF MInv, DataInv
<1> DEFINE Ok(v) == (BeforeDone(v) /\ WriteDone(v) /\ ReadSoFar(v))'
<1> USE DEF Ok
<1>1. ASSUME NEW u \in User, Invoke(u) PROVE DataInv'
  <2>1. \A v \in User \ {u} : Ok(v)
    BY <1>1, DataStays DEF Invoke, Move, MInv, TypeOK
  <2>2. Ok(u)
    BY <1>1 DEF Invoke, Move, MInv, TypeOK, BeforeDone, WriteDone, ReadSoFar, NoResult
  <2> QED
    BY <2>1, <2>2 DEF DataInv
<1>2. ASSUME NEW u \in User, Lock(u) PROVE DataInv'
  <2>1. \A v \in User \ {u} : Ok(v)
    BY <1>2, DataStays DEF Lock, Move, MInv, TypeOK
  <2>2. Ok(u)
    BY <1>0, <1>2 DEF Lock, Move, MInv, TypeOK, BeforeDone, WriteDone, ReadSoFar, NoResult
  <2> QED
    BY <2>1, <2>2 DEF DataInv
<1>3. ASSUME NEW u \in User, RLock(u) PROVE DataInv'
  <2>1. \A v \in User \ {u} : Ok(v)
    BY <1>3, DataStays DEF RLock, Move, MInv, TypeOK
  <2>2. pc'[u] = "reading" /\ left'[u] = call[u].refs \cap DOMAIN sessions /\ ~IsWrite(u)'
    BY <1>3 DEF RLock, Move, MInv, TypeOK, IsWrite
  <2>3. /\ acc'[u].ok <=> (call[u].op = "get" => call[u].refs \subseteq DOMAIN sessions)
        /\ acc'[u].rows = acc[u].rows
    BY <1>3 DEF RLock, MInv, TypeOK, Result
  <2>4. acc[u] = NoResult
    BY <1>0, <1>3 DEF BeforeDone, RLock, Move
  <2>5. Restrict(sessions, {}) = EmptyTable
    BY DEF Restrict, EmptyTable
  <2>6. sessions' = sessions /\ call' = call
    BY <1>3 DEF RLock
  <2>7. (call[u].refs \cap DOMAIN sessions) \ left'[u] = {}
    BY <2>2
  <2>8. acc'[u].rows = Restrict(sessions, (call[u].refs \cap DOMAIN sessions) \ left'[u])
    BY <2>3, <2>4, <2>5, <2>7 DEF NoResult
  <2>9. Ok(u)
    BY <2>2, <2>3, <2>6, <2>8 DEF BeforeDone, WriteDone, ReadSoFar
  <2> QED
    BY <2>1, <2>9 DEF DataInv
<1>4. ASSUME NEW u \in User, pc[u] \in {"looking", "assigning"},
             NEW to \in {"assigning", "unlocking"}, pc' = [pc EXCEPT ![u] = to],
             UNCHANGED <<mutex, call, left>>, \A v \in User \ {u} : acc'[v] = acc[v],
             Ok(u)
      PROVE  DataInv'
  <2>1. writer = u /\ readers = {}
    BY <1>4, Setup DEF MInv, LockInv, InsideIsWriter, WriterInside, TypeOK
  <2>2. ASSUME NEW v \in User \ {u} PROVE pc[v] \in {"idle", "locking"}
    BY <2>1, <2>2, Setup DEF MInv, LockInv, InsideIsWriter, ReadersInside, TypeOK, Place
  <2>3. \A v \in User \ {u} : Ok(v)
    BY <1>4, <2>2, DataStays DEF MInv, TypeOK, mutex
  <2> QED
    BY <1>4, <2>3 DEF DataInv
<1>5. ASSUME NEW u \in User, Save(u) PROVE DataInv'
  <2>1. /\ pc' = [pc EXCEPT ![u] = "unlocking"] /\ pc[u] = "looking"
        /\ call' = call /\ call[u].op = "save" /\ IsWrite(u)'
        /\ sessions' = After(sessions, call[u])
    BY <1>5 DEF Save, Move, IsWrite, Writes
  <2>2. acc' = [acc EXCEPT ![u].ok = TRUE] /\ acc[u] = NoResult
    BY <1>0, <1>5 DEF Save, Move, BeforeDone
  <2>3. acc'[u].ok /\ acc'[u].rows = EmptyTable
    BY <2>2 DEF MInv, TypeOK, Result, NoResult
  <2>4. After(sessions', call[u]) = sessions'
    BY <2>1, AfterTwice DEF MInv, TypeOK
  <2>5. pc'[u] = "unlocking"
    BY <2>1 DEF MInv, TypeOK
  <2>6. Ok(u)
    BY <2>1, <2>3, <2>4, <2>5 DEF BeforeDone, WriteDone, ReadSoFar
  <2>7. \A v \in User \ {u} : acc'[v] = acc[v]
    BY <2>2 DEF MInv, TypeOK
  <2> QED
    BY <1>4, <1>5, <2>1, <2>6, <2>7 DEF Save
<1>6. ASSUME NEW u \in User, NotFound(u) PROVE DataInv'
  <2>1. /\ pc' = [pc EXCEPT ![u] = "unlocking"] /\ pc[u] = "looking"
        /\ call' = call /\ call[u].op # "save" /\ sessions' = sessions /\ acc' = acc
        /\ acc[u] = NoResult /\ IsWrite(u)
    BY <1>0, <1>6 DEF NotFound, Move, BeforeDone, MInv, LockInv, InsideIsWriter
  <2>2. call[u].refs = {Target(u)}
    BY <2>1, TargetIs DEF MInv, TypeOK, IsWrite, Writes
  <2>3. Target(u) \notin DOMAIN sessions
    BY <1>6 DEF NotFound
  <2>4. After(sessions, call[u]) = sessions
    BY <2>1, <2>2, <2>3, AfterMissing DEF MInv, TypeOK
  <2>5. pc'[u] = "unlocking" /\ IsWrite(u)'
    BY <2>1 DEF MInv, TypeOK, IsWrite
  <2>6. Ok(u)
    BY <2>1, <2>2, <2>3, <2>4, <2>5 DEF BeforeDone, WriteDone, ReadSoFar, NoResult
  <2> QED
    BY <1>4, <1>6, <2>1, <2>6 DEF NotFound
<1>7. ASSUME NEW u \in User, AssignStatus(u) PROVE DataInv'
  <2>1. /\ pc' = [pc EXCEPT ![u] = "assigning"] /\ pc[u] = "looking"
        /\ call' = call /\ call[u].op # "save" /\ acc' = acc /\ acc[u] = NoResult
    BY <1>0, <1>7 DEF AssignStatus, Move, BeforeDone
  <2>2. call[u].refs \subseteq DOMAIN sessions /\ DOMAIN sessions' = DOMAIN sessions
    BY <1>7, AssignStatusDoes
  <2>3. pc'[u] = "assigning"
    BY <2>1 DEF MInv, TypeOK
  <2>4. Ok(u)
    BY <2>1, <2>2, <2>3 DEF BeforeDone, WriteDone, ReadSoFar
  <2> QED
    BY <1>4, <1>7, <2>1, <2>4 DEF AssignStatus
<1>8. ASSUME NEW u \in User, AssignRest(u) PROVE DataInv'
  <2>1. /\ pc' = [pc EXCEPT ![u] = "unlocking"] /\ pc[u] = "assigning"
        /\ call' = call /\ acc' = [acc EXCEPT ![u].ok = TRUE] /\ acc[u] = NoResult
    BY <1>0, <1>8 DEF AssignRest, Move, BeforeDone
  <2>2. /\ sessions' = After(sessions, call[u])
        /\ call[u].refs \subseteq DOMAIN sessions /\ DOMAIN sessions' = DOMAIN sessions
        /\ call[u].op # "save"
    BY <1>8, AssignRestDoes
  <2>3. acc'[u].ok /\ acc'[u].rows = EmptyTable
    BY <2>1 DEF MInv, TypeOK, Result, NoResult
  <2>4. After(sessions', call[u]) = sessions'
    BY <2>2, AfterTwice DEF MInv, TypeOK
  <2>5. pc'[u] = "unlocking" /\ IsWrite(u)'
    BY <2>1 DEF MInv, TypeOK, IsWrite, LockInv, InsideIsWriter
  <2>6. Ok(u)
    BY <2>1, <2>2, <2>3, <2>4, <2>5 DEF BeforeDone, WriteDone, ReadSoFar
  <2>7. \A v \in User \ {u} : acc'[v] = acc[v]
    BY <2>1 DEF MInv, TypeOK
  <2> QED
    BY <1>4, <1>8, <2>1, <2>6, <2>7 DEF AssignRest
<1>9. ASSUME NEW u \in User, CopyRow(u) PROVE DataInv'
  <2>1. /\ ~IsWrite(u) /\ left'[u] \subseteq left[u]
        /\ acc' = [acc EXCEPT ![u].rows = Restrict(sessions, (call[u].refs \cap DOMAIN sessions) \ left'[u])]
        /\ \A v \in User \ {u} : left'[v] = left[v] /\ acc'[v] = acc[v]
    BY <1>9, CopyRowDoes
  <2>2. sessions' = sessions /\ pc' = pc /\ call' = call /\ pc[u] = "reading"
    BY <1>9 DEF CopyRow
  <2>3. \A v \in User \ {u} : Ok(v)
    BY <2>1, <2>2, DataStays
  <2>4. /\ acc'[u].ok = acc[u].ok
        /\ acc'[u].rows = Restrict(sessions, (call[u].refs \cap DOMAIN sessions) \ left'[u])
    BY <2>1 DEF MInv, TypeOK, Result
  <2>5. Ok(u)
    BY <1>0, <2>1, <2>2, <2>4 DEF BeforeDone, WriteDone, ReadSoFar, IsWrite
  <2> QED
    BY <2>3, <2>5 DEF DataInv
<1>10. ASSUME NEW u \in User, AllCopied(u) PROVE DataInv'
  <2>1. \A v \in User \ {u} : Ok(v)
    BY <1>10, DataStays DEF AllCopied, Move, MInv, TypeOK
  <2>2. ReadSoFar(u) /\ pc[u] = "reading" /\ left[u] = {} /\ ~IsWrite(u)
    BY <1>0, <1>10 DEF AllCopied, Move, MInv, LockInv, InsideIsWriter
  <2>3. pc'[u] = "unlocking" /\ UNCHANGED <<sessions, call, left, acc>>
    BY <1>10 DEF AllCopied, Move, MInv, TypeOK
  <2>4. Ok(u)
    BY <2>2, <2>3 DEF BeforeDone, WriteDone, ReadSoFar, IsWrite
  <2> QED
    BY <2>1, <2>4 DEF DataInv
<1>11. ASSUME NEW u \in User, Unlock(u) PROVE DataInv'
  <2>1. \A v \in User \ {u} : Ok(v)
    BY <1>11, DataStays DEF Unlock, Move, MInv, TypeOK
  <2>2. Ok(u)
    BY <1>11 DEF Unlock, Move, MInv, TypeOK, BeforeDone, WriteDone, ReadSoFar
  <2> QED
    BY <2>1, <2>2 DEF DataInv
<1>12. CASE UNCHANGED vars
  BY <1>12, DataStays DEF vars, mutex, DataInv
<1> QED
  BY <1>1, <1>2, <1>3, <1>5, <1>6, <1>7, <1>8, <1>9, <1>10, <1>11, <1>12 DEF Next, Step

(* The invariant: who holds the lock, what the writer that holds it has     *)
(* still to do, and what a reader has copied so far.  With it the types.    *)
THEOREM MemoryInvariant == Spec => []MInv
<1>1. MInv /\ [Next]_vars => MInv'
  BY TypeStep, LockStep, DataStep DEF MInv
<1> QED
  BY InitInv, <1>1, PTL DEF Spec

-----------------------------------------------------------------------------
(* The abstract table's own copies of the rows and calls are the same.      *)
LEMMA SameRows ==
  /\ Table!Writes = Writes /\ Table!Call = Call /\ Table!NoResult = NoResult
  /\ Table!EmptyTable = EmptyTable /\ Table!Tables = Tables
  /\ \A t, c : Table!After(t, c) = After(t, c)
<1>1. Table!Fresh = Fresh /\ Table!Row = Row /\ Table!Writes = Writes
  BY DEF Table!Fresh, Fresh, Table!Row, Row, Table!Writes, Writes
<1>2. \A row, op : Table!Updated(row, op) = Updated(row, op)
  BY DEF Table!Updated, Updated
<1>3. Table!EmptyTable = EmptyTable /\ Table!Tables = Tables
  BY <1>1 DEF Table!EmptyTable, EmptyTable, Table!Tables, Tables
<1>4. Table!NoResult = NoResult
  BY <1>3 DEF Table!NoResult, NoResult
<1>5. Table!Call = Call
  BY <1>1 DEF Table!Call, Call
<1>6. \A t, c : Table!After(t, c) = After(t, c)
  BY <1>1, <1>2 DEF Table!After, After
<1> QED
  BY <1>1, <1>3, <1>4, <1>5, <1>6

LEMMA SameWrite == \A u : Table!IsWrite(u) <=> IsWrite(u)
  BY SameRows DEF Table!IsWrite, IsWrite

(* The table that the others see.                                           *)
LEMMA TableNowIs ==
  ASSUME MInv
  PROVE  /\ writer = NoUser => TableNow = sessions
         /\ writer # NoUser => TableNow = After(sessions, call[writer])
  BY Setup DEF MInv, TypeOK, LockInv, WriterInside, TableNow, Writing

LEMMA TableNextIs ==
  ASSUME MInv'
  PROVE  /\ writer' = NoUser => TableNow' = sessions'
         /\ writer' # NoUser => TableNow' = After(sessions', call'[writer'])
  BY Setup DEF MInv, TypeOK, LockInv, WriterInside, TableNow, Writing

LEMMA PhaseMoves ==
  ASSUME TypeOK, NEW u \in User, NEW to \in Place, pc' = [pc EXCEPT ![u] = to]
  PROVE  /\ PhaseNow' = [PhaseNow EXCEPT ![u] =
              CASE to = "idle" -> "idle" [] to = "locking" -> "called" [] OTHER -> "taken"]
         /\ pc[u] = "idle" => PhaseNow[u] = "idle"
         /\ pc[u] = "locking" => PhaseNow[u] = "called"
         /\ pc[u] \notin {"idle", "locking"} => PhaseNow[u] = "taken"
  BY DEF PhaseNow, TypeOK, Place

LEMMA HeldMoves ==
  ASSUME NEW u \in User,
         \A v \in User \ {u} : pc'[v] = pc[v] /\ (pc[v] \in {"idle", "locking"} \/ Found(v)' = Found(v)),
         NEW h, h = IF pc'[u] \in {"idle", "locking"} THEN NoResult ELSE Found(u)'
  PROVE  HeldNow' = [HeldNow EXCEPT ![u] = h]
<1>1. NoResult' = NoResult
  BY DEF NoResult, EmptyTable, Fresh
<1> QED
  BY <1>1 DEF HeldNow

LEMMA AnswerMoves ==
  ASSUME NEW u \in User,
         \A v \in User \ {u} : pc'[v] = pc[v] /\ acc'[v] = acc[v],
         NEW a, a = IF pc'[u] = "idle" THEN acc'[u] ELSE NoResult
  PROVE  AnswerNow' = [AnswerNow EXCEPT ![u] = a]
<1>1. NoResult' = NoResult
  BY DEF NoResult, EmptyTable, Fresh
<1> QED
  BY <1>1 DEF AnswerNow

LEMMA FoundStays ==
  ASSUME UNCHANGED <<sessions, call>>, NEW v \in User
  PROVE  Found(v)' = Found(v)
  BY DEF Found, IsWrite, EmptyTable, Fresh

LEMMA ResultFields ==
  ASSUME NEW x \in Result
  PROVE  /\ x = [ok |-> x.ok, rows |-> x.rows] /\ x.ok \in BOOLEAN /\ x.rows \in Tables
         /\ \A b \in BOOLEAN : [x EXCEPT !.ok = b] = [ok |-> b, rows |-> x.rows]
         /\ \A t \in Tables : [x EXCEPT !.rows = t] = [ok |-> x.ok, rows |-> t]
  BY DEF Result

LEMMA NoResultIs == NoResult \in Result /\ NoResult.ok = FALSE /\ NoResult.rows = EmptyTable
  BY TablesAre DEF NoResult, Result

LEMMA NoResultWith ==
  ASSUME NEW t \in Tables
  PROVE  [NoResult EXCEPT !.rows = t] = [ok |-> FALSE, rows |-> t]
<1>1. NoResult \in Result /\ NoResult.ok = FALSE
  BY NoResultIs
<1> HIDE DEF NoResult
<1>2. [NoResult EXCEPT !.rows = t] = [ok |-> NoResult.ok, rows |-> t]
  BY ONLY <1>1, ResultFields
<1> QED
  BY <1>1, <1>2

(* A call begins, in the code and in the table.                             *)
LEMMA InvokeMaps ==
  ASSUME MInv, MInv', NEW u \in User, Invoke(u)
  PROVE  Table!Begin(u)
<1>1. /\ pc[u] = "idle" /\ pc' = [pc EXCEPT ![u] = "locking"] /\ acc' = [acc EXCEPT ![u] = NoResult]
      /\ UNCHANGED <<sessions, writer, readers>>
  BY DEF Invoke, Move, mutex
<1>2. PICK c \in Call : call' = [call EXCEPT ![u] = c]
  BY DEF Invoke
<1>3. /\ \A v \in User \ {u} : pc'[v] = pc[v] /\ acc'[v] = acc[v] /\ call'[v] = call[v]
      /\ pc'[u] = "locking"
  BY <1>1, <1>2 DEF MInv, TypeOK
<1>4. TableNow' = TableNow
  <2>1. writer # u
    BY <1>1, Setup DEF MInv, LockInv, WriterInside
  <2>2. CASE writer = NoUser
    BY <1>1, <2>2, TableNowIs, TableNextIs
  <2>3. CASE writer # NoUser
    <3>1. writer \in User \ {u}
      BY <2>1, <2>3 DEF MInv, TypeOK
    <3>2. TableNow = After(sessions, call[writer]) /\ TableNow' = After(sessions', call'[writer'])
      BY <1>1, <2>3, TableNowIs, TableNextIs
    <3> QED
      BY <1>1, <1>3, <3>1, <3>2
  <2> QED
    BY <2>2, <2>3
<1>5. PhaseNow[u] = "idle" /\ PhaseNow' = [PhaseNow EXCEPT ![u] = "called"]
  BY <1>1, PhaseMoves DEF MInv, Place
<1>6. HeldNow' = HeldNow
  <2>1. \A v \in User \ {u} : Found(v)' = Found(v)
    BY <1>1, <1>3 DEF Found, IsWrite, EmptyTable, Fresh
  <2>2. NoResult' = NoResult
    BY DEF NoResult, EmptyTable, Fresh
  <2> QED
    BY <1>1, <1>3, <2>1, <2>2 DEF HeldNow
<1>7. AnswerNow' = [AnswerNow EXCEPT ![u] = NoResult]
  BY <1>3, AnswerMoves
<1> QED
  BY <1>2, <1>4, <1>5, <1>6, <1>7, SameRows DEF Table!Begin

(* A write takes place when the lock is taken.                              *)
LEMMA LockMaps ==
  ASSUME MInv, MInv', NEW u \in User, Lock(u)
  PROVE  Table!Take(u)
<1>1. /\ pc[u] = "locking" /\ pc' = [pc EXCEPT ![u] = "looking"]
      /\ IsWrite(u) /\ writer = NoUser /\ writer' = u
      /\ UNCHANGED <<sessions, call, acc>>
  BY DEF Lock, Move
<1>2. /\ \A v \in User \ {u} : pc'[v] = pc[v] /\ acc'[v] = acc[v]
      /\ pc'[u] = "looking"
  BY <1>1 DEF MInv, TypeOK
<1>3. TableNow = sessions /\ TableNow' = After(sessions, call[u])
  BY <1>1, Setup, TableNowIs, TableNextIs
<1>4. PhaseNow[u] = "called" /\ PhaseNow' = [PhaseNow EXCEPT ![u] = "taken"]
  BY <1>1, PhaseMoves DEF MInv, Place
<1> DEFINE b == call[u].op = "save" \/ call[u].refs \subseteq DOMAIN sessions
<1>5. HeldNow' = [HeldNow EXCEPT ![u].ok = b]
  <2>1. \A v \in User : Found(v)' = Found(v)
    BY <1>1, FoundStays
  <2>2. HeldNow' = [HeldNow EXCEPT ![u] = Found(u)]
    BY <1>2, <2>1, HeldMoves
  <2>3. HeldNow[u] = NoResult
    BY <1>1 DEF HeldNow
  <2>4. Found(u) = [ok |-> b, rows |-> EmptyTable]
    BY <1>1 DEF Found
  <2>5. b \in BOOLEAN
    OBVIOUS
  <2> HIDE DEF b
  <2>6. [NoResult EXCEPT !.ok = b] = [ok |-> b, rows |-> EmptyTable]
    BY ONLY <2>5, ResultFields, NoResultIs
  <2> QED
    BY <2>2, <2>3, <2>4, <2>6
<1>6. AnswerNow' = AnswerNow
  <2>1. NoResult' = NoResult
    BY DEF NoResult, EmptyTable, Fresh
  <2> QED
    BY <1>1, <1>2, <2>1 DEF AnswerNow
<1>7. b \in BOOLEAN
  OBVIOUS
<1> HIDE DEF b
<1>8. Table!Write(u)
  BY <1>1, <1>3, <1>5, <1>7, SameRows, SameWrite DEF Table!Write
<1> QED
  BY <1>1, <1>4, <1>6, <1>8 DEF Table!Take

(* A read takes place when its lock is taken.                               *)
LEMMA RLockMaps ==
  ASSUME MInv, MInv', NEW u \in User, RLock(u)
  PROVE  Table!Take(u)
<1>1. /\ pc[u] = "locking" /\ pc' = [pc EXCEPT ![u] = "reading"]
      /\ ~IsWrite(u) /\ writer = NoUser /\ writer' = NoUser
      /\ UNCHANGED <<sessions, call>>
  BY DEF RLock, Move
<1>2. /\ \A v \in User \ {u} : pc'[v] = pc[v] /\ acc'[v] = acc[v]
      /\ pc'[u] = "reading"
  BY <1>1 DEF MInv, TypeOK, RLock
<1>3. TableNow = sessions /\ TableNow' = sessions
  BY <1>1, TableNowIs, TableNextIs
<1>4. PhaseNow[u] = "called" /\ PhaseNow' = [PhaseNow EXCEPT ![u] = "taken"]
  BY <1>1, PhaseMoves DEF MInv, Place
<1> DEFINE S == call[u].refs \cap DOMAIN sessions
           t == Restrict(sessions, S)
<1>5. HeldNow' = [HeldNow EXCEPT ![u].rows = t]
  <2>1. \A v \in User : Found(v)' = Found(v)
    BY <1>1, FoundStays
  <2>2. HeldNow' = [HeldNow EXCEPT ![u] = Found(u)]
    BY <1>2, <2>1, HeldMoves
  <2>3. HeldNow[u] = NoResult
    BY <1>1 DEF HeldNow
  <2>4. Found(u) = [ok |-> FALSE, rows |-> t]
    BY <1>1 DEF Found
  <2>0. t \in Tables
    BY RestrictType DEF MInv, TypeOK
  <2> HIDE DEF t
  <2>5. [NoResult EXCEPT !.rows = t] = [ok |-> FALSE, rows |-> t]
    BY ONLY <2>0, NoResultWith
  <2> QED
    BY <2>2, <2>3, <2>4, <2>5
<1>6. AnswerNow' = AnswerNow
  <2>1. NoResult' = NoResult
    BY DEF NoResult, EmptyTable, Fresh
  <2> QED
    BY <1>1, <1>2, <2>1 DEF AnswerNow
<1>7. Table!Read(u)
  <2>1. t = Table!Restrict(TableNow, S) /\ S \in SUBSET (call[u].refs \cap DOMAIN TableNow)
    BY <1>3 DEF Restrict, Table!Restrict
  <2>2. HeldNow' = [HeldNow EXCEPT ![u].rows = Table!Restrict(TableNow, S)]
    BY <1>5, <2>1
  <2>3. ~Table!IsWrite(u) /\ TableNow' = TableNow
    BY <1>1, <1>3, SameWrite
  <2> HIDE DEF S, t
  <2> QED
    BY ONLY <2>1, <2>2, <2>3 DEF Table!Read
<1> QED
  BY <1>1, <1>4, <1>6, <1>7 DEF Table!Take

(* Inside the lock the table has the write already.                         *)
LEMMA InsideMaps ==
  ASSUME MInv, MInv', NEW u \in User,
         Save(u) \/ NotFound(u) \/ AssignStatus(u) \/ AssignRest(u)
  PROVE  UNCHANGED <<TableNow, PhaseNow, call, HeldNow, AnswerNow>>
<1>1. /\ pc[u] \in {"looking", "assigning"} /\ IsWrite(u) /\ call' = call
      /\ UNCHANGED <<writer, readers>>
  BY DEF Save, NotFound, AssignStatus, AssignRest, Move, mutex, MInv, LockInv, InsideIsWriter
<1>2. PICK to \in {"assigning", "unlocking"} : pc' = [pc EXCEPT ![u] = to]
  BY DEF Save, NotFound, AssignStatus, AssignRest, Move
<1>3. writer = u /\ readers = {} /\ writer # NoUser
  BY <1>1, Setup DEF MInv, LockInv, InsideIsWriter, WriterInside
<1>4. \A v \in User \ {u} : pc'[v] = pc[v] /\ pc[v] \in {"idle", "locking"} /\ acc'[v] = acc[v]
  <2>1. \A v \in User \ {u} : pc'[v] = pc[v] /\ pc[v] \in {"idle", "locking"}
    BY <1>2, <1>3 DEF MInv, LockInv, InsideIsWriter, ReadersInside, TypeOK, Place
  <2>2. \A v \in User \ {u} : acc'[v] = acc[v]
    BY DEF Save, NotFound, AssignStatus, AssignRest, MInv, TypeOK
  <2> QED
    BY <2>1, <2>2
<1>5. pc'[u] = to
  BY <1>2 DEF MInv, TypeOK
<1>6. After(sessions', call[u]) = After(sessions, call[u])
  <2>1. CASE Save(u) \/ AssignRest(u)
    <3>1. sessions' = After(sessions, call[u])
      BY <2>1, AssignRestDoes DEF Save
    <3> QED
      BY <3>1, AfterTwice DEF MInv, TypeOK
  <2>2. CASE NotFound(u)
    BY <2>2 DEF NotFound
  <2>3. CASE AssignStatus(u)
    BY <2>3, AssignStatusDoes
  <2> QED
    BY <2>1, <2>2, <2>3
<1>7. TableNow' = TableNow
  BY <1>1, <1>3, <1>6, TableNowIs, TableNextIs
<1>8. PhaseNow' = PhaseNow
  BY <1>1, <1>4, <1>5 DEF PhaseNow
<1>9. Found(u)' = Found(u)
  <2>1. call[u].op = "save" \/ DOMAIN sessions' = DOMAIN sessions
    BY AssignStatusDoes, AssignRestDoes DEF Save, NotFound
  <2>2. IsWrite(u)' /\ EmptyTable' = EmptyTable
    BY <1>1 DEF IsWrite, EmptyTable, Fresh
  <2> QED
    BY <1>1, <2>1, <2>2 DEF Found
<1>10. NoResult' = NoResult
  BY DEF NoResult, EmptyTable, Fresh
<1>11. HeldNow' = HeldNow
  BY <1>1, <1>4, <1>5, <1>9, <1>10 DEF HeldNow
<1>12. AnswerNow' = AnswerNow
  BY <1>1, <1>4, <1>5, <1>10 DEF AnswerNow
<1> QED
  BY <1>1, <1>7, <1>8, <1>11, <1>12

LEMMA CopyMaps ==
  ASSUME MInv, MInv', NEW u \in User, CopyRow(u) \/ AllCopied(u)
  PROVE  UNCHANGED <<TableNow, PhaseNow, call, HeldNow, AnswerNow>>
<1>1. /\ pc[u] = "reading" /\ pc'[u] \in {"reading", "unlocking"}
      /\ \A v \in User \ {u} : pc'[v] = pc[v]
      /\ UNCHANGED <<sessions, writer, readers, call>>
  BY DEF CopyRow, AllCopied, Move, mutex, MInv, TypeOK
<1>2. \A v \in User \ {u} : acc'[v] = acc[v]
  BY CopyRowDoes DEF AllCopied
<1>3. NoResult' = NoResult
  BY DEF NoResult, EmptyTable, Fresh
<1>4. \A v \in User : Found(v)' = Found(v)
  BY <1>1, FoundStays
<1>5. TableNow' = TableNow
  BY <1>1, TableNowIs, TableNextIs
<1>6. PhaseNow' = PhaseNow
  BY <1>1 DEF PhaseNow
<1>7. HeldNow' = HeldNow
  BY <1>1, <1>3, <1>4 DEF HeldNow
<1>8. AnswerNow' = AnswerNow
  BY <1>1, <1>2, <1>3 DEF AnswerNow
<1> QED
  BY <1>1, <1>5, <1>6, <1>7, <1>8

(* The unlock returns what was found or done.                               *)
LEMMA UnlockMaps ==
  ASSUME MInv, MInv', NEW u \in User, Unlock(u)
  PROVE  Table!End(u)
<1>1. /\ pc[u] = "unlocking" /\ pc' = [pc EXCEPT ![u] = "idle"]
      /\ writer' = IF writer = u THEN NoUser ELSE writer
      /\ UNCHANGED <<sessions, call, left, acc>>
  BY DEF Unlock, Move
<1>2. /\ \A v \in User \ {u} : pc'[v] = pc[v]
      /\ pc'[u] = "idle"
  BY <1>1 DEF MInv, TypeOK
<1>3. WriteDone(u) /\ ReadSoFar(u) /\ acc[u] \in Result /\ call[u] \in Call /\ sessions \in Tables
  BY DEF MInv, DataInv, TypeOK
<1>4. TableNow' = TableNow
  <2>1. CASE writer = u
    <3>1. IsWrite(u) /\ writer # NoUser
      BY <2>1, Setup DEF MInv, LockInv, WriterInside
    <3>2. After(sessions, call[u]) = sessions
      BY <1>1, <1>3, <3>1 DEF WriteDone
    <3> QED
      BY <1>1, <2>1, <3>1, <3>2, TableNowIs, TableNextIs
  <2>2. CASE writer # u
    BY <1>1, <2>2, TableNowIs, TableNextIs
  <2> QED
    BY <2>1, <2>2
<1>5. PhaseNow[u] = "taken" /\ PhaseNow' = [PhaseNow EXCEPT ![u] = "idle"]
  BY <1>1, PhaseMoves DEF MInv, Place
<1>6. HeldNow[u] = Found(u) /\ HeldNow' = [HeldNow EXCEPT ![u] = NoResult]
  <2>1. \A v \in User : Found(v)' = Found(v)
    BY <1>1, FoundStays
  <2> QED
    BY <1>1, <1>2, <2>1, HeldMoves DEF HeldNow
<1>7. AnswerNow' = [AnswerNow EXCEPT ![u] = acc[u]]
  BY <1>1, <1>2, AnswerMoves
<1>8. acc[u] = [ok |-> acc[u].ok, rows |-> acc[u].rows] /\ acc[u].ok \in BOOLEAN
  BY <1>3, ResultFields
<1>9. \/ Table!Answer(u, Table!IsWrite(u) /\ HeldNow[u].ok, Table!EmptyTable)
      \/ Table!AnswerRows(u)
  <2>1. CASE IsWrite(u)
    <3>0. HeldNow[u].ok <=> call[u].op = "save" \/ call[u].refs \subseteq DOMAIN sessions
      <4> DEFINE b == call[u].op = "save" \/ call[u].refs \subseteq DOMAIN sessions
      <4>1. Found(u) = [ok |-> b, rows |-> EmptyTable]
        BY <2>1 DEF Found
      <4> HIDE DEF b
      <4>2. Found(u).ok = b
        BY <4>1
      <4> QED
        BY <1>6, <4>2 DEF b
    <3>1. acc[u].rows = EmptyTable /\ (acc[u].ok <=> HeldNow[u].ok)
      BY <1>1, <1>3, <2>1, <3>0 DEF WriteDone
    <3>2. acc[u].ok = (Table!IsWrite(u) /\ HeldNow[u].ok)
      BY <1>8, <2>1, <3>1, SameWrite
    <3> QED
      BY <1>7, <1>8, <3>1, <3>2, SameRows DEF Table!Answer
  <2> DEFINE S == call[u].refs \cap DOMAIN sessions
  <2>2. ASSUME ~IsWrite(u)
        PROVE  /\ acc[u].rows = Restrict(sessions, S)
               /\ acc[u].ok <=> (call[u].op = "get" => call[u].refs \subseteq DOMAIN sessions)
               /\ HeldNow[u].rows = Restrict(sessions, S)
    <3>1. S \ left[u] = S
      BY <1>1, <1>3, <2>2 DEF ReadSoFar
    <3>2. HeldNow[u].rows = Restrict(sessions, S)
      BY <1>6, <2>2 DEF Found
    <3> QED
      BY <1>1, <1>3, <2>2, <3>1, <3>2 DEF ReadSoFar
  <2>3. CASE ~IsWrite(u) /\ ~acc[u].ok
    <3>1. call[u].op = "get" /\ ~(call[u].refs \subseteq DOMAIN sessions)
      BY <2>2, <2>3
    <3>2. PICK r \in Ref : call[u].refs = {r}
      BY <1>3, <3>1, CallShape
    <3>3. S = {}
      BY <3>1, <3>2
    <3>4. acc[u].rows = EmptyTable
      BY <2>2, <2>3, <3>3 DEF Restrict, EmptyTable
    <3>5. acc[u].ok = (Table!IsWrite(u) /\ HeldNow[u].ok)
      BY <1>8, <2>3, SameWrite
    <3> QED
      BY <1>7, <1>8, <3>4, <3>5, SameRows DEF Table!Answer
  <2>4. CASE ~IsWrite(u) /\ acc[u].ok
    <3>1. S \in SUBSET DOMAIN HeldNow[u].rows
      BY <2>2, <2>4 DEF Restrict
    <3>2. call[u].op = "get" => S = call[u].refs
      BY <2>2, <2>4
    <3>3. acc[u].rows = Table!Restrict(HeldNow[u].rows, S)
      BY <2>2, <2>4 DEF Restrict, Table!Restrict
    <3>4. acc[u] = [ok |-> TRUE, rows |-> Table!Restrict(HeldNow[u].rows, S)]
      BY <1>8, <2>4, <3>3
    <3>5. Table!Answer(u, TRUE, Table!Restrict(HeldNow[u].rows, S))
      BY <1>7, <3>4 DEF Table!Answer
    <3>6. ~Table!IsWrite(u)
      BY <2>4, SameWrite
    <3> HIDE DEF S
    <3> QED
      BY ONLY <3>1, <3>2, <3>5, <3>6 DEF Table!AnswerRows
  <2> QED
    BY <2>1, <2>3, <2>4
<1> QED
  BY <1>1, <1>4, <1>5, <1>6, <1>9, SameRows DEF Table!End

LEMMA InitMaps == Init => Table!TableInit
<1> SUFFICES ASSUME Init PROVE Table!TableInit
  OBVIOUS
<1>1. MInv
  BY InitInv
<1>2. TableNow = EmptyTable
  BY <1>1, TableNowIs DEF Init
<1>3. /\ PhaseNow = [u \in User |-> "idle"] /\ HeldNow = [u \in User |-> NoResult]
      /\ AnswerNow = [u \in User |-> NoResult]
  BY DEF Init, PhaseNow, HeldNow, AnswerNow
<1>4. call \in [User -> Call]
  BY <1>1 DEF MInv, TypeOK
<1> QED
  BY <1>2, <1>3, <1>4, SameRows, TablesAre DEF Table!TableInit

(* The repository in memory is the table (db.go:39-128).                    *)
THEOREM MemoryIsTable == Spec => ImplementsTable
<1>1. MInv /\ MInv' /\ [Next]_vars => [Table!TableNext]_Table!tableVars
  <2> SUFFICES ASSUME MInv, MInv', [Next]_vars PROVE [Table!TableNext]_Table!tableVars
    OBVIOUS
  <2>1. ASSUME NEW u \in User, Invoke(u) PROVE Table!TableNext
    BY <2>1, InvokeMaps DEF Table!TableNext
  <2>2. ASSUME NEW u \in User, Lock(u) \/ RLock(u) PROVE Table!TableNext
    BY <2>2, LockMaps, RLockMaps DEF Table!TableNext
  <2>3. ASSUME NEW u \in User, Unlock(u) PROVE Table!TableNext
    BY <2>3, UnlockMaps DEF Table!TableNext
  <2>4. ASSUME NEW u \in User,
               \/ Save(u) \/ NotFound(u) \/ AssignStatus(u) \/ AssignRest(u)
               \/ CopyRow(u) \/ AllCopied(u)
        PROVE  UNCHANGED Table!tableVars
    BY <2>4, InsideMaps, CopyMaps DEF Table!tableVars
  <2>5. CASE UNCHANGED vars
    BY <2>5 DEF vars, mutex, Table!tableVars, TableNow, Writing, PhaseNow, HeldNow, AnswerNow,
                Found, IsWrite, NoResult, EmptyTable, Fresh
  <2> QED
    BY <2>1, <2>2, <2>3, <2>4, <2>5 DEF Next, Step
<1> QED
  BY InitMaps, <1>1, MemoryInvariant, PTL DEF Spec, ImplementsTable, Table!TableSpec
=============================================================================
