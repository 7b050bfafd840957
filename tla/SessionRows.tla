------------------------------ MODULE SessionRows ------------------------------
(***************************************************************************)
(* The rows of the session store and the calls of SessionRepository         *)
(* (internal/smf/db.go), reduced to the fields the updates write.           *)
(***************************************************************************)
EXTENDS Functions

CONSTANT Ref     \* SM context references

Row ==
  [status : {"CREATING", "ACTIVE", "FAILED"}, ip : {"", "assigned"}, reason : {"", "cause"}]

Fresh == [status |-> "CREATING", ip |-> "", reason |-> ""]

Tables == UNION {[S -> Row] : S \in SUBSET Ref}

Writes == {"save", "activate", "fail"}

(* A listing stands for the counts as well: they count what it would list.  *)
Call ==
  [op : Writes \cup {"get"}, refs : {{r} : r \in Ref}] \cup [op : {"list"}, refs : {Ref}]

Result == [ok : BOOLEAN, rows : Tables]
EmptyTable == [r \in {} |-> Fresh]
NoResult == [ok |-> FALSE, rows |-> EmptyTable]

(* The fields of a row after UpdateSessionStatusAndIP, ...WithReason.       *)
Updated(row, op) ==
  IF op = "activate"
    THEN [row EXCEPT !.status = "ACTIVE", !.ip = "assigned"]
    ELSE [row EXCEPT !.status = "FAILED", !.reason = "cause"]

With(t, r, row) == [q \in DOMAIN t \cup {r} |-> IF q = r THEN row ELSE t[q]]

After(t, c) ==
  IF c.op = "save"
    THEN [r \in DOMAIN t \cup c.refs |-> IF r \in c.refs THEN Fresh ELSE t[r]]
    ELSE [r \in DOMAIN t |-> IF r \in c.refs THEN Updated(t[r], c.op) ELSE t[r]]
=============================================================================
