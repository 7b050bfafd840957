------------------------------ MODULE MCSmfProcess ------------------------------
(***************************************************************************)
(* The life of the SMF process for TLC: the start of SMF and UDM in every   *)
(* environment; and, after one start that brought the SMF to serve on       *)
(* PostgreSQL, either its requests and its orderly stop, or the calls of    *)
(* its goroutines to the database.                                          *)
(***************************************************************************)
EXTENDS SmfProcess, Startup, PostgresRepository

CONSTANTS
  r1, r2, r3,    \* requests
  s1,            \* dashboard streams
  w1, w2,        \* workers
  c1,            \* sessions in the database
  g1, g2, g3     \* goroutines that use it

NoSettings == [s \in Setting |-> Absent]

FilePostgres ==
  [kind |-> "read",
   settings |->
     [s \in Setting |->
        IF s \in {"smf.databaseUrl", "udm.databaseUrl"} THEN "postgres" ELSE Absent]]

FileSplit ==
  [kind |-> "read",
   settings |->
     [s \in Setting |->
        CASE s = "smf.databaseUrl" -> "memory"
          [] s = "udm.databaseUrl" -> ""
          [] s = "smf.queueSize" -> "-1"
          [] OTHER -> "0"]]

FileKind(k) == [kind |-> k, settings |-> NoSettings]

SomeFiles ==
  {FileKind(k) : k \in {"missing", "unreadable", "malformed"}} \cup {FilePostgres, FileSplit}

Environment(d, w, q) ==
  [v \in {"DATABASE_URL", "MAX_WORKERS", "QUEUE_SIZE"} |->
     CASE v = "DATABASE_URL" -> d [] v = "MAX_WORKERS" -> w [] OTHER -> q]

SomeEnvs ==
  {Environment(d, w, q) :
     d \in {"", "memory", "postgres", "word"}, w \in {"", "word", "0"}, q \in {"", "-1", "50"}}

(* One of the starts whose SMF serves, all else at its default.             *)
Started ==
  /\ status = [nf \in NF |-> "serving"]
  /\ file = FileKind("missing") /\ env = Environment("postgres", "", "50")
  /\ dbUp /\ ~dbWasDown /\ upfKnown

ProcessBegins == main = "serving" /\ \A c \in Conn : conn[c] = "none"

PostgresBegins == PgInit /\ DOMAIN pduSessions = {}

AllInit == Init /\ StartInit /\ PostgresBegins

AllNext ==
  \/ Next /\ Started /\ PostgresBegins /\ UNCHANGED <<startVars, pgVars>>
  \/ StartNext /\ ProcessBegins /\ PostgresBegins /\ UNCHANGED <<vars, pgVars>>
  \/ PgNext /\ Started /\ ProcessBegins /\ UNCHANGED <<vars, startVars>>

FairAllSpec ==
  AllInit /\ [][AllNext]_<<vars, startVars, pgVars>> /\ Fairness /\ PgFairness
=============================================================================
