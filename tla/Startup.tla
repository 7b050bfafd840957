-------------------------------- MODULE Startup --------------------------------
(***************************************************************************)
(* The start of SMF and UDM: the configuration they load from one file and  *)
(* one environment (pkg/config/config.go), the choice between PostgreSQL    *)
(* and memory (internal/smf/db.go, internal/udm/db.go), and the order in    *)
(* which `main' builds the parts (cmd/smf/main.go, cmd/udm/main.go).  The   *)
(* database and the UPF's name come and go meanwhile.                       *)
(*                                                                         *)
(* A value is a string; "word" is neither a number nor a connection string. *)
(* The settings that are not named here are strings, read like the two      *)
(* database URLs, and have no effect on the start.                          *)
(***************************************************************************)
EXTENDS Naturals, Sequences

NF == {"SMF", "UDM"}
Numeric == {"smf.maxWorkers", "smf.queueSize"}
Setting == Numeric \cup {"smf.databaseUrl", "udm.databaseUrl"}
Variable == {"DATABASE_URL", "MAX_WORKERS", "QUEUE_SIZE"}

CONSTANTS
  Files,     \* what the configuration file may be
  Envs,      \* what the environment may be
  Absent     \* a setting the file does not have

Number == {"-1", "0", "20", "50", "5000"}

(* A file whose numeric settings are no numbers is malformed: they are read *)
(* into integers.                                                           *)
ASSUME StartAssumption ==
  \A f \in Files :
    f.kind = "read" => \A s \in Numeric : f.settings[s] \in Number \cup {Absent}

VARIABLES
  file, env,     \* what this start finds
  dbUp,          \* the database answers a ping within five seconds
  dbWasDown,     \* it did not at some moment of this start
  upfKnown,      \* the UPF's name can be resolved
  stage,         \* how many parts `main' has built
  conf,          \* the configuration each process has loaded
  repo,          \* its repository
  pools,         \* connection pools it has open
  status

inputs == <<file, env>>
world == <<dbUp, dbWasDown, upfKnown>>
procs == <<stage, conf, repo, pools, status>>
startVars == <<inputs, world, procs>>

-----------------------------------------------------------------------------
(* Load: the defaults, then the file over them, then the environment.       *)

DefaultConfig ==
  [s \in Setting |->
     CASE s = "smf.maxWorkers" -> "20"
       [] s = "smf.queueSize" -> "5000"
       [] OTHER -> "memory"]

(* Mutant: the two services do not share the variable. *)
VariableOwn(s) ==
  CASE s = "smf.databaseUrl" -> "DATABASE_URL"
    [] s = "smf.maxWorkers" -> "MAX_WORKERS"
    [] OTHER -> "QUEUE_SIZE"

VariableOf(s) ==
  CASE s \in {"smf.databaseUrl", "udm.databaseUrl"} -> "DATABASE_URL"
    [] s = "smf.maxWorkers" -> "MAX_WORKERS"
    [] s = "smf.queueSize" -> "QUEUE_SIZE"

Given(f) == {s \in Setting : f.kind = "read" /\ f.settings[s] # Absent}

(* An empty variable counts as unset, one that is no number is ignored.     *)
Overrides(e) ==
  {s \in Setting : e[VariableOf(s)] # "" /\ (s \in Numeric => e[VariableOf(s)] \in Number)}

Load(f, e) ==
  [s \in Setting |->
     IF s \in Overrides(e) THEN e[VariableOf(s)]
     ELSE IF s \in Given(f) THEN f.settings[s] ELSE DefaultConfig[s]]

-----------------------------------------------------------------------------
DatabaseUrl(nf) == conf[nf][IF nf = "SMF" THEN "smf.databaseUrl" ELSE "udm.databaseUrl"]

(* What main builds, in this order. *)
Parts(nf) ==
  IF nf = "SMF" THEN <<"config", "repository", "pfcp", "orchestrator", "hub", "server">>
                ELSE <<"config", "repository", "server">>

Built(nf, part) == \E i \in 1 .. stage[nf] : Parts(nf)[i] = part

Starting(nf, part) ==
  /\ status[nf] = "starting"
  /\ stage[nf] < Len(Parts(nf))
  /\ Parts(nf)[stage[nf] + 1] = part

Done(nf) == stage' = [stage EXCEPT ![nf] = @ + 1]
Exit(nf) == status' = [status EXCEPT ![nf] = "exited"]

StartTypeOK ==
  /\ file \in Files /\ env \in Envs
  /\ {dbUp, dbWasDown, upfKnown} \subseteq BOOLEAN
  /\ \A nf \in NF :
       /\ stage[nf] \in 0 .. Len(Parts(nf))
       /\ DOMAIN conf[nf] = Setting
       /\ repo[nf] \in {"none", "connecting", "memory", "postgres"}
       /\ pools[nf] \in 0 .. 1
       /\ status[nf] \in {"starting", "serving", "exited"}

StartInit ==
  /\ file \in Files /\ env \in Envs
  /\ dbUp \in BOOLEAN /\ dbWasDown = ~dbUp
  /\ upfKnown \in BOOLEAN
  /\ stage = [nf \in NF |-> 0]
  /\ conf = [nf \in NF |-> DefaultConfig]
  /\ repo = [nf \in NF |-> "none"]
  /\ pools = [nf \in NF |-> 0]
  /\ status = [nf \in NF |-> "starting"]

LoadConfig(nf) ==
  /\ Starting(nf, "config")
  /\ IF file.kind \in {"unreadable", "malformed"}
       THEN Exit(nf) /\ UNCHANGED <<stage, conf>>
       ELSE /\ conf' = [conf EXCEPT ![nf] = Load(file, env)]
            /\ Done(nf) /\ UNCHANGED status
  /\ UNCHANGED <<inputs, world, repo, pools>>

UseMemory(nf) ==
  /\ Starting(nf, "repository") /\ repo[nf] = "none"
  /\ DatabaseUrl(nf) \in {"memory", ""}
  /\ repo' = [repo EXCEPT ![nf] = "memory"]
  /\ Done(nf)
  /\ UNCHANGED <<inputs, world, conf, pools, status>>

(* The connection string is parsed and the pool created; nothing connects   *)
(* before the ping.                                                         *)
OpenPool(nf) ==
  /\ Starting(nf, "repository") /\ repo[nf] = "none"
  /\ DatabaseUrl(nf) \notin {"memory", ""}
  /\ \/ /\ DatabaseUrl(nf) = "word"
        /\ repo' = [repo EXCEPT ![nf] = "memory"]
        /\ Done(nf) /\ UNCHANGED pools
     \/ /\ DatabaseUrl(nf) # "word"
        /\ repo' = [repo EXCEPT ![nf] = "connecting"]
        /\ pools' = [pools EXCEPT ![nf] = @ + 1] /\ UNCHANGED stage
  /\ UNCHANGED <<inputs, world, conf, status>>

(* Mutant: the fallback forgets the pool that did not answer. *)
PingLeavesPool(nf) ==
  /\ repo[nf] = "connecting"
  /\ repo' = [repo EXCEPT ![nf] = IF dbUp THEN "postgres" ELSE "memory"]
  /\ Done(nf)
  /\ UNCHANGED <<inputs, world, conf, pools, status>>

(* The answer, or an error, or five seconds: then the pool is closed and    *)
(* the process uses its memory for as long as it lives.                     *)
Ping(nf) ==
  /\ repo[nf] = "connecting"
  /\ \/ dbUp /\ repo' = [repo EXCEPT ![nf] = "postgres"] /\ UNCHANGED pools
     \/ /\ ~dbUp
        /\ repo' = [repo EXCEPT ![nf] = "memory"]
        /\ pools' = [pools EXCEPT ![nf] = @ - 1]
  /\ Done(nf)
  /\ UNCHANGED <<inputs, world, conf, status>>

NewPFCPClient ==
  /\ Starting("SMF", "pfcp")
  /\ IF upfKnown THEN Done("SMF") /\ UNCHANGED status ELSE Exit("SMF") /\ UNCHANGED stage
  /\ UNCHANGED <<inputs, world, conf, repo, pools>>

(* A negative size panics in make; a number of workers below one is none.   *)
InitOrchestrator ==
  /\ Starting("SMF", "orchestrator")
  /\ IF conf["SMF"]["smf.queueSize"] = "-1"
       THEN Exit("SMF") /\ UNCHANGED stage
       ELSE Done("SMF") /\ UNCHANGED status
  /\ UNCHANGED <<inputs, world, conf, repo, pools>>

InitDashboardHub ==
  /\ Starting("SMF", "hub")
  /\ Done("SMF")
  /\ UNCHANGED <<inputs, world, conf, repo, pools, status>>

(* The address is free, or it is not and the process ends. *)
ListenAndServe(nf) ==
  /\ Starting(nf, "server")
  /\ Done(nf)
  /\ \E st \in {"serving", "exited"} : status' = [status EXCEPT ![nf] = st]
  /\ UNCHANGED <<inputs, world, conf, repo, pools>>

StartStep(nf) ==
  \/ LoadConfig(nf)
  \/ UseMemory(nf) \/ OpenPool(nf) \/ Ping(nf)
  \/ nf = "SMF" /\ (NewPFCPClient \/ InitOrchestrator \/ InitDashboardHub)
  \/ ListenAndServe(nf)

(* It matters as long as somebody is starting. *)
WorldStep ==
  /\ \E nf \in NF : status[nf] = "starting"
  /\ \/ dbUp' = ~dbUp /\ UNCHANGED upfKnown
     \/ upfKnown' = ~upfKnown /\ UNCHANGED dbUp
  /\ dbWasDown' = (dbWasDown \/ ~dbUp')
  /\ UNCHANGED <<inputs, procs>>

StartNext == WorldStep \/ \E nf \in NF : StartStep(nf)

StartSpec == StartInit /\ [][StartNext]_startVars

-----------------------------------------------------------------------------
(* With DATABASE_URL set to a database that is up, SMF and UDM work on the  *)
(* same database whatever the file says for either (config.go:122, 147); a  *)
(* database that was down for a moment may leave them on different ones.    *)
OneDatabase ==
  /\ \A nf \in NF : status[nf] = "serving"
  /\ env["DATABASE_URL"] \notin {"", "memory", "word"}
  /\ ~dbWasDown
  => repo["SMF"] = "postgres" /\ repo["UDM"] = "postgres"

(* A process has a pool open exactly while it connects or works on          *)
(* PostgreSQL: one that fell back to memory, for a string it cannot parse   *)
(* or a ping without an answer, keeps none, whose ten connections it would  *)
(* hold for as long as it lives (smf/db.go:137-160, 270-281;                *)
(* udm/db.go:66-86).                                                        *)
PoolIsUsed == \A nf \in NF : (pools[nf] = 1) <=> repo[nf] \in {"connecting", "postgres"}
=============================================================================
