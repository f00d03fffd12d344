------------------------------ MODULE DevInfra ------------------------------
(***************************************************************************)
(* What `vignemale run` does before it serves: it brings up the databases  *)
(* and buckets the code declares, in two shared Docker containers          *)
(* (vignemale_cli/devinfra.py, _provision in cli.py).  Several `run`s, or  *)
(* the workers of one, do so at once: each step asks Docker or the server  *)
(* in the container and acts on the answer, with no lock.                  *)
(*                                                                         *)
(* Time is left out: a wait may give up at any poll; if what it waits for  *)
(* is on its way, that counts as a fault.                                  *)
(***************************************************************************)
EXTENDS Shell, SequencesExt

CONSTANTS
  Databases,      (* sequence of the databases the app declares            *)
  Buckets,        (* sequence of its buckets                               *)
  Sanitized,      (* _sanitize, on these names                             *)
  Environments    (* what may be set: names of databases, "s3"             *)

Containers == {"postgres", "minio"}

ASSUME DevInfraAssumption ==
  /\ Databases \in Seq(DOMAIN Sanitized) /\ Buckets \in Seq(DOMAIN Sanitized)
  /\ Environments \subseteq SUBSET (Range(Databases) \union {"s3"})

VARIABLES
  host,       (* what does not change: is it a Mac, which variables are set *)
  docker,     (* the daemon: "missing" (no docker command), "down", "up"   *)
  box,        (* each container: "absent", "stopped", "starting", "ready"  *)
  dbs,        (* databases that exist in the postgres container            *)
  bkts,       (* buckets that exist in the minio container                 *)
  dsn,        (* per process: "unset", "given" or a database's name        *)
  s3,         (* per process: "unset", "given" or "minio"                  *)
  todo        (* per process: positions its loop has still to do, in       *)
              (* Databases or Buckets                                      *)

diVars == <<host, docker, box, dbs, bkts, dsn, s3, todo>>

Given(name) == IF name \in host.given THEN "given" ELSE "unset"
Fresh(p) ==
  /\ dsn' = [dsn EXCEPT ![p] = [n \in Range(Databases) |-> Given(n)]]
  /\ s3' = [s3 EXCEPT ![p] = Given("s3")]
  /\ todo' = [todo EXCEPT ![p] = {}]

DiInit ==
  /\ host \in [darwin : BOOLEAN, given : Environments]
  /\ docker \in {"missing", "down", "up"}
  /\ host.darwin => docker = "down"
  /\ box = [c \in Containers |-> "absent"]
  /\ dbs = {}
  /\ bkts = {}
  /\ dsn = [p \in Procs |-> [n \in Range(Databases) |-> Given(n)]]
  /\ s3 = [p \in Procs |-> Given("s3")]
  /\ todo = [p \in Procs |-> {}]

-----------------------------------------------------------------------------
(* provision_local: the databases whose DSN the environment lacks.         *)
ProvisionLocal(p) ==
  /\ At(p, "run", "start")
  /\ LET missing == {i \in DOMAIN Databases : dsn[p][Databases[i]] = "unset"}
     IN  /\ todo' = [todo EXCEPT ![p] = missing]
         /\ IF missing = {} THEN Goto(p, "run", "buckets")
                            ELSE Goto(p, "postgres", "docker")
  /\ UNCHANGED <<host, docker, box, dbs, bkts, dsn, s3, setbacks>>

(* provision_buckets, unless the environment has an S3 endpoint.           *)
ProvisionBuckets(p) ==
  /\ At(p, "run", "buckets")
  /\ IF Buckets = <<>> \/ s3[p] # "unset" THEN Goto(p, "run", "load")
                                          ELSE Goto(p, "minio", "docker")
  /\ UNCHANGED <<diVars, setbacks>>

(* `docker info`; on a Mac, the daemon is started and awaited.             *)
CheckDocker(p, c) ==
  /\ At(p, c, "docker")
  /\ CASE docker = "up" -> Goto(p, c, "inspect")
       [] docker = "down" /\ host.darwin -> Goto(p, c, "daemon")
       [] OTHER -> Exit(p, "failed")
  /\ UNCHANGED <<diVars, setbacks>>

DaemonUp(p, c) ==
  /\ At(p, c, "daemon")
  /\ docker = "up"
  /\ Goto(p, c, "inspect")
  /\ UNCHANGED <<diVars, setbacks>>

(* `docker inspect`.  An error is taken for "there is no container".       *)
Inspect(p, c) ==
  /\ At(p, c, "inspect")
  /\ CASE docker # "up" \/ box[c] = "absent" -> Goto(p, c, "run")
       [] docker = "up" /\ box[c] = "stopped" -> Goto(p, c, "restart")
       [] OTHER -> Goto(p, c, "wait")
  /\ UNCHANGED <<diVars, setbacks>>

(* `docker run`: fails if the name is taken since, or for a cause of its   *)
(* own (image, port), when it may leave a container that does not run.     *)
RunContainer(p, c) ==
  /\ At(p, c, "run")
  /\ \/ /\ docker = "up" /\ box[c] = "absent"
        /\ box' = [box EXCEPT ![c] = "starting"]
        /\ Goto(p, c, "wait")
        /\ UNCHANGED setbacks
     \/ /\ docker = "up" /\ box[c] = "absent"
        /\ Setback
        /\ \E left \in {"absent", "stopped"} : box' = [box EXCEPT ![c] = left]
        /\ Exit(p, "failed")
     \/ /\ docker # "up" \/ box[c] # "absent"
        /\ Exit(p, "failed")
        /\ UNCHANGED <<box, setbacks>>
  /\ UNCHANGED <<host, docker, dbs, bkts, dsn, s3, todo>>

(* `docker start`, whose result is not looked at.                          *)
StartContainer(p, c) ==
  /\ At(p, c, "restart")
  /\ box' = IF docker = "up" /\ box[c] = "stopped"
            THEN [box EXCEPT ![c] = "starting"] ELSE box
  /\ Goto(p, c, "wait")
  /\ UNCHANGED <<host, docker, dbs, bkts, dsn, s3, todo, setbacks>>

(* _wait_ready, _wait_minio: polls until the server answers.  The poll of  *)
(* MinIO makes a bucket of its own; then the S3 variables are set.         *)
WaitReady(p) ==
  /\ At(p, "postgres", "wait")
  /\ box["postgres"] = "ready"
  /\ Goto(p, "postgres", "select")
  /\ UNCHANGED <<diVars, setbacks>>

WaitMinio(p) ==
  /\ At(p, "minio", "wait")
  /\ box["minio"] = "ready"
  /\ bkts' = bkts \union {"vignemale-probe"}
  /\ s3' = [s3 EXCEPT ![p] = "minio"]
  /\ todo' = [todo EXCEPT ![p] = DOMAIN Buckets]
  /\ Goto(p, "minio", "create")
  /\ UNCHANGED <<host, docker, box, dbs, dsn, setbacks>>

GiveUp(p, c) ==
  /\ At(p, c, "wait") \/ At(p, c, "daemon")
  /\ \/ Setback
     \/ /\ docker # "up" \/ box[c] \in {"absent", "stopped"}
        /\ UNCHANGED setbacks
  /\ Exit(p, "failed")
  /\ UNCHANGED <<host, docker, box, dbs, bkts, dsn, s3, todo>>

(* The name a loop is at; then the next one, or what follows the loop.     *)
Current(p, names) == names[Min(todo[p])]

Next1(p, what, step, after) ==
  LET rest == todo[p] \ {Min(todo[p])}
  IN  /\ todo' = [todo EXCEPT ![p] = rest]
      /\ IF rest = {} THEN Goto(p, "run", after) ELSE Goto(p, what, step)

SetDsn(p, name) ==
  /\ dsn' = [dsn EXCEPT ![p][name] = Sanitized[name]]
  /\ Next1(p, "postgres", "select", "buckets")

(* Mutant: the database is left for the first query to miss.               *)
LookForDatabaseOnly(p) ==
  /\ At(p, "postgres", "select")
  /\ box["postgres"] = "ready"
  /\ SetDsn(p, Current(p, Databases))
  /\ UNCHANGED <<host, docker, box, dbs, bkts, s3, setbacks>>

(* _ensure_database: SELECT, then CREATE DATABASE if there is none, which  *)
(* fails if there is one by now.  Errors of the core are not caught.       *)
LookForDatabase(p) ==
  /\ At(p, "postgres", "select")
  /\ LET name == Current(p, Databases)
     IN  CASE box["postgres"] # "ready" ->
                Exit(p, "crashed") /\ UNCHANGED <<dsn, todo>>
           [] box["postgres"] = "ready" /\ Sanitized[name] \in dbs ->
                SetDsn(p, name)
           [] OTHER -> Goto(p, "postgres", "create") /\ UNCHANGED <<dsn, todo>>
  /\ UNCHANGED <<host, docker, box, dbs, bkts, s3, setbacks>>

CreateDatabase(p) ==
  /\ At(p, "postgres", "create")
  /\ LET name == Current(p, Databases)
     IN  IF box["postgres"] = "ready" /\ Sanitized[name] \notin dbs
         THEN /\ dbs' = dbs \union {Sanitized[name]}
              /\ SetDsn(p, name)
         ELSE /\ Exit(p, "crashed")
              /\ UNCHANGED <<dbs, dsn, todo>>
  /\ UNCHANGED <<host, docker, box, bkts, s3, setbacks>>

(* Mutant: a bucket that exists is an error.                               *)
CreateBucketStrict(p) ==
  /\ At(p, "minio", "create")
  /\ LET bucket == Sanitized[Current(p, Buckets)]
     IN  IF box["minio"] = "ready" /\ bucket \notin bkts
         THEN /\ bkts' = bkts \union {bucket}
              /\ Next1(p, "minio", "create", "load")
         ELSE Exit(p, "crashed") /\ UNCHANGED <<bkts, todo>>
  /\ UNCHANGED <<host, docker, box, dbs, dsn, s3, setbacks>>

(* bucket_op "create": one that exists is not an error.                    *)
CreateBucket(p) ==
  /\ At(p, "minio", "create")
  /\ IF box["minio"] = "ready"
     THEN /\ bkts' = bkts \union {Sanitized[Current(p, Buckets)]}
          /\ Next1(p, "minio", "create", "load")
     ELSE Exit(p, "crashed") /\ UNCHANGED <<bkts, todo>>
  /\ UNCHANGED <<host, docker, box, dbs, dsn, s3, setbacks>>

(* The app is loaded, migrates (module Migrate) and serves.                *)
Serve(p) ==
  /\ At(p, "run", "load")
  /\ Exit(p, "ok")
  /\ UNCHANGED <<diVars, setbacks>>

-----------------------------------------------------------------------------
EnsurePostgres(p) ==
  \/ CheckDocker(p, "postgres") \/ DaemonUp(p, "postgres")
  \/ Inspect(p, "postgres")     \/ RunContainer(p, "postgres")
  \/ StartContainer(p, "postgres")
  \/ WaitReady(p)

EnsureMinio(p) ==
  \/ CheckDocker(p, "minio") \/ DaemonUp(p, "minio")
  \/ Inspect(p, "minio")     \/ RunContainer(p, "minio")
  \/ StartContainer(p, "minio")
  \/ WaitMinio(p)

RunStep(p) ==
  \/ ProvisionLocal(p) \/ EnsurePostgres(p)
  \/ LookForDatabase(p) \/ CreateDatabase(p)
  \/ ProvisionBuckets(p) \/ EnsureMinio(p) \/ CreateBucket(p)
  \/ Serve(p)
  \/ \E c \in Containers : GiveUp(p, c)

(* A new process starts from the environment of the terminal.              *)
RunAgain(p) ==
  /\ cmd[p] = "run"
  /\ Again(p)
  /\ Fresh(p)
  /\ UNCHANGED <<host, docker, box, dbs, bkts, setbacks>>

(* The machine: the daemon comes up (`open -a Docker`, or the developer),  *)
(* the server in a container is ready after a while; each may stop.        *)
DaemonStarts ==
  /\ docker = "down"
  /\ docker' = "up"
  /\ UNCHANGED <<cmd, at, host, box, dbs, bkts, dsn, s3, todo, setbacks>>

ContainerReady(c) ==
  /\ box[c] = "starting"
  /\ box' = [box EXCEPT ![c] = "ready"]
  /\ UNCHANGED <<cmd, at, host, docker, dbs, bkts, dsn, s3, todo, setbacks>>

Stops ==
  /\ Setback
  /\ \/ /\ docker = "up"
        /\ docker' = "down"
        /\ box' = [c \in Containers |-> IF box[c] = "absent" THEN "absent" ELSE "stopped"]
     \/ \E c \in Containers :
          /\ box[c] \in {"starting", "ready"}
          /\ box' = [box EXCEPT ![c] = "stopped"]
          /\ UNCHANGED docker
  /\ UNCHANGED <<cmd, at, host, dbs, bkts, dsn, s3, todo>>

Machine == DaemonStarts \/ Stops \/ \E c \in Containers : ContainerReady(c)

-----------------------------------------------------------------------------
(* An app that serves reaches what it declares, by the provider switch: a  *)
(* DSN that was given is left alone, any other names a database that       *)
(* exists, whoever created it.  Buckets exist too if their name is what    *)
(* _sanitize makes of it (Bucket uses the name as it is declared).         *)
ServesProvisioned ==
  \A p \in Procs : cmd[p] = "run" /\ At(p, "over", "ok") =>
    /\ \A n \in Range(Databases) :
          IF n \in host.given THEN dsn[p][n] = "given" ELSE dsn[p][n] \in dbs
    /\ IF "s3" \in host.given THEN s3[p] = "given"
       ELSE \A b \in Range(Buckets) : Sanitized[b] = b => b \in bkts

(* Whatever failed, and however many do it at once, `run` typed again      *)
(* until it succeeds does succeed, on a machine that has Docker.           *)
RunsConverge ==
  docker # "missing" =>
    \A p \in Procs : cmd[p] = "run" => <>At(p, "over", "ok")
=============================================================================
