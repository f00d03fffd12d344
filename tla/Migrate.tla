------------------------------ MODULE Migrate ------------------------------
(***************************************************************************)
(* SQLDatabase.migrate (vignemale/sqldb.py) run by several processes that  *)
(* start together on one database: instances of a deployment, or a process *)
(* restarted while the session of its previous life still runs.            *)
(*                                                                         *)
(* A migration goes to the server as one script, BEGIN .. COMMIT, whose    *)
(* last statement inserts its name in _vignemale_migrations (a primary     *)
(* key).  The server works through it on its own: it may commit after the  *)
(* client is gone.  Files are numbered in the sorted order of their names; *)
(* every process has the same ones.                                        *)
(***************************************************************************)
EXTENDS Integers

CONSTANTS
  Procs,      (* processes that migrate                                    *)
  N,          (* number of migration files                                 *)
  MaxFaults   (* bound: crashes and lost connections                       *)

Files == 1..N

ASSUME MigrateAssumption ==
  /\ N \in Nat
  /\ MaxFaults \in Nat

VARIABLES
  bad,       (* the files whose SQL fails                                  *)
  pc,        (* where each process is                                      *)
  life,      (* its incarnation: one more after each crash                 *)
  done,      (* the set of names migrate() read                            *)
  at,        (* the file its loop is at                                    *)
  table,     (* _vignemale_migrations exists                               *)
  recorded,  (* the names in it                                            *)
  applied,   (* how many times each file's SQL was committed               *)
  script,    (* the file whose script a session runs, 0 for none           *)
  inserted,  (* the session has inserted its name, not yet committed       *)
  faults     (* faults so far                                              *)

procVars == <<pc, life, done, at>>
dbVars   == <<bad, table, recorded, applied>>
sessVars == <<script, inserted>>
vars     == <<bad, pc, life, done, at, table, recorded, applied, script, inserted, faults>>

Sessions == Procs \X (0..MaxFaults)
Mine(p)  == <<p, life[p]>>

Init ==
  /\ bad \in SUBSET Files
  /\ pc = [p \in Procs |-> "down"]
  /\ life = [p \in Procs |-> 0]
  /\ done = [p \in Procs |-> {}]
  /\ at = [p \in Procs |-> 1]
  /\ table = FALSE
  /\ recorded = {}
  /\ applied = [f \in Files |-> 0]
  /\ script = [k \in Sessions |-> 0]
  /\ inserted = [k \in Sessions |-> FALSE]
  /\ faults = 0

Goto(p, where) == pc' = [pc EXCEPT ![p] = where]

-----------------------------------------------------------------------------
(* A process.                                                              *)

Start(p) ==
  /\ pc[p] = "down"
  /\ Goto(p, "create")
  /\ UNCHANGED <<life, done, at, dbVars, sessVars, faults>>

(* Mutant: CREATE TABLE without IF NOT EXISTS.                             *)
LookForTableStrict(p) ==
  /\ pc[p] = "create"
  /\ Goto(p, IF table THEN "raised" ELSE "creating")
  /\ UNCHANGED <<life, done, at, dbVars, sessVars, faults>>

(* CREATE TABLE IF NOT EXISTS looks first and creates after: two of them   *)
(* can both find no table.                                                 *)
LookForTable(p) ==
  /\ pc[p] = "create"
  /\ Goto(p, IF table THEN "list" ELSE "creating")
  /\ UNCHANGED <<life, done, at, dbVars, sessVars, faults>>

(* The second one to create fails on the catalog's unique index.           *)
CreateTable(p) ==
  /\ pc[p] = "creating"
  /\ Goto(p, IF table THEN "raised" ELSE "list")
  /\ table' = TRUE
  /\ UNCHANGED <<life, done, at, bad, recorded, applied, sessVars, faults>>

(* Mutant: also counts as done what other sessions are about to commit.    *)
ListDoneDirty(p) ==
  /\ pc[p] = "list"
  /\ done' = [done EXCEPT ![p] =
                recorded \union {script[k] : k \in {s \in Sessions : inserted[s]}}]
  /\ at' = [at EXCEPT ![p] = 1]
  /\ Goto(p, "next")
  /\ UNCHANGED <<life, dbVars, sessVars, faults>>

(* SELECT name: read once, before the loop.                                *)
ListDone(p) ==
  /\ pc[p] = "list"
  /\ done' = [done EXCEPT ![p] = recorded]
  /\ at' = [at EXCEPT ![p] = 1]
  /\ Goto(p, "next")
  /\ UNCHANGED <<life, dbVars, sessVars, faults>>

(* The loop: skip a file that is done, or send its script.                 *)
Skip(p) ==
  /\ pc[p] = "next"
  /\ at[p] \in done[p]
  /\ at' = [at EXCEPT ![p] = @ + 1]
  /\ UNCHANGED <<pc, life, done, dbVars, sessVars, faults>>

SendScript(p) ==
  /\ pc[p] = "next"
  /\ at[p] \in Files \ done[p]
  /\ script' = [script EXCEPT ![Mine(p)] = at[p]]
  /\ Goto(p, "batch")
  /\ UNCHANGED <<life, done, at, dbVars, inserted, faults>>

(* migrate() returns: the process goes on to serve.                        *)
Finish(p) ==
  /\ pc[p] = "next"
  /\ at[p] > N
  /\ Goto(p, "ready")
  /\ UNCHANGED <<life, done, at, dbVars, sessVars, faults>>

(* SQLError out of migrate(): the process exits.                           *)
Quit(p) ==
  /\ pc[p] = "raised"
  /\ Goto(p, "down")
  /\ UNCHANGED <<life, done, at, dbVars, sessVars, faults>>

(* The process is killed, whatever it does; its session goes on.           *)
Crash(p) ==
  /\ pc[p] # "down"
  /\ faults < MaxFaults
  /\ faults' = faults + 1
  /\ Goto(p, "down")
  /\ life' = [life EXCEPT ![p] = @ + 1]
  /\ UNCHANGED <<done, at, dbVars, sessVars>>

-----------------------------------------------------------------------------
(* A session of the server.  What becomes of its script is told to the     *)
(* process that sent it, if it still waits.                                *)

Waits(k) == k = Mine(k[1]) /\ pc[k[1]] = "batch"

(* Mutant: a failed migration is logged and the loop goes on.              *)
TellsErrorAndGoesOn(k) ==
  IF Waits(k)
  THEN Goto(k[1], "next") /\ at' = [at EXCEPT ![k[1]] = @ + 1]
  ELSE UNCHANGED <<pc, at>>

TellsError(k) ==
  IF Waits(k)
  THEN Goto(k[1], "raised") /\ UNCHANGED at
  ELSE UNCHANGED <<pc, at>>

TellsSuccess(k) ==
  IF Waits(k)
  THEN Goto(k[1], "next") /\ at' = [at EXCEPT ![k[1]] = @ + 1]
  ELSE UNCHANGED <<pc, at>>

Ends(k) ==
  /\ script' = [script EXCEPT ![k] = 0]
  /\ inserted' = [inserted EXCEPT ![k] = FALSE]

(* INSERT waits for a session that has inserted the same name.             *)
Insert(k) ==
  /\ script[k] \in Files \ (recorded \union bad)
  /\ ~inserted[k]
  /\ \A j \in Sessions : inserted[j] => script[j] # script[k]
  /\ inserted' = [inserted EXCEPT ![k] = TRUE]
  /\ UNCHANGED <<procVars, dbVars, script, faults>>

(* The script fails and is rolled back: its SQL is wrong, or what it does  *)
(* has been done by another process (at the latest on its primary key).    *)
Fail(k) ==
  /\ script[k] # 0
  /\ ~inserted[k]
  /\ script[k] \in bad \union recorded
  /\ Ends(k)
  /\ TellsError(k)
  /\ UNCHANGED <<life, done, dbVars, faults>>

(* Mutant: the name is recorded by a call of its own, which may not come.  *)
CommitThenRecord(k) ==
  /\ script[k] # 0
  /\ inserted[k]
  /\ applied' = [applied EXCEPT ![script[k]] = @ + 1]
  /\ \E rec \in {{}, {script[k]}} : recorded' = recorded \union rec
  /\ Ends(k)
  /\ TellsSuccess(k)
  /\ UNCHANGED <<life, done, bad, table, faults>>

Commit(k) ==
  /\ script[k] # 0
  /\ inserted[k]
  /\ applied' = [applied EXCEPT ![script[k]] = @ + 1]
  /\ recorded' = recorded \union {script[k]}
  /\ Ends(k)
  /\ TellsSuccess(k)
  /\ UNCHANGED <<life, done, bad, table, faults>>

(* The connection is lost: before the commit, or just after it.            *)
LoseSession(k) ==
  /\ script[k] # 0
  /\ faults < MaxFaults
  /\ faults' = faults + 1
  /\ \/ UNCHANGED dbVars
     \/ /\ inserted[k]
        /\ applied' = [applied EXCEPT ![script[k]] = @ + 1]
        /\ recorded' = recorded \union {script[k]}
        /\ UNCHANGED <<bad, table>>
  /\ Ends(k)
  /\ TellsError(k)
  /\ UNCHANGED <<life, done>>

-----------------------------------------------------------------------------
ProcStep(p) ==
  \/ Start(p) \/ LookForTable(p) \/ CreateTable(p) \/ ListDone(p)
  \/ Skip(p) \/ SendScript(p) \/ Finish(p) \/ Quit(p)

SessionStep(k) == Insert(k) \/ Fail(k) \/ Commit(k)

Next ==
  \/ \E p \in Procs : ProcStep(p) \/ Crash(p)
  \/ \E k \in Sessions : SessionStep(k) \/ LoseSession(k)

Spec == Init /\ [][Next]_vars

(* Processes and sessions run, and a process that quit is started again    *)
(* (by the operator or the container platform, outside this code).         *)
Fairness ==
  /\ \A p \in Procs : WF_vars(ProcStep(p))
  /\ \A k \in Sessions : WF_vars(SessionStep(k))

FairSpec == Spec /\ Fairness

-----------------------------------------------------------------------------
TypeOK ==
  /\ bad \in SUBSET Files
  /\ pc \in [Procs -> {"down", "create", "creating", "list", "next", "batch",
                        "ready", "raised"}]
  /\ life \in [Procs -> 0..MaxFaults]
  /\ done \in [Procs -> SUBSET Files]
  /\ at \in [Procs -> 1..(N + 1)]
  /\ table \in BOOLEAN
  /\ recorded \in SUBSET Files
  /\ applied \in [Files -> Nat]
  /\ script \in [Sessions -> 0..N]
  /\ inserted \in [Sessions -> BOOLEAN]
  /\ faults \in 0..MaxFaults

(* A migration is recorded if and only if it took effect, and it takes     *)
(* effect once, whoever races or crashes (README: "tracked in              *)
(* _vignemale_migrations, atomic, idempotent").                            *)
AppliedOnce ==
  \A f \in Files : applied[f] = IF f \in recorded THEN 1 ELSE 0

(* No migration is applied before one whose name sorts before it.          *)
InOrder ==
  \A f \in recorded : \A g \in Files : g < f => g \in recorded

(* A process that goes on to serve does so on a fully migrated database,   *)
(* even if others did part of the work.                                    *)
ReadyMeansMigrated ==
  \A p \in Procs : pc[p] = "ready" => recorded = Files

(* With good migrations, every process ends up serving, those included     *)
(* that lost a race and had to be started again.                           *)
Converges == bad = {} => \A p \in Procs : <>[](pc[p] = "ready")
=============================================================================
