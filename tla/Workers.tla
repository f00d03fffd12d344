------------------------------ MODULE Workers ------------------------------
(***************************************************************************)
(* The multi-process mode: a supervisor forks workers that share a port    *)
(* and stop together (_run_workers in vignemale_cli/cli.py, for `vignemale *)
(* run`; _serve_workers in vignemale/__main__.py, in a container).         *)
(*                                                                         *)
(* The supervisor starts no runtime of its own, so `run` migrates in a     *)
(* throwaway child first.  A worker is module Server seen from outside: it *)
(* loads, serves, drains on SIGINT and is dead.                            *)
(***************************************************************************)
EXTENDS Integers, FiniteSets

CONSTANTS
  Workers,     (* the VIGNEMALE_WORKERS processes                          *)
  Throwaway    (* TRUE for _run_workers, FALSE for _serve_workers          *)

ASSUME WorkersAssumption ==
  /\ IsFiniteSet(Workers)
  /\ Throwaway \in BOOLEAN

VARIABLES
  parent,    (* what the supervisor is doing, or how it ended: it          *)
             (* "returned", was "interrupted" by Ctrl-C or "killed"        *)
  child,     (* the throwaway process                                      *)
  worker,    (* each worker                                                *)
  alive,     (* the workers the supervisor has not reaped                  *)
  stopping,  (* _stop has run                                              *)
  sigint     (* workers with a SIGINT to handle                            *)

supVars == <<parent, child, worker, alive, stopping, sigint>>

Ended   == {"returned", "interrupted", "killed"}
Running == {w \in Workers : worker[w] \in {"loading", "serving", "draining"}}

SupInit ==
  /\ parent = IF Throwaway THEN "child" ELSE "forking"
  /\ child = IF Throwaway THEN "running" ELSE "none"
  /\ worker = [w \in Workers |-> "none"]
  /\ alive = {}
  /\ stopping = FALSE
  /\ sigint = {}

-----------------------------------------------------------------------------
(* The throwaway child provisions, loads the app and migrates.             *)
ChildEnds ==
  /\ child = "running"
  /\ child' \in {"migrated", "failed"}
  /\ UNCHANGED <<parent, worker, alive, stopping, sigint>>

(* os.waitpid, whose status is not looked at.                              *)
WaitChild ==
  /\ parent = "child"
  /\ child # "running"
  /\ parent' = "forking"
  /\ UNCHANGED <<child, worker, alive, stopping, sigint>>

Fork(w) ==
  /\ parent = "forking"
  /\ worker[w] = "none"
  /\ worker' = [worker EXCEPT ![w] = "loading"]
  /\ alive' = alive \union {w}
  /\ UNCHANGED <<parent, child, stopping, sigint>>

(* All are forked: the handlers are set and the supervisor waits.          *)
Watch ==
  /\ parent = "forking"
  /\ alive = Workers
  /\ parent' = "watching"
  /\ UNCHANGED <<child, worker, alive, stopping, sigint>>

(* _stop: SIGINT to the children that still exist, the first time only.    *)
Stop ==
  /\ stopping' = TRUE
  /\ sigint' = IF stopping THEN sigint ELSE sigint \union Running

(* Mutant: the death of a worker is only logged.                           *)
ReapOnly(w) ==
  /\ parent = "watching"
  /\ w \in alive
  /\ worker[w] = "dead"
  /\ alive' = alive \ {w}
  /\ UNCHANGED <<parent, child, worker, stopping, sigint>>

(* Mutant: the death of a worker ends the supervisor.                      *)
ReapAndLeave(w) ==
  /\ parent = "watching"
  /\ w \in alive
  /\ worker[w] = "dead"
  /\ alive' = alive \ {w}
  /\ parent' = "returned"
  /\ UNCHANGED <<child, worker, stopping, sigint>>

(* os.wait reaps a worker.  One that died by itself takes the others with  *)
(* it, after a moment during which a signal may come.                      *)
Reap(w) ==
  /\ parent = "watching"
  /\ w \in alive
  /\ worker[w] = "dead"
  /\ alive' = alive \ {w}
  /\ parent' = IF stopping \/ alive' = {} THEN parent ELSE "stopping one"
  /\ UNCHANGED <<child, worker, stopping, sigint>>

StopOthers ==
  /\ parent = "stopping one"
  /\ Stop
  /\ parent' = "watching"
  /\ UNCHANGED <<child, worker, alive>>

Leave ==
  /\ parent = "watching"
  /\ alive = {}
  /\ parent' = "returned"
  /\ UNCHANGED <<child, worker, alive, stopping, sigint>>

-----------------------------------------------------------------------------
(* Signals from outside.  Ctrl-C in a terminal reaches the whole group,    *)
(* SIGTERM the supervisor alone.  Before the handlers are set, either ends *)
(* the supervisor where it is.                                             *)

HasHandlers == parent \in {"watching", "stopping one"}

CtrlC ==
  /\ parent \notin Ended
  /\ IF HasHandlers
     THEN /\ stopping' = TRUE
          /\ sigint' = sigint \union Running
          /\ UNCHANGED <<parent, child>>
     ELSE /\ parent' = "interrupted"
          /\ child' = IF child = "running" THEN "failed" ELSE child
          /\ sigint' = sigint \union Running
          /\ UNCHANGED stopping
  /\ UNCHANGED <<worker, alive>>

Term ==
  /\ \/ HasHandlers /\ Stop /\ UNCHANGED parent
     \/ /\ parent \in {"child", "forking"}
        /\ parent' = "killed"
        /\ UNCHANGED <<stopping, sigint>>
  /\ UNCHANGED <<child, worker, alive>>

-----------------------------------------------------------------------------
(* A worker.                                                               *)

Becomes(w, what) ==
  /\ worker' = [worker EXCEPT ![w] = what]
  /\ UNCHANGED <<parent, child, alive, stopping>>

Loaded(w) ==
  /\ worker[w] = "loading"
  /\ Becomes(w, "serving")
  /\ UNCHANGED sigint

(* The app does not load, the port cannot be bound, or it crashes.         *)
Dies(w) ==
  /\ w \in Running
  /\ Becomes(w, "dead")
  /\ sigint' = sigint \ {w}

(* Serving, SIGINT starts the drain; before, it raises out of the loading; *)
(* a second one changes nothing until the drain is over.                   *)
HandleSigint(w) ==
  /\ w \in sigint
  /\ w \in Running
  /\ Becomes(w, IF worker[w] = "loading" THEN "dead" ELSE "draining")
  /\ sigint' = sigint \ {w}

(* Module Server: a signal stops it.                                       *)
DrainEnds(w) ==
  /\ worker[w] = "draining"
  /\ Becomes(w, "dead")
  /\ sigint' = sigint \ {w}

-----------------------------------------------------------------------------
ParentStep ==
  \/ WaitChild \/ Watch \/ StopOthers \/ Leave
  \/ \E w \in Workers : Fork(w) \/ Reap(w)

WorkerStep(w) == Loaded(w) \/ HandleSigint(w) \/ DrainEnds(w)

SupNext ==
  \/ ParentStep
  \/ ChildEnds
  \/ CtrlC \/ Term
  \/ \E w \in Workers : WorkerStep(w) \/ Dies(w)

SupSpec == SupInit /\ [][SupNext]_supVars

(* The processes run: the supervisor, a signal once sent, and a drain,     *)
(* which ends by its deadline.  The app may take for ever to load.         *)
SupFairness ==
  /\ WF_supVars(ParentStep)
  /\ WF_supVars(ChildEnds)
  /\ \A w \in Workers : WF_supVars(HandleSigint(w)) /\ WF_supVars(DrainEnds(w))

SupFairSpec == SupSpec /\ SupFairness

-----------------------------------------------------------------------------
SupType ==
  /\ parent \in {"child", "forking", "watching", "stopping one"} \union Ended
  /\ child \in {"none", "running", "migrated", "failed"}
  /\ worker \in [Workers -> {"none", "loading", "serving", "draining", "dead"}]
  /\ alive \subseteq Workers
  /\ stopping \in BOOLEAN
  /\ sigint \subseteq Workers

(* The supervisor leaves no worker behind: it returns when all have ended, *)
(* and when Ctrl-C ends it every one has been told to stop.                *)
NoOrphans ==
  /\ parent = "returned" => Running = {}
  /\ parent = "interrupted" =>
       \A w \in Running : w \in sigint \/ worker[w] = "draining"

(* When a worker dies, or the supervisor is told to stop, all of them      *)
(* stop: no half of the workers goes on serving.  Except when SIGTERM      *)
(* kills a supervisor that has no handler yet.                             *)
StopTogether ==
  (stopping \/ \E w \in Workers : worker[w] = "dead")
    ~> (Running = {} \/ parent = "killed")

(* `vignemale run` "provisions the database and applies any migrations not *)
(* yet applied" (README): workers serve a migrated database.               *)
WorkersServeMigrated ==
  Throwaway => \A w \in Workers : worker[w] = "serving" => child = "migrated"
=============================================================================
