------------------------------- MODULE Shell -------------------------------
(***************************************************************************)
(* The commands a developer has running at one time: `vignemale run`,      *)
(* `login`, `logout`, `link`, `init` and `deploy`, each a process of its   *)
(* own (vignemale_cli/cli.py).  What they do to the machine is in          *)
(* modules DevInfra, Account and Project; this one has how a command       *)
(* starts, fails, is interrupted and is typed again.                       *)
(***************************************************************************)
EXTENDS Integers, Sequences, FiniteSets

CONSTANTS
  Procs,      (* processes                                                 *)
  MaxSetbacks (* bound: what goes wrong from outside, an interrupt say     *)

VARIABLES
  cmd,    (* the command of each process                                   *)
  at,     (* <<what, step>>: where its process is                          *)
  setbacks

shVars == <<cmd, at, setbacks>>

Commands == {"run", "login", "logout", "deploy", "link", "init"}

At(p, what, step) == at[p] = <<what, step>>

(* Where a process is over: "ok", "failed" with a message and an exit code *)
(* (SystemExit), "crashed" on an exception nobody catches, or "killed".    *)
Over(p) == at[p][1] = "over"

Goto(p, what, step) == /\ at' = [at EXCEPT ![p] = <<what, step>>]
                       /\ UNCHANGED cmd
Exit(p, how) == Goto(p, "over", how)

(* main: the command line is parsed and the command's function called.     *)
ShInit(sessions) ==
  /\ cmd \in sessions
  /\ at = [p \in Procs |-> <<cmd[p], "start">>]
  /\ setbacks = 0

Setback == /\ setbacks < MaxSetbacks
           /\ setbacks' = setbacks + 1

(* Ctrl-C or a kill, at any point.                                         *)
Kill(p) ==
  /\ ~Over(p)
  /\ Exit(p, "killed")
  /\ Setback

(* The command is typed again.                                             *)
Again(p) ==
  /\ Over(p)
  /\ ~At(p, "over", "ok")
  /\ Goto(p, cmd[p], "start")
=============================================================================
