-------------------------------- MODULE Cli --------------------------------
(***************************************************************************)
(* The command line as a whole: several commands at once on one machine,   *)
(* composed of modules DevInfra (`run`), Account and Project (the others). *)
(***************************************************************************)
EXTENDS DevInfra, Project

CONSTANT
  Sessions      (* what is typed: functions from Procs to Commands         *)

ASSUME CliAssumption == Sessions \subseteq [Procs -> Commands]

vars == <<shVars, diVars, pdVars>>

(* What a session does not use is as it is first.                          *)
Uses(commands) == \E p \in Procs : cmd[p] \in commands

Init ==
  /\ ShInit(Sessions)
  /\ DiInit
  /\ AcInit
  /\ PrInit
  /\ ~Uses({"run"}) =>
        /\ host = [darwin |-> FALSE, given |-> CHOOSE e \in Environments : TRUE]
        /\ docker = "missing"
  /\ ~Uses({"login", "logout", "deploy"}) => creds = NoCreds
  /\ ~Uses({"link", "init"}) => appPy = "absent" /\ before = NoFile

Command(p) == \/ RunStep(p) /\ UNCHANGED pdVars
              \/ PdStep(p) /\ UNCHANGED <<diVars, setbacks>>

(* A `run` that failed is typed again until it works.                      *)
Retry(p) == RunAgain(p) /\ UNCHANGED pdVars

Environment ==
  \/ Machine /\ UNCHANGED pdVars
  \/ (Second \/ \E p \in Procs : UserAnswers(p)) /\ UNCHANGED <<diVars, prVars>>

Next ==
  \/ \E p \in Procs : Command(p) \/ Retry(p)
  \/ \E p \in Procs : Kill(p) /\ UNCHANGED <<diVars, pdVars>>
  \/ Environment

Spec == Init /\ [][Next]_vars

(* Time passes, the daemon and the containers get ready, commands go on.   *)
Fairness ==
  /\ \A p \in Procs : WF_vars(Command(p)) /\ WF_vars(Retry(p))
  /\ WF_vars(DaemonStarts /\ UNCHANGED pdVars)
  /\ \A c \in Containers : WF_vars(ContainerReady(c) /\ UNCHANGED pdVars)
  /\ WF_vars(Second /\ UNCHANGED <<diVars, prVars>>)

FairSpec == Spec /\ Fairness
=============================================================================
