----------------------------- MODULE CliProofs -----------------------------
(***************************************************************************)
(* Module Cli, for any number of commands at once, any application and any *)
(* pyproject.toml: the pace of a login, what a `run` that serves has       *)
(* provisioned, and what link and init do to the file.                     *)
(***************************************************************************)
EXTENDS Cli, FunctionTheorems, SequenceTheorems, WellFoundedInduction, TLAPS

-----------------------------------------------------------------------------
(* Every step of a command moves its own process, from a place of its      *)
(* command to another one or to its end.                                   *)
RunPlaces == {"run", "postgres", "minio"}

Moves(p, from, to) ==
  /\ at[p][1] \in from
  /\ \E what \in to : \E step : at' = [at EXCEPT ![p] = <<what, step>>]
  /\ cmd' = cmd

LEMMA GotoMoves ==
  ASSUME NEW p, NEW what, NEW step, NEW from, NEW to, at[p][1] \in from, what \in to,
         Goto(p, what, step)
  PROVE  Moves(p, from, to)
BY DEF Goto, Moves

LEMMA RunStepMoves ==
  ASSUME NEW p, RunStep(p)
  PROVE  Moves(p, RunPlaces, RunPlaces \union {"over"})
<1> DEFINE To == RunPlaces \union {"over"}
<1>1. ASSUME NEW w \in RunPlaces, NEW s, At(p, w, s), NEW what \in To, NEW step,
             Goto(p, what, step)
      PROVE  Moves(p, RunPlaces, To)
  <2>1. at[p][1] \in RunPlaces
    BY <1>1 DEF At
  <2> QED BY <1>1, <2>1, GotoMoves
<1>2. ASSUME NEW c \in Containers, \/ CheckDocker(p, c) \/ DaemonUp(p, c) \/ Inspect(p, c)
                                   \/ RunContainer(p, c) \/ StartContainer(p, c) \/ GiveUp(p, c)
      PROVE  Moves(p, RunPlaces, To)
  <2>1. c \in RunPlaces /\ c \in To /\ "over" \in To
    BY DEF Containers, RunPlaces
  <2>2. \E s : At(p, c, s)
    BY <1>2 DEF CheckDocker, DaemonUp, Inspect, RunContainer, StartContainer, GiveUp
  <2>3. \E what \in {c, "over"} : \E step : Goto(p, what, step)
    BY <1>2 DEF CheckDocker, DaemonUp, Inspect, RunContainer, StartContainer, GiveUp, Exit
  <2> QED BY <1>1, <2>1, <2>2, <2>3
<1>3. ASSUME \/ ProvisionLocal(p) \/ WaitReady(p) \/ LookForDatabase(p) \/ CreateDatabase(p)
             \/ ProvisionBuckets(p) \/ WaitMinio(p) \/ CreateBucket(p) \/ Serve(p)
      PROVE  Moves(p, RunPlaces, To)
  <2>1. \E w \in RunPlaces : \E s : At(p, w, s)
    BY <1>3 DEF ProvisionLocal, WaitReady, LookForDatabase, CreateDatabase,
                ProvisionBuckets, WaitMinio, CreateBucket, Serve, RunPlaces
  <2>2. \E what \in To : \E step : Goto(p, what, step)
    BY <1>3 DEF ProvisionLocal, WaitReady, LookForDatabase, CreateDatabase,
                ProvisionBuckets, WaitMinio, CreateBucket, Serve, RunPlaces, Exit,
                SetDsn, Next1
  <2> QED BY <1>1, <2>1, <2>2
<1>4. {"postgres", "minio"} \subseteq Containers
  BY DEF Containers
<1> QED BY <1>2, <1>3, <1>4 DEF RunStep, EnsurePostgres, EnsureMinio


OtherPlaces == {"login", "logout", "deploy", "link", "init"}

LEMMA PdStepMoves ==
  ASSUME NEW p, PdStep(p)
  PROVE  Moves(p, OtherPlaces, OtherPlaces \union {"over"})
<1> DEFINE To == OtherPlaces \union {"over"}
<1>1. ASSUME NEW w \in OtherPlaces, NEW s, At(p, w, s), NEW what \in To, NEW step,
             Goto(p, what, step)
      PROVE  Moves(p, OtherPlaces, To)
  <2>1. at[p][1] \in OtherPlaces
    BY <1>1 DEF At
  <2> QED BY <1>1, <2>1, GotoMoves
<1>2. ASSUME LoginStep(p) \/ LogoutStep(p)
      PROVE  Moves(p, OtherPlaces, To)
  <2>1. \E w \in OtherPlaces : \E s : At(p, w, s)
    BY <1>2 DEF LoginStep, RequestCode, SleepOrStop, PollPending, PollGranted, PollFails,
                OpenCreds, WriteCreds, Chmod, LogoutStep, OtherPlaces
  <2>2. \E what \in To : \E step : Goto(p, what, step)
    BY <1>2 DEF LoginStep, RequestCode, SleepOrStop, PollPending, PollGranted, PollFails,
                OpenCreds, WriteCreds, Chmod, LogoutStep, OtherPlaces, Exit
  <2> QED BY <1>1, <2>1, <2>2
<1>3. ASSUME LinkStep(p) \/ InitStep(p)
      PROVE  Moves(p, OtherPlaces, To)
  <2>1. \E w \in OtherPlaces : \E s : At(p, w, s)
    BY <1>3 DEF LinkStep, LinkReads, LinkOpens, LinkWrites, InitStep, InitGuards,
                InitWritesApp, InitOpens, InitWrites, OtherPlaces
  <2>2. \E what \in To : \E step : Goto(p, what, step)
    BY <1>3 DEF LinkStep, LinkReads, LinkOpens, LinkWrites, InitStep, InitGuards,
                InitWritesApp, InitOpens, InitWrites, OtherPlaces, Exit
  <2> QED BY <1>1, <2>1, <2>2
<1>4. ASSUME DeployStep(p)
      PROVE  Moves(p, OtherPlaces, To)
  <2>1. \E w \in OtherPlaces : \E s : At(p, w, s)
    BY <1>4 DEF DeployStep, LoadCreds, GitBase, ReadApp, OtherPlaces
  <2>2. \E what \in To : \E step : Goto(p, what, step)
    BY <1>4 DEF DeployStep, LoadCreds, GitBase, ReadApp, OtherPlaces, Exit
  <2> QED BY <1>1, <2>1, <2>2
<1> QED BY <1>2, <1>3, <1>4 DEF PdStep

LEMMA StepKeeps ==
  ASSUME [Next]_vars, DOMAIN at = Procs
  PROVE  cmd' = cmd /\ DOMAIN at' = Procs
<1>1. ASSUME NEW q \in Procs, Command(q)
      PROVE  cmd' = cmd /\ DOMAIN at' = Procs
  BY <1>1, RunStepMoves, PdStepMoves DEF Command, Moves
<1>2. ASSUME NEW q \in Procs, Retry(q) \/ Kill(q)
      PROVE  cmd' = cmd /\ DOMAIN at' = Procs
  BY <1>2 DEF Retry, RunAgain, Again, Kill, Exit, Goto
<1>3. ASSUME Environment \/ UNCHANGED vars
      PROVE  cmd' = cmd /\ at' = at
  BY <1>3 DEF Environment, Machine, DaemonStarts, Stops, ContainerReady, Second,
              UserAnswers, vars, shVars
<1> QED BY <1>1, <1>2, <1>3 DEF Next

(* What a step is to a process: its own move, an interrupt, another `run`, *)
(* or nothing.                                                             *)
LEMMA StepIs ==
  ASSUME [Next]_vars, NEW p \in Procs, DOMAIN at = Procs
  PROVE  /\ cmd' = cmd /\ DOMAIN at' = Procs
         /\ \/ at'[p] = at[p]
            \/ Command(p) /\ at[p][1] # "over"
            \/ at'[p] = <<"over", "killed">> /\ at[p][1] # "over" /\ Kill(p)
            \/ at'[p] = <<"run", "start">> /\ at[p][1] = "over" /\ Retry(p)
<1>1. ASSUME NEW q \in Procs, Command(q)
      PROVE  /\ cmd' = cmd /\ DOMAIN at' = Procs
             /\ \/ at'[p] = at[p]
                \/ Command(p) /\ at[p][1] # "over"
  <2>1. /\ at[q][1] \in RunPlaces \union OtherPlaces /\ cmd' = cmd
        /\ \E x : at' = [at EXCEPT ![q] = x]
    BY <1>1, RunStepMoves, PdStepMoves DEF Command, Moves
  <2>2. at[q][1] # "over"
    BY <2>1 DEF RunPlaces, OtherPlaces
  <2>3. CASE p = q
    BY <1>1, <2>1, <2>2, <2>3
  <2>4. CASE p # q
    BY <2>1, <2>4
  <2> QED BY <2>3, <2>4
<1>2. ASSUME NEW q \in Procs, Retry(q)
      PROVE  /\ cmd' = cmd /\ DOMAIN at' = Procs
             /\ \/ at'[p] = at[p]
                \/ at'[p] = <<"run", "start">> /\ at[p][1] = "over" /\ Retry(p)
  <2>1. /\ at' = [at EXCEPT ![q] = <<"run", "start">>] /\ cmd' = cmd /\ at[q][1] = "over"
    BY <1>2 DEF Retry, RunAgain, Again, Goto, Over
  <2> QED BY <1>2, <2>1
<1>3. ASSUME NEW q \in Procs, Kill(q)
      PROVE  /\ cmd' = cmd /\ DOMAIN at' = Procs
             /\ \/ at'[p] = at[p]
                \/ at'[p] = <<"over", "killed">> /\ at[p][1] # "over" /\ Kill(p)
  BY <1>3 DEF Kill, Exit, Goto, Over
<1>4. ASSUME Environment \/ UNCHANGED vars
      PROVE  cmd' = cmd /\ at' = at
  BY <1>4 DEF Environment, Machine, DaemonStarts, Stops, ContainerReady, Second,
              UserAnswers, vars, shVars
<1> QED BY <1>1, <1>2, <1>3, <1>4 DEF Next


-----------------------------------------------------------------------------
(* The pace of a login: its interval is the panel's plus what each         *)
(* slow_down has added, and the time it has slept since its last poll with *)
(* what it has still to sleep is an interval.                              *)
PaceType ==
  /\ DOMAIN at = Procs
  /\ gap \in [Procs -> Nat] /\ nap \in [Procs -> Nat] /\ slow \in [Procs -> 0..MaxSlow]
  /\ DOMAIN interval = Procs

IntervalKept == \A p \in Procs : interval[p] = Interval + SlowDown * slow[p]

SleepsEnough ==
  \A p \in Procs : At(p, "login", "sleep") =>
    gap[p] + nap[p] >= interval[p] \/ gap[p] = Longest

PaceInv == PaceType /\ IntervalKept /\ SleepsEnough

(* No interval is longer than the longest.                                 *)
LEMMA LongestIs ==
  /\ Longest \in Nat
  /\ \A s \in 0..MaxSlow : /\ Interval + SlowDown * s \in Nat
                           /\ Interval + SlowDown * s <= Longest
<1>1. Interval \in Nat /\ SlowDown \in Nat /\ MaxSlow \in Nat
  BY AccountAssumption
<1>2. Longest \in Nat
  BY <1>1 DEF Longest
<1>3. ASSUME NEW s \in 0..MaxSlow
      PROVE  /\ Interval + SlowDown * s \in Nat
             /\ Interval + SlowDown * s <= Longest
  <2>1. MaxSlow = s + (MaxSlow - s) /\ MaxSlow - s \in Nat /\ s \in Nat
    BY <1>1, <1>3
  <2>2. SlowDown * s \in Nat /\ SlowDown * (MaxSlow - s) \in Nat
    BY <1>1, <2>1
  <2>3. SlowDown * MaxSlow = SlowDown * s + SlowDown * (MaxSlow - s)
    BY <1>1, <2>1
  <2> QED BY <1>1, <2>2, <2>3 DEF Longest
<1> QED BY <1>2, <1>3

LEMMA InitPace == Init => PaceInv
<1> SUFFICES ASSUME Init PROVE PaceInv
  OBVIOUS
<1>1. /\ at = [p \in Procs |-> <<cmd[p], "start">>]
      /\ gap = [p \in Procs |-> Longest] /\ nap = [p \in Procs |-> 0]
      /\ slow = [p \in Procs |-> 0] /\ interval = [p \in Procs |-> Interval]
  BY DEF Init, ShInit, AcInit
<1> QED BY <1>1, LongestIs, AccountAssumption
        DEF PaceInv, PaceType, IntervalKept, SleepsEnough, At

(* The steps of commands other than the loop of a login.                   *)
LEMMA TimersKept ==
  ASSUME NEW p \in Procs, PdStep(p), DOMAIN at = Procs,
         ~(RequestCode(p) \/ SleepOrStop(p)
           \/ PollPending(p) \/ PollGranted(p) \/ PollFails(p))
  PROVE  UNCHANGED <<gap, nap, interval, slow>> /\ ~At(p, "login", "sleep")'
<1>1. ASSUME \E w, s : Goto(p, w, s) /\ <<w, s>> # <<"login", "sleep">>
      PROVE  ~At(p, "login", "sleep")'
  BY <1>1 DEF Goto, At
<1>2. CASE LoginStep(p) \/ LogoutStep(p)
  <2>1. \E w, s : Goto(p, w, s) /\ <<w, s>> # <<"login", "sleep">>
    BY <1>2 DEF LoginStep, OpenCreds, WriteCreds, Chmod, LogoutStep, Exit
  <2>2. UNCHANGED <<gap, nap, interval, slow>>
    BY <1>2 DEF LoginStep, OpenCreds, WriteCreds, Chmod, LogoutStep, acVars, loginVars
  <2> QED BY <1>1, <2>1, <2>2
<1>3. CASE LinkStep(p) \/ InitStep(p)
  <2>1. \E w, s : Goto(p, w, s) /\ <<w, s>> # <<"login", "sleep">>
    BY <1>3 DEF LinkStep, LinkReads, LinkOpens, LinkWrites, InitStep, InitGuards,
                InitWritesApp, InitOpens, InitWrites, Exit
  <2>2. UNCHANGED <<gap, nap, interval, slow>>
    BY <1>3 DEF LinkStep, LinkReads, LinkOpens, LinkWrites, InitStep, InitGuards,
                InitWritesApp, InitOpens, InitWrites, pdVars, acVars, loginVars
  <2> QED BY <1>1, <2>1, <2>2
<1>4. CASE DeployStep(p)
  <2>1. \E w, s : Goto(p, w, s) /\ <<w, s>> # <<"login", "sleep">>
    BY <1>4 DEF DeployStep, LoadCreds, GitBase, ReadApp, Exit
  <2>2. UNCHANGED <<gap, nap, interval, slow>>
    BY <1>4 DEF DeployStep, LoadCreds, GitBase, ReadApp, pdVars, acVars, loginVars
  <2> QED BY <1>1, <2>1, <2>2
<1> QED BY <1>2, <1>3, <1>4 DEF PdStep

LEMMA LoginPace ==
  ASSUME PaceInv, NEW p \in Procs, PdStep(p)
  PROVE  PaceInv'
<1> USE LongestIs, AccountAssumption
<1>1. CASE RequestCode(p)
  <2>1. Interval + SlowDown * 0 = Interval /\ 0 \in 0..MaxSlow
    BY SlowDown \in Nat, Interval \in Nat
  <2>2. CASE /\ interval' = [interval EXCEPT ![p] = Interval]
             /\ slow' = [slow EXCEPT ![p] = 0]
             /\ gap' = [gap EXCEPT ![p] = Longest]
             /\ nap' = nap
             /\ at' = [at EXCEPT ![p] = <<"login", "loop">>]
    <3>1. IntervalKept'
      BY <2>1, <2>2 DEF PaceInv, PaceType, IntervalKept
    <3>2. PaceType'
      BY <2>1, <2>2 DEF PaceInv, PaceType
    <3>3. SleepsEnough'
      BY <2>2 DEF PaceInv, PaceType, SleepsEnough, At
    <3> QED BY <3>1, <3>2, <3>3 DEF PaceInv
  <2>3. CASE UNCHANGED <<interval, slow, gap, nap>>
             /\ (Exit(p, "failed") \/ Exit(p, "crashed"))
    BY <2>3 DEF PaceInv, PaceType, IntervalKept, SleepsEnough, Goto, Exit, At
  <2> QED BY <1>1, <2>2, <2>3 DEF RequestCode, Goto
<1>2. CASE SleepOrStop(p)
  BY <1>2, SMTT(30) DEF PaceInv, PaceType, IntervalKept, SleepsEnough, SleepOrStop, Goto,
            Exit, At
<1>3. CASE PollPending(p)
  <2>1. /\ gap' = [gap EXCEPT ![p] = 0] /\ nap' = nap
        /\ at' = [at EXCEPT ![p] = <<"login", "loop">>]
    BY <1>3 DEF PollPending, Polled, Goto
  <2>2. CASE UNCHANGED <<interval, slow>>
    BY <2>1, <2>2 DEF PaceInv, PaceType, IntervalKept, SleepsEnough, At
  <2>3. CASE /\ slow[p] < MaxSlow
             /\ slow' = [slow EXCEPT ![p] = @ + 1]
             /\ interval' = [interval EXCEPT ![p] = @ + SlowDown]
    <3>1. slow[p] \in Nat /\ SlowDown \in Nat /\ Interval \in Nat /\ MaxSlow \in Nat
      BY DEF PaceInv, PaceType
    <3>2. /\ slow[p] + 1 \in 0..MaxSlow
          /\ SlowDown * (slow[p] + 1) = SlowDown * slow[p] + SlowDown
      BY <2>3, <3>1
    <3>3. SlowDown * slow[p] \in Nat
      BY <3>1
    <3>4. IntervalKept'
      <4>1. ASSUME NEW q \in Procs, q # p PROVE interval'[q] = interval[q] /\ slow'[q] = slow[q]
        BY <2>3, <4>1 DEF PaceInv, PaceType
      <4>2. interval'[p] = Interval + SlowDown * slow'[p]
        <5>1. interval'[p] = interval[p] + SlowDown /\ slow'[p] = slow[p] + 1
          BY <2>3 DEF PaceInv, PaceType
        <5>2. interval[p] = Interval + SlowDown * slow[p]
          BY DEF PaceInv, IntervalKept
        <5> QED BY <3>1, <3>2, <3>3, <5>1, <5>2
      <4> QED BY <4>1, <4>2 DEF PaceInv, IntervalKept
    <3>5. PaceType'
      BY <2>1, <2>3, <3>2 DEF PaceInv, PaceType
    <3>6. SleepsEnough'
      BY <2>1, <2>3 DEF PaceInv, PaceType, SleepsEnough, At
    <3> QED BY <3>4, <3>5, <3>6 DEF PaceInv
  <2> QED BY <1>3, <2>2, <2>3 DEF PollPending
<1>4. CASE PollGranted(p)
  BY <1>4 DEF PaceInv, PaceType, IntervalKept, SleepsEnough, PollGranted, Polled, Goto, At
<1>5. CASE PollFails(p)
  BY <1>5, SMTT(30) DEF PaceInv, PaceType, IntervalKept, SleepsEnough, PollFails, Polled,
            Goto, Exit, At
<1>6. CASE ~(RequestCode(p) \/ SleepOrStop(p)
             \/ PollPending(p) \/ PollGranted(p) \/ PollFails(p))
  <2>1. UNCHANGED <<gap, nap, interval, slow>> /\ ~At(p, "login", "sleep")'
    BY <1>6, TimersKept DEF PaceInv, PaceType
  <2>2. \E x : at' = [at EXCEPT ![p] = x]
    BY PdStepMoves DEF Moves
  <2> QED BY <2>1, <2>2 DEF PaceInv, PaceType, IntervalKept, SleepsEnough, At
<1> QED BY <1>1, <1>2, <1>3, <1>4, <1>5, <1>6

LEMMA PaceInductive == PaceInv /\ [Next]_vars => PaceInv'
<1> SUFFICES ASSUME PaceInv, [Next]_vars PROVE PaceInv'
  OBVIOUS
<1>1. CASE \E p \in Procs : PdStep(p)
  BY <1>1, LoginPace
<1>2. CASE Second
  BY <1>2, LongestIs
     DEF Second, shVars, PaceInv, PaceType, IntervalKept, SleepsEnough, At
<1>3. CASE /\ UNCHANGED <<gap, nap, interval, slow>> /\ DOMAIN at' = Procs
           /\ \A p \in Procs : At(p, "login", "sleep")' => At(p, "login", "sleep")
  BY <1>3 DEF PaceInv, PaceType, IntervalKept, SleepsEnough
<1>4. ASSUME ~\E p \in Procs : PdStep(p), ~Second
      PROVE  /\ UNCHANGED <<gap, nap, interval, slow>> /\ DOMAIN at' = Procs
             /\ \A p \in Procs : At(p, "login", "sleep")' => At(p, "login", "sleep")
  <2>1. UNCHANGED <<gap, nap, interval, slow>>
    <3>1. CASE \E p \in Procs : Command(p) \/ Retry(p)
      BY <3>1, <1>4 DEF Command, Retry, pdVars, acVars, loginVars
    <3>2. CASE \E p \in Procs : Kill(p) /\ UNCHANGED <<diVars, pdVars>>
      BY <3>2 DEF pdVars, acVars, loginVars
    <3>3. CASE Environment
      BY <3>3, <1>4 DEF Environment, pdVars, acVars, loginVars, UserAnswers
    <3>4. CASE UNCHANGED vars
      BY <3>4 DEF vars, pdVars, acVars, loginVars
    <3> QED BY <3>1, <3>2, <3>3, <3>4 DEF Next
  <2>2. ASSUME NEW p \in Procs
        PROVE  /\ DOMAIN at' = Procs
               /\ At(p, "login", "sleep")' => At(p, "login", "sleep")
    <3>1. ASSUME Command(p)
          PROVE  ~At(p, "login", "sleep")'
      <4>1. RunStep(p)
        BY <3>1, <1>4 DEF Command
      <4>2. \E what \in RunPlaces \union {"over"} : \E step : at'[p] = <<what, step>>
        BY <4>1, RunStepMoves DEF Moves, PaceInv, PaceType
      <4> QED BY <4>2 DEF At, RunPlaces
    <3>2. DOMAIN at = Procs
      BY DEF PaceInv, PaceType
    <3> QED BY <3>1, <3>2, StepIs DEF At
  <2> QED BY <2>1, <2>2, StepKeeps DEF PaceInv, PaceType
<1> QED BY <1>1, <1>2, <1>3, <1>4

(* A login moves on from its sleep by a poll, or is killed.                *)
LEMMA PollsWhenDue ==
  ASSUME PaceInv, [Next]_vars, NEW p \in Procs, At(p, "login", "sleep"),
         at'[p] # at[p], at'[p] # <<"over", "killed">>
  PROVE  gap[p] >= Interval + SlowDown * slow[p]
<1>1. Command(p)
  <2>1. DOMAIN at = Procs
    BY DEF PaceInv, PaceType
  <2> QED BY <2>1, StepIs DEF At
<1>2. PdStep(p)
  <2>1. ~RunStep(p)
    BY RunStepMoves DEF Moves, RunPlaces, At
  <2> QED BY <1>1, <2>1 DEF Command
<1>3. PollPending(p) \/ PollGranted(p) \/ PollFails(p)
  BY <1>2 DEF PdStep, LoginStep, RequestCode, SleepOrStop, OpenCreds, WriteCreds, Chmod,
       LogoutStep, LinkStep, LinkReads, LinkOpens, LinkWrites, InitStep, InitGuards,
       InitWritesApp, InitOpens, InitWrites, DeployStep, LoadCreds, GitBase, ReadApp, At
<1>4. nap[p] = 0
  BY <1>3 DEF PollPending, PollGranted, PollFails
<1> QED BY <1>4, LongestIs DEF PaceInv, PaceType, IntervalKept, SleepsEnough

(* The panel sets the pace of every login (auth.py:97-115): two polls are  *)
(* at least its interval apart and what each slow_down has added, however  *)
(* the seconds fall between the sleep and the answers.                     *)
THEOREM PollsKeepPace == Spec => PollsSpaced
<1>1. Init => PaceInv
  BY InitPace
<1>2. PaceInv /\ [Next]_vars => PaceInv'
  BY PaceInductive
<1>3. PaceInv /\ [Next]_vars =>
        [\A p \in Procs :
           At(p, "login", "sleep") /\ at'[p] # at[p] /\ at'[p] # <<"over", "killed">>
             => gap[p] >= Interval + SlowDown * slow[p]]_<<shVars, acVars>>
  BY PollsWhenDue
<1> QED BY <1>1, <1>2, <1>3, PTL DEF Spec, PollsSpaced


-----------------------------------------------------------------------------
(* What a `run` has provisioned, by where it is.                           *)
LEMMA MinIs ==
  ASSUME NEW S \in SUBSET Nat, S # {}
  PROVE  Min(S) \in S
<1>1. PICK x \in S : \A y \in S : ~(<<y, x>> \in OpToRel(<, Nat))
  BY NatLessThanWellFounded, WFMin
<1>2. \A y \in S : x <= y
  <2>1. ASSUME NEW y \in S, y < x PROVE FALSE
    <3>1. <<y, x>> \in OpToRel(<, Nat)
      BY <2>1 DEF OpToRel
    <3> QED BY <1>1, <3>1
  <2> QED BY <2>1
<1> QED BY <1>1, <1>2 DEF Min

Names == Range(Databases)

LEMMA NamesAre ==
  /\ DOMAIN Databases \subseteq Nat /\ DOMAIN Buckets \subseteq Nat
  /\ \A i \in DOMAIN Databases : Databases[i] \in Names
  /\ \A n \in Names : \E i \in DOMAIN Databases : Databases[i] = n
  /\ \A n \in Range(Buckets) : \E i \in DOMAIN Buckets : Buckets[i] = n
  /\ Buckets # <<>> => DOMAIN Buckets # {}
<1>1. /\ DOMAIN Databases = 1..Len(Databases) /\ Len(Databases) \in Nat
      /\ DOMAIN Buckets = 1..Len(Buckets) /\ Len(Buckets) \in Nat
  BY DevInfraAssumption
<1>2. Buckets # <<>> => 1 \in DOMAIN Buckets
  <2>1. Buckets \in Seq(DOMAIN Sanitized)
    BY DevInfraAssumption
  <2>2. Buckets # <<>> => Len(Buckets) # 0
    BY <2>1
  <2> QED BY <1>1, <2>2
<1>3. /\ \A i \in DOMAIN Databases : Databases[i] \in Names
      /\ \A n \in Names : \E i \in DOMAIN Databases : Databases[i] = n
      /\ \A n \in Range(Buckets) : \E i \in DOMAIN Buckets : Buckets[i] = n
  BY DEF Names, Range
<1> QED BY <1>1, <1>2, <1>3

ProvType ==
  /\ DOMAIN at = Procs /\ DOMAIN dsn = Procs /\ DOMAIN s3 = Procs /\ DOMAIN todo = Procs
  /\ \A p \in Procs : DOMAIN dsn[p] = Names

(* The databases of a process: none yet, those its loop has done, all.     *)
NoDatabase(p) == \A n \in Names : dsn[p][n] = Given(n)

DatabasesBut(p, rest) ==
  /\ \A n \in Names : n \in host.given => dsn[p][n] = "given"
  /\ \A i \in DOMAIN Databases \ rest :
       Databases[i] \notin host.given => dsn[p][Databases[i]] \in dbs

DatabaseLoop(p) ==
  /\ todo[p] \subseteq DOMAIN Databases /\ todo[p] # {}
  /\ \A i \in todo[p] : Databases[i] \notin host.given
  /\ DatabasesBut(p, todo[p])

(* Its buckets: those its loop has done, all.                              *)
BucketsBut(rest) ==
  \A i \in DOMAIN Buckets \ rest : Sanitized[Buckets[i]] \in bkts

BucketLoop(p) ==
  /\ todo[p] \subseteq DOMAIN Buckets /\ todo[p] # {}
  /\ BucketsBut(todo[p])

BucketsDone(p) ==
  IF "s3" \in host.given THEN s3[p] = "given" ELSE BucketsBut({})

(* Where it is, and what it has by then.                                   *)
Provisioned(p) ==
  \/ at[p] = <<"run", "start">> /\ NoDatabase(p) /\ s3[p] = Given("s3")
  \/ at[p][1] = "postgres" /\ DatabaseLoop(p) /\ s3[p] = Given("s3")
  \/ at[p] = <<"run", "buckets">> /\ DatabasesBut(p, {}) /\ s3[p] = Given("s3")
  \/ /\ at[p][1] = "minio"
     /\ DatabasesBut(p, {}) /\ Buckets # <<>> /\ "s3" \notin host.given
     /\ at[p][2] = "create" => BucketLoop(p)
  \/ /\ at[p] \in {<<"run", "load">>, <<"over", "ok">>}
     /\ DatabasesBut(p, {}) /\ BucketsDone(p)
  \/ at[p][1] = "over" /\ at[p][2] # "ok"

ProvInv == ProvType /\ \A p \in Procs : cmd[p] = "run" => Provisioned(p)

LEMMA InitProv == Init => ProvInv
BY DEF Init, ShInit, DiInit, ProvInv, ProvType, Provisioned, NoDatabase, Names

LEMMA ProvServes == ProvInv => ServesProvisioned
<1> SUFFICES ASSUME ProvInv, NEW p \in Procs, cmd[p] = "run", At(p, "over", "ok")
             PROVE  /\ \A n \in Names :
                         IF n \in host.given THEN dsn[p][n] = "given" ELSE dsn[p][n] \in dbs
                    /\ IF "s3" \in host.given THEN s3[p] = "given"
                       ELSE \A b \in Range(Buckets) : Sanitized[b] = b => b \in bkts
  BY DEF ServesProvisioned, Names
<1>1. DatabasesBut(p, {}) /\ BucketsDone(p)
  BY DEF ProvInv, Provisioned, At
<1>2. \A n \in Names : IF n \in host.given THEN dsn[p][n] = "given" ELSE dsn[p][n] \in dbs
  BY <1>1, NamesAre DEF DatabasesBut
<1>3. IF "s3" \in host.given THEN s3[p] = "given"
      ELSE \A b \in Range(Buckets) : Sanitized[b] = b => b \in bkts
  BY <1>1, NamesAre DEF BucketsDone, BucketsBut
<1> QED BY <1>2, <1>3

(* Nothing is taken away, and a process has its own variables.             *)
LEMMA RunFrame ==
  ASSUME ProvType, NEW p \in Procs, RunStep(p)
  PROVE  /\ host' = host /\ dbs \subseteq dbs' /\ bkts \subseteq bkts'
         /\ ProvType'
         /\ \A q \in Procs \ {p} : /\ at'[q] = at[q] /\ dsn'[q] = dsn[q]
                                   /\ s3'[q] = s3[q] /\ todo'[q] = todo[q]
<1>1. /\ DOMAIN at' = Procs
      /\ \A q \in Procs \ {p} : at'[q] = at[q]
  BY RunStepMoves DEF Moves, ProvType
<1>2. ASSUME NEW c \in Containers, \/ CheckDocker(p, c) \/ DaemonUp(p, c) \/ Inspect(p, c)
                                   \/ RunContainer(p, c) \/ StartContainer(p, c) \/ GiveUp(p, c)
      PROVE  UNCHANGED <<host, dbs, bkts, dsn, s3, todo>>
  BY <1>2 DEF CheckDocker, DaemonUp, Inspect, RunContainer, StartContainer, GiveUp, diVars
<1>3. CASE ProvisionLocal(p) \/ WaitReady(p) \/ ProvisionBuckets(p) \/ Serve(p)
  <2>1. UNCHANGED <<host, dbs, bkts, dsn, s3>>
    BY <1>3 DEF ProvisionLocal, WaitReady, ProvisionBuckets, Serve, diVars
  <2>2. todo' = todo \/ \E t : todo' = [todo EXCEPT ![p] = t]
    BY <1>3 DEF ProvisionLocal, WaitReady, ProvisionBuckets, Serve, diVars
  <2> QED BY <1>1, <2>1, <2>2 DEF ProvType
<1>4. CASE WaitMinio(p) \/ CreateBucket(p)
  <2>1. UNCHANGED <<host, dbs, dsn>> /\ bkts \subseteq bkts'
    BY <1>4 DEF WaitMinio, CreateBucket
  <2>2. s3' = s3 \/ \E x : s3' = [s3 EXCEPT ![p] = x]
    BY <1>4 DEF WaitMinio, CreateBucket
  <2>3. todo' = todo \/ \E t : todo' = [todo EXCEPT ![p] = t]
    BY <1>4 DEF WaitMinio, CreateBucket, Next1
  <2> QED BY <1>1, <2>1, <2>2, <2>3 DEF ProvType
<1>5. CASE LookForDatabase(p) \/ CreateDatabase(p)
  <2>1. UNCHANGED <<host, bkts, s3>> /\ dbs \subseteq dbs'
    BY <1>5 DEF LookForDatabase, CreateDatabase
  <2>2. dsn' = dsn \/ \E n, x : dsn' = [dsn EXCEPT ![p] = [dsn[p] EXCEPT ![n] = x]]
    BY <1>5 DEF LookForDatabase, CreateDatabase, SetDsn
  <2>3. todo' = todo \/ \E t : todo' = [todo EXCEPT ![p] = t]
    BY <1>5 DEF LookForDatabase, CreateDatabase, SetDsn, Next1
  <2> QED BY <1>1, <2>1, <2>2, <2>3 DEF ProvType
<1>6. {"postgres", "minio"} \subseteq Containers
  BY DEF Containers
<1>7. CASE UNCHANGED <<host, dbs, bkts, dsn, s3, todo>>
  BY <1>1, <1>7 DEF ProvType
<1> QED BY <1>2, <1>3, <1>4, <1>5, <1>6, <1>7 DEF RunStep, EnsurePostgres, EnsureMinio


(* What a process has, it keeps.                                           *)
LEMMA ProvKept ==
  ASSUME NEW p \in Procs, Provisioned(p),
         host' = host, dbs \subseteq dbs', bkts \subseteq bkts',
         at'[p] = at[p], dsn'[p] = dsn[p], s3'[p] = s3[p], todo'[p] = todo[p]
  PROVE  Provisioned(p)'
<1>1. \A S : DatabasesBut(p, S) => DatabasesBut(p, S)'
  BY DEF DatabasesBut
<1>2. \A S : BucketsBut(S) => BucketsBut(S)'
  BY DEF BucketsBut
<1>3. DatabaseLoop(p) => DatabaseLoop(p)'
  BY <1>1 DEF DatabaseLoop
<1>4. BucketLoop(p) => BucketLoop(p)'
  BY <1>2 DEF BucketLoop
<1>5. BucketsDone(p) => BucketsDone(p)'
  BY <1>2 DEF BucketsDone
<1>6. NoDatabase(p) => NoDatabase(p)'
  BY DEF NoDatabase, Given
<1>7. s3[p] = Given("s3") => s3'[p] = Given("s3")'
  BY DEF Given
<1> QED BY <1>1, <1>3, <1>4, <1>5, <1>6, <1>7 DEF Provisioned

(* The steps in the containers: nothing is provisioned by them.            *)
LEMMA ContainerProv ==
  ASSUME ProvType, NEW p \in Procs, Provisioned(p), NEW c \in Containers,
         \/ CheckDocker(p, c) \/ DaemonUp(p, c) \/ Inspect(p, c)
         \/ RunContainer(p, c) \/ StartContainer(p, c) \/ GiveUp(p, c)
  PROVE  Provisioned(p)'
<1>1. UNCHANGED <<host, dbs, bkts, dsn, s3, todo>>
  BY DEF CheckDocker, DaemonUp, Inspect, RunContainer, StartContainer, GiveUp, diVars
<1>2. at[p][1] = c /\ at[p][2] # "create"
  BY DEF CheckDocker, DaemonUp, Inspect, RunContainer, StartContainer, GiveUp, At
<1>3. \/ at'[p] = <<"over", "failed">>
      \/ at'[p][1] = c /\ at'[p][2] # "create"
  BY DEF CheckDocker, DaemonUp, Inspect, RunContainer, StartContainer, GiveUp,
         Goto, Exit, ProvType
<1>4. CASE at'[p] = <<"over", "failed">>
  BY <1>4 DEF Provisioned
<1>5. CASE at'[p][1] = c /\ at'[p][2] # "create"
  <2>1. c \in {"postgres", "minio"}
    BY DEF Containers
  <2>2. DatabaseLoop(p) => DatabaseLoop(p)'
    BY <1>1 DEF DatabaseLoop, DatabasesBut
  <2>3. DatabasesBut(p, {}) => DatabasesBut(p, {})'
    BY <1>1 DEF DatabasesBut
  <2>4. s3[p] = Given("s3") => s3'[p] = Given("s3")'
    BY <1>1 DEF Given
  <2>5. CASE c = "postgres"
    <3>1. DatabaseLoop(p) /\ s3[p] = Given("s3")
      BY <1>2, <2>5 DEF Provisioned
    <3> QED BY <1>5, <2>2, <2>4, <2>5, <3>1 DEF Provisioned
  <2>6. CASE c = "minio"
    <3>1. DatabasesBut(p, {}) /\ Buckets # <<>> /\ "s3" \notin host.given
      BY <1>2, <2>6 DEF Provisioned
    <3> QED BY <1>1, <1>5, <2>3, <2>6, <3>1 DEF Provisioned
  <2> QED BY <2>1, <2>5, <2>6
<1> QED BY <1>3, <1>4, <1>5

LEMMA LocalProv ==
  ASSUME ProvType, NEW p \in Procs, Provisioned(p), ProvisionLocal(p)
  PROVE  Provisioned(p)'
<1>0. PICK missing : missing = {i \in DOMAIN Databases : dsn[p][Databases[i]] = "unset"}
  OBVIOUS
<1>1. /\ UNCHANGED <<host, dbs, dsn, s3>>
      /\ todo' = [todo EXCEPT ![p] = missing]
      /\ at' = [at EXCEPT ![p] = IF missing = {} THEN <<"run", "buckets">>
                                                 ELSE <<"postgres", "docker">>]
  BY <1>0 DEF ProvisionLocal, Goto
<1>2. at[p] = <<"run", "start">>
  BY DEF ProvisionLocal, At
<1>3. NoDatabase(p) /\ s3[p] = Given("s3")
  BY <1>2 DEF Provisioned
<1>4. s3'[p] = Given("s3")'
  BY <1>1, <1>3 DEF Given
<1>5. \A i \in DOMAIN Databases : i \in missing <=> Databases[i] \notin host.given
  BY <1>0, <1>3, NamesAre DEF NoDatabase, Given
<1>6. \A n \in Names : n \in host.given => dsn[p][n] = "given"
  BY <1>3 DEF NoDatabase, Given
<1>7. CASE missing = {}
  <2>1. DatabasesBut(p, {})'
    BY <1>1, <1>5, <1>6, <1>7 DEF DatabasesBut
  <2>2. at'[p] = <<"run", "buckets">>
    BY <1>1, <1>7 DEF ProvType
  <2> QED BY <1>4, <2>1, <2>2 DEF Provisioned
<1>8. CASE missing # {}
  <2>1. todo'[p] = missing /\ at'[p] = <<"postgres", "docker">>
    BY <1>1, <1>8 DEF ProvType
  <2>2. missing \subseteq DOMAIN Databases
    BY <1>0
  <2>3. DatabasesBut(p, missing)'
    BY <1>1, <1>5, <1>6 DEF DatabasesBut
  <2>4. DatabaseLoop(p)'
    BY <1>1, <1>5, <1>8, <2>1, <2>2, <2>3 DEF DatabaseLoop, DatabasesBut
  <2> QED BY <1>4, <2>1, <2>4 DEF Provisioned
<1> QED BY <1>7, <1>8

(* A database of the loop exists: its name is set and the loop goes on.    *)
LEMMA SetDsnProv ==
  ASSUME ProvType, NEW p \in Procs, DatabaseLoop(p), s3[p] = Given("s3"),
         host' = host, s3' = s3, dbs \subseteq dbs',
         NEW name, name = Current(p, Databases), Sanitized[name] \in dbs', SetDsn(p, name)
  PROVE  Provisioned(p)'
<1>0. PICK i, rest : i = Min(todo[p]) /\ rest = todo[p] \ {i}
  OBVIOUS
<1>1. i \in todo[p] /\ todo[p] \subseteq DOMAIN Databases /\ name = Databases[i]
  BY <1>0, NamesAre, MinIs DEF DatabaseLoop, Current
<1>2. name \in Names /\ name \notin host.given
  BY <1>1, NamesAre DEF DatabaseLoop
<1>3. /\ dsn' = [dsn EXCEPT ![p][name] = Sanitized[name]]
      /\ todo' = [todo EXCEPT ![p] = rest]
      /\ at' = [at EXCEPT ![p] = IF rest = {} THEN <<"run", "buckets">>
                                              ELSE <<"postgres", "select">>]
  BY <1>0 DEF SetDsn, Next1, Goto
<1>4. /\ todo'[p] = rest
      /\ dsn'[p][name] = Sanitized[name]
      /\ \A n \in Names : n # name => dsn'[p][n] = dsn[p][n]
  BY <1>2, <1>3 DEF ProvType
<1>5. rest \subseteq todo[p] /\ \A j \in todo[p] : j \in rest \/ j = i
  BY <1>0
<1>6. DatabasesBut(p, rest)'
  <2>1. \A n \in Names : n \in host.given => dsn'[p][n] = "given"
    BY <1>2, <1>4 DEF DatabaseLoop, DatabasesBut
  <2>2. ASSUME NEW j \in DOMAIN Databases \ rest, Databases[j] \notin host.given
        PROVE  dsn'[p][Databases[j]] \in dbs'
    <3>1. CASE Databases[j] = name
      BY <1>4, <3>1
    <3>2. CASE Databases[j] # name
      <4>1. j \notin todo[p]
        BY <1>1, <1>5, <2>2, <3>2
      <4>2. dsn[p][Databases[j]] \in dbs
        BY <2>2, <4>1 DEF DatabaseLoop, DatabasesBut
      <4> QED BY <1>4, <3>2, <4>2, NamesAre
    <3> QED BY <3>1, <3>2
  <2> QED BY <2>1, <2>2 DEF DatabasesBut
<1>7. s3'[p] = Given("s3")'
  BY DEF Given
<1>8. CASE rest = {}
  <2>1. at'[p] = <<"run", "buckets">>
    BY <1>3, <1>8 DEF ProvType
  <2> QED BY <1>6, <1>7, <1>8, <2>1 DEF Provisioned
<1>9. CASE rest # {}
  <2>1. at'[p] = <<"postgres", "select">>
    BY <1>3, <1>9 DEF ProvType
  <2>2. DatabaseLoop(p)'
    BY <1>1, <1>4, <1>5, <1>6, <1>9 DEF DatabaseLoop
  <2> QED BY <1>7, <2>1, <2>2 DEF Provisioned
<1> QED BY <1>8, <1>9


LEMMA DatabaseProv ==
  ASSUME ProvType, NEW p \in Procs, Provisioned(p),
         WaitReady(p) \/ LookForDatabase(p) \/ CreateDatabase(p)
  PROVE  Provisioned(p)'
<1>1. at[p][1] = "postgres"
  BY DEF WaitReady, LookForDatabase, CreateDatabase, At
<1>2. DatabaseLoop(p) /\ s3[p] = Given("s3")
  BY <1>1 DEF Provisioned
<1>3. host' = host /\ s3' = s3 /\ dbs \subseteq dbs'
  BY DEF WaitReady, LookForDatabase, CreateDatabase, diVars
<1>4. CASE SetDsn(p, Current(p, Databases)) /\ Sanitized[Current(p, Databases)] \in dbs'
  BY <1>2, <1>3, <1>4, SetDsnProv
<1>5. CASE at'[p] = <<"over", "crashed">>
  BY <1>5 DEF Provisioned
<1>6. CASE at'[p][1] = "postgres" /\ UNCHANGED <<dsn, todo>>
  <2>1. DatabaseLoop(p)'
    BY <1>2, <1>3, <1>6 DEF DatabaseLoop, DatabasesBut
  <2>2. s3'[p] = Given("s3")'
    BY <1>2, <1>3 DEF Given
  <2> QED BY <1>6, <2>1, <2>2 DEF Provisioned
<1>7. ASSUME WaitReady(p)
      PROVE  at'[p][1] = "postgres" /\ UNCHANGED <<dsn, todo>>
  BY <1>7 DEF WaitReady, Goto, diVars, ProvType
<1>8. ASSUME LookForDatabase(p)
      PROVE  \/ SetDsn(p, Current(p, Databases)) /\ Sanitized[Current(p, Databases)] \in dbs'
             \/ at'[p] = <<"over", "crashed">>
             \/ at'[p][1] = "postgres" /\ UNCHANGED <<dsn, todo>>
  BY <1>8 DEF LookForDatabase, Exit, Goto, ProvType
<1>9. ASSUME CreateDatabase(p)
      PROVE  \/ SetDsn(p, Current(p, Databases)) /\ Sanitized[Current(p, Databases)] \in dbs'
             \/ at'[p] = <<"over", "crashed">>
  BY <1>9 DEF CreateDatabase, Exit, Goto, ProvType
<1> QED BY <1>4, <1>5, <1>6, <1>7, <1>8, <1>9

LEMMA BucketProv ==
  ASSUME ProvType, NEW p \in Procs, Provisioned(p),
         ProvisionBuckets(p) \/ WaitMinio(p) \/ CreateBucket(p) \/ Serve(p)
  PROVE  Provisioned(p)'
<1>1. /\ UNCHANGED <<host, dbs, dsn>> /\ bkts \subseteq bkts'
  BY DEF ProvisionBuckets, WaitMinio, CreateBucket, Serve, diVars
<1>2. DatabasesBut(p, {})
  BY DEF ProvisionBuckets, WaitMinio, CreateBucket, Serve, Provisioned, At
<1>3. DatabasesBut(p, {})'
  BY <1>1, <1>2 DEF DatabasesBut
<1>4. CASE ProvisionBuckets(p)
  <2>1. s3[p] = Given("s3") /\ UNCHANGED <<s3, bkts>>
    BY <1>4 DEF ProvisionBuckets, Provisioned, At, diVars
  <2>2. CASE Buckets = <<>> \/ s3[p] # "unset"
    <3>1. at'[p] = <<"run", "load">>
      BY <1>4, <2>2 DEF ProvisionBuckets, Goto, ProvType
    <3>2. "s3" \notin host.given => DOMAIN Buckets = {}
      <4>1. Buckets = <<>> => DOMAIN Buckets = {}
        OBVIOUS
      <4> QED BY <2>1, <2>2, <4>1 DEF Given
    <3>3. BucketsDone(p)'
      BY <1>1, <2>1, <3>2 DEF BucketsDone, BucketsBut, Given
    <3> QED BY <1>3, <3>1, <3>3 DEF Provisioned
  <2>3. CASE Buckets # <<>> /\ s3[p] = "unset"
    <3>1. at'[p] = <<"minio", "docker">>
      BY <1>4, <2>3 DEF ProvisionBuckets, Goto, ProvType
    <3>2. "s3" \notin host'.given
      BY <1>1, <2>1, <2>3 DEF Given
    <3> QED BY <1>3, <2>3, <3>1, <3>2 DEF Provisioned
  <2> QED BY <2>2, <2>3
<1>5. CASE WaitMinio(p)
  <2>1. Buckets # <<>> /\ "s3" \notin host'.given
    BY <1>1, <1>5 DEF WaitMinio, Provisioned, At
  <2>2. at'[p] = <<"minio", "create">> /\ todo'[p] = DOMAIN Buckets
    BY <1>5 DEF WaitMinio, Goto, ProvType
  <2>3. BucketLoop(p)'
    BY <2>1, <2>2, NamesAre DEF BucketLoop, BucketsBut
  <2> QED BY <1>3, <2>1, <2>2, <2>3 DEF Provisioned
<1>6. CASE CreateBucket(p)
  <2>1. /\ BucketLoop(p) /\ Buckets # <<>> /\ "s3" \notin host'.given
    BY <1>1, <1>6 DEF CreateBucket, Provisioned, At
  <2>2. CASE at'[p] = <<"over", "crashed">>
    BY <2>2 DEF Provisioned
  <2>3. CASE /\ bkts' = bkts \union {Sanitized[Current(p, Buckets)]}
             /\ Next1(p, "minio", "create", "load")
    <3>1. PICK i, rest : i = Min(todo[p]) /\ rest = todo[p] \ {i}
      OBVIOUS
    <3>2. i \in todo[p] /\ todo[p] \subseteq DOMAIN Buckets
      BY <2>1, <3>1, NamesAre, MinIs DEF BucketLoop
    <3>3. todo'[p] = rest /\ Sanitized[Buckets[i]] \in bkts'
      BY <2>3, <3>1 DEF Next1, Current, ProvType
    <3>4. BucketsBut(rest)'
      BY <1>1, <2>1, <3>1, <3>3 DEF BucketLoop, BucketsBut
    <3>5. CASE rest = {}
      <4>1. at'[p] = <<"run", "load">>
        BY <2>3, <3>1, <3>5 DEF Next1, Goto, ProvType
      <4>2. BucketsDone(p)'
        BY <2>1, <3>4, <3>5 DEF BucketsDone
      <4> QED BY <1>3, <4>1, <4>2 DEF Provisioned
    <3>6. CASE rest # {}
      <4>1. at'[p] = <<"minio", "create">>
        BY <2>3, <3>1, <3>6 DEF Next1, Goto, ProvType
      <4>2. BucketLoop(p)'
        BY <3>1, <3>2, <3>3, <3>4, <3>6 DEF BucketLoop
      <4> QED BY <1>3, <2>1, <4>1, <4>2 DEF Provisioned
    <3> QED BY <3>5, <3>6
  <2> QED BY <1>6, <2>2, <2>3 DEF CreateBucket, Exit, Goto, ProvType
<1>7. CASE Serve(p)
  <2>1. UNCHANGED <<s3, bkts>> /\ at'[p] = <<"over", "ok">>
    BY <1>7 DEF Serve, Exit, Goto, diVars, ProvType
  <2>2. BucketsDone(p)
    BY <1>7 DEF Serve, Provisioned, At
  <2>3. BucketsDone(p)'
    BY <1>1, <2>1, <2>2 DEF BucketsDone, BucketsBut
  <2> QED BY <1>3, <2>1, <2>3 DEF Provisioned
<1> QED BY <1>4, <1>5, <1>6, <1>7

LEMMA RunStepProv ==
  ASSUME ProvType, NEW p \in Procs, Provisioned(p), RunStep(p)
  PROVE  Provisioned(p)'
<1>1. {"postgres", "minio"} \subseteq Containers
  BY DEF Containers
<1> QED BY <1>1, LocalProv, ContainerProv, DatabaseProv, BucketProv
        DEF RunStep, EnsurePostgres, EnsureMinio

(* A `run` typed again starts from the environment.                        *)
LEMMA RunAgainProv ==
  ASSUME ProvType, NEW p \in Procs, RunAgain(p)
  PROVE  /\ ProvType' /\ Provisioned(p)'
         /\ host' = host /\ dbs' = dbs /\ bkts' = bkts
         /\ \A q \in Procs \ {p} : /\ at'[q] = at[q] /\ dsn'[q] = dsn[q]
                                   /\ s3'[q] = s3[q] /\ todo'[q] = todo[q]
<1>1. /\ UNCHANGED <<host, dbs, bkts>>
      /\ dsn' = [dsn EXCEPT ![p] = [n \in Names |-> Given(n)]]
      /\ s3' = [s3 EXCEPT ![p] = Given("s3")]
      /\ todo' = [todo EXCEPT ![p] = {}]
      /\ \E step : at' = [at EXCEPT ![p] = <<cmd[p], step>>] /\ step = "start"
      /\ cmd[p] = "run"
  BY DEF RunAgain, Again, Fresh, Goto, Names
<1>2. ProvType'
  BY <1>1 DEF ProvType
<1>3. Given("s3")' = Given("s3") /\ \A n \in Names : Given(n)' = Given(n)
  BY <1>1 DEF Given
<1>4. Provisioned(p)'
  <2>1. at'[p] = <<"run", "start">> /\ s3'[p] = Given("s3")'
    BY <1>1, <1>3 DEF ProvType
  <2>2. NoDatabase(p)'
    BY <1>1, <1>3 DEF ProvType, NoDatabase
  <2> QED BY <2>1, <2>2 DEF Provisioned
<1> QED BY <1>1, <1>2, <1>4 DEF ProvType

LEMMA ProvInductive == ProvInv /\ [Next]_vars => ProvInv'
<1> SUFFICES ASSUME ProvInv, [Next]_vars PROVE ProvInv'
  OBVIOUS
<1>0. ProvType /\ DOMAIN at = Procs
  BY DEF ProvInv, ProvType
<1>1. cmd' = cmd /\ DOMAIN at' = Procs
  BY <1>0, StepKeeps
<1>2. CASE \E p \in Procs : RunStep(p)
  <2>1. PICK p \in Procs : RunStep(p)
    BY <1>2
  <2>2. /\ host' = host /\ dbs \subseteq dbs' /\ bkts \subseteq bkts' /\ ProvType'
        /\ \A q \in Procs \ {p} : /\ at'[q] = at[q] /\ dsn'[q] = dsn[q]
                                  /\ s3'[q] = s3[q] /\ todo'[q] = todo[q]
    BY <1>0, <2>1, RunFrame
  <2>3. ASSUME NEW q \in Procs, cmd'[q] = "run" PROVE Provisioned(q)'
    <3>1. Provisioned(q)
      BY <1>1, <2>3 DEF ProvInv
    <3>2. CASE q = p
      BY <1>0, <2>1, <3>1, <3>2, RunStepProv
    <3>3. CASE q # p
      BY <2>2, <3>1, <3>3, ProvKept
    <3> QED BY <3>2, <3>3
  <2> QED BY <2>2, <2>3 DEF ProvInv
<1>3. CASE \E p \in Procs : Retry(p)
  <2>1. PICK p \in Procs : RunAgain(p)
    BY <1>3 DEF Retry
  <2>2. /\ host' = host /\ dbs' = dbs /\ bkts' = bkts /\ ProvType' /\ Provisioned(p)'
        /\ \A q \in Procs \ {p} : /\ at'[q] = at[q] /\ dsn'[q] = dsn[q]
                                  /\ s3'[q] = s3[q] /\ todo'[q] = todo[q]
    BY <1>0, <2>1, RunAgainProv
  <2>3. ASSUME NEW q \in Procs, cmd'[q] = "run" PROVE Provisioned(q)'
    <3>1. Provisioned(q)
      BY <1>1, <2>3 DEF ProvInv
    <3>2. CASE q = p
      BY <2>2, <3>2
    <3>3. CASE q # p
      BY <2>2, <3>1, <3>3, ProvKept
    <3> QED BY <3>2, <3>3
  <2> QED BY <2>2, <2>3 DEF ProvInv
<1>4. ASSUME ~\E p \in Procs : RunStep(p), ~\E p \in Procs : Retry(p)
      PROVE  ProvInv'
  <2>1. UNCHANGED <<host, dbs, bkts, dsn, s3, todo>>
    BY <1>4 DEF Next, Command, Kill, Environment, Machine, DaemonStarts, Stops,
                ContainerReady, vars, diVars
  <2>2. ProvType'
    BY <1>0, <1>1, <2>1 DEF ProvType
  <2>3. ASSUME NEW q \in Procs, cmd'[q] = "run" PROVE Provisioned(q)'
    <3>1. Provisioned(q)
      BY <1>1, <2>3 DEF ProvInv
    <3>2. CASE at'[q] = at[q]
      BY <2>1, <3>1, <3>2, ProvKept
    <3>3. CASE at'[q] = <<"over", "killed">>
      BY <3>3 DEF Provisioned
    <3>4. ~Command(q)
      <4>1. at[q][1] \notin OtherPlaces
        BY <3>1 DEF Provisioned, OtherPlaces
      <4> QED BY <1>4, <4>1, PdStepMoves DEF Command, Moves
    <3> QED BY <1>0, <1>4, <3>2, <3>3, <3>4, StepIs
  <2> QED BY <2>2, <2>3 DEF ProvInv
<1> QED BY <1>2, <1>3, <1>4

(* A `run` that serves reaches what its app declares (devinfra.py:33-55,   *)
(* 118-125, 137-153): every DSN the environment has not given names a      *)
(* database that exists, and every bucket too, however many `run`s do this *)
(* at once, whatever fails or is interrupted, and however often it is      *)
(* typed again.                                                            *)
THEOREM RunsServeProvisioned == Spec => []ServesProvisioned
<1>1. Init => ProvInv
  BY InitProv
<1>2. ProvInv /\ [Next]_vars => ProvInv'
  BY ProvInductive
<1>3. ProvInv => ServesProvisioned
  BY ProvServes
<1> QED BY <1>1, <1>2, <1>3, PTL DEF Spec


-----------------------------------------------------------------------------
(* link's _apply on any text: the other lines stay, in their order, and in *)
(* a text that can be parsed the app is the one that is linked.            *)
LEMMA SamePlaces ==
  ASSUME NEW lines, NEW new, Others(new) = Others(lines), Others(lines) \subseteq Nat,
         \A i \in Others(lines) : new[i] = lines[i]
  PROVE  SameOthers(new, lines)
<1> DEFINE place == [i \in Others(lines) |-> i]
<1>1. place \in Bijection(Others(lines), Others(new))
  BY DEF Bijection, Injection, Surjection, IsInjective
<1> QED BY <1>1 DEF SameOthers

(* What both readers take for what, of the lines link writes.              *)
LEMMA ByIs ==
  ASSUME NEW by \in {ByLink, ByToml}
  PROVE  /\ "own" \in by.own /\ "own" \in by.headers /\ "app" \in by.apps
         /\ "own" \notin by.apps /\ "app" \notin by.own /\ "app" \notin by.headers
         /\ "appText" \notin by.own /\ "appText" \notin by.headers
<1>1. CASE by = ByLink
  BY <1>1 DEF ByLink
<1>2. CASE by = ByToml
  BY <1>2 DEF ByToml
<1> QED BY <1>1, <1>2

LEMMA LinkReadsAs ==
  /\ ByLink.apps = {"app", "appText"} /\ ByLink.own = {"own", "ownText"}
  /\ ByToml.apps = {"app", "oddApp"} /\ ByToml.own = {"own", "oddOwn"}
BY DEF ByLink, ByToml

LEMMA AppsInIs ==
  ASSUME NEW l, NEW by, NEW k
  PROVE  k \in AppsIn(l, by) <=> /\ k \in Indices(l, by.apps)
                                /\ \E i \in Indices(l, by.own) : k \in Section(l, i, by)
BY DEF AppsIn

(* What a text that can be parsed and is recognised has.                   *)
LEMMA RecognisedHas ==
  ASSUME NEW lines, Parsed(lines), Recognised(lines)
  PROVE  /\ Indices(lines, ByToml.own) = Indices(lines, ByLink.own)
         /\ Apps(lines) = AppsIn(lines, ByLink)
         /\ AppsIn(lines, ByToml) \subseteq AppsIn(lines, ByLink)
         /\ Indices(lines, {"dotted"}) = {}
<1>1. Indices(lines, {"dotted"}) \intersect AppsIn(lines, ByLink) = {}
  BY LinkReadsAs DEF AppsIn, Indices
<1>2. Indices(lines, {"dotted"}) \subseteq Apps(lines)
  BY DEF Apps
<1>3. Apps(lines) = AppsIn(lines, ByLink)
  BY DEF Recognised
<1>4. AppsIn(lines, ByToml) \subseteq Apps(lines)
  BY DEF Apps
<1> QED BY <1>1, <1>2, <1>3, <1>4 DEF Recognised

(* No section: it is added at the end.                                     *)
LEMMA AddsSection ==
  ASSUME NEW S, NEW lines \in Seq(S), NEW app, Indices(lines, ByLink.own) = {},
         NEW new, new = lines \o <<Line("own"), AppLine(app)>>
  PROVE  /\ SameOthers(new, lines)
         /\ Parsed(lines) /\ Recognised(lines) => AppName(new) = app
         /\ Indices(new, ByLink.apps) # {}
<1>1. PICK n \in Nat : n = Len(lines) /\ DOMAIN lines = 1..n
  OBVIOUS
<1>2. /\ DOMAIN new = 1..(n + 2)
      /\ \A k \in 1..n : new[k] = lines[k]
      /\ new[n + 1] = Line("own") /\ new[n + 2] = AppLine(app)
  <2> DEFINE T == S \union {Line("own"), AppLine(app)}
             two == <<Line("own"), AppLine(app)>>
  <2>1. lines \in Seq(T) /\ two \in Seq(T) /\ Len(two) = 2
    OBVIOUS
  <2>2. two[1] = Line("own") /\ two[2] = AppLine(app)
    OBVIOUS
  <2> HIDE DEF T, two
  <2>3. /\ new \in Seq(T) /\ Len(new) = n + 2
        /\ \A k \in 1..(n + 2) : new[k] = IF k <= n THEN lines[k] ELSE two[k - n]
    BY <1>1, <2>1, ConcatProperties DEF two
  <2>4. /\ n + 1 \in 1..(n + 2) /\ ~(n + 1 <= n) /\ (n + 1) - n = 1
        /\ n + 2 \in 1..(n + 2) /\ ~(n + 2 <= n) /\ (n + 2) - n = 2
        /\ \A k \in 1..n : k \in 1..(n + 2) /\ k <= n
    BY <1>1
  <2>5. new[n + 1] = two[1] /\ new[n + 2] = two[2] /\ \A k \in 1..n : new[k] = lines[k]
    BY <2>3, <2>4
  <2>6. DOMAIN new = 1..(n + 2)
    BY <2>3
  <2> QED BY <2>2, <2>5, <2>6
<1>3. new[n + 1][1] = "own" /\ new[n + 2][1] = "app" /\ new[n + 2][2] = app
  <2>1. Line("own")[1] = "own" /\ AppLine(app)[1] = "app" /\ AppLine(app)[2] = app
    BY DEF Line, AppLine, Entry
  <2> QED BY <1>2, <2>1
<1>4. 1..(n + 2) = 1..n \union {n + 1, n + 2} /\ n + 1 \notin 1..n /\ n + 2 \notin 1..n
  BY <1>1
<1>5. ASSUME NEW by \in {ByLink, ByToml}, Indices(lines, by.own) = {}
      PROVE  /\ Indices(new, by.own) = {n + 1} /\ AppsIn(new, by) = {n + 2}
             /\ AppsIn(lines, by) = {}
  <2>1. \A k \in 1..n : lines[k][1] \notin by.own
    BY <1>1, <1>5 DEF Indices
  <2>2. Indices(new, by.own) = {n + 1}
    BY <1>2, <1>3, <1>4, <2>1, ByIs DEF Indices
  <2>3. \A k \in 1..(n + 2) : k > n + 1 <=> k = n + 2
    BY <1>1
  <2>4. \A j \in Indices(new, by.headers) : ~(j > n + 1)
    BY <1>2, <1>3, <2>3, ByIs DEF Indices
  <2>5. Section(new, n + 1, by) = {n + 2}
    BY <1>2, <1>4, <2>3, <2>4 DEF Section
  <2>6. n + 2 \in Indices(new, by.apps)
    BY <1>2, <1>3, <1>4, ByIs DEF Indices
  <2>7. AppsIn(new, by) = {n + 2}
    BY <2>2, <2>5, <2>6, AppsInIs
  <2>8. AppsIn(lines, by) = {}
    BY <1>5, AppsInIs
  <2> QED BY <2>2, <2>7, <2>8
<1>6. /\ Indices(new, ByLink.own) = {n + 1} /\ AppsIn(new, ByLink) = {n + 2}
      /\ AppsIn(lines, ByLink) = {}
  BY <1>5
<1>9. Others(lines) = 1..n
  BY <1>1, <1>6 DEF Others
<1>10. Others(new) = 1..n
  <2>1. Others(new) = 1..(n + 2) \ {n + 1, n + 2}
    BY <1>2, <1>6 DEF Others
  <2> HIDE DEF Indices
  <2> QED BY <1>4, <2>1
<1>11. SameOthers(new, lines)
  <2>1. 1..n \subseteq Nat /\ \A i \in 1..n : new[i] = lines[i]
    BY <1>1, <1>2
  <2> QED BY <1>9, <1>10, <2>1, SamePlaces
<1>12. ASSUME Parsed(lines), Recognised(lines) PROVE AppName(new) = app
  <2>1. Indices(new, {"garbage"}) = {} /\ Indices(new, {"dotted"}) = {}
    <3>1. \A k \in 1..n : lines[k][1] # "garbage" /\ lines[k][1] # "dotted"
      BY <1>1, <1>12, RecognisedHas DEF Parsed, Indices
    <3>2. \A k \in 1..(n + 2) : new[k][1] # "garbage" /\ new[k][1] # "dotted"
      <4> SUFFICES ASSUME NEW k \in 1..(n + 2)
                   PROVE  new[k][1] # "garbage" /\ new[k][1] # "dotted"
        OBVIOUS
      <4>1. k \in 1..n \/ k = n + 1 \/ k = n + 2
        BY <1>4
      <4> QED BY <1>2, <1>3, <3>1, <4>1
    <3> QED BY <1>2, <3>2 DEF Indices
  <2>2. Indices(new, ByToml.own) = {n + 1} /\ AppsIn(new, ByToml) = {n + 2}
    <3>1. Indices(lines, ByToml.own) = {}
      BY <1>12, RecognisedHas
    <3> QED BY <1>5, <3>1
  <2>3. Apps(new) = {n + 2}
    BY <2>1, <2>2 DEF Apps
  <2>4. Parsed(new)
    BY <2>1, <2>2, <2>3 DEF Parsed
  <2>5. Min({n + 2}) = n + 2
    <3>1. {n + 2} \in SUBSET Nat
      BY <1>1
    <3> QED BY <3>1, MinIs
  <2> QED BY <1>3, <2>3, <2>4, <2>5 DEF AppName
<1>13. n + 2 \in Indices(new, ByLink.apps)
  BY <1>6, AppsInIs
<1> QED BY <1>11, <1>12, <1>13

(* The section has an app: its line is replaced.                           *)
LEMMA ReplacesApp ==
  ASSUME NEW S, NEW lines \in Seq(S), NEW app, NEW start \in Indices(lines, ByLink.own),
         NEW at1 \in Section(lines, start, ByLink) \intersect Indices(lines, ByLink.apps),
         NEW new, new = ReplaceAt(lines, at1, Entry(lines[at1][1], app))
  PROVE  /\ SameOthers(new, lines)
         /\ Parsed(lines) /\ Recognised(lines) => AppName(new) = app
         /\ Indices(new, ByLink.apps) # {}
<1>0. DOMAIN lines = 1..Len(lines) /\ Len(lines) \in Nat
  OBVIOUS
<1>1. DOMAIN lines \subseteq Nat /\ at1 \in DOMAIN lines /\ at1 \in AppsIn(lines, ByLink)
  <2>1. at1 \in AppsIn(lines, ByLink)
    BY AppsInIs
  <2>2. at1 \in DOMAIN lines
    BY DEF Indices
  <2> QED BY <1>0, <2>1, <2>2
<1>2. /\ DOMAIN new = DOMAIN lines
      /\ \A k \in DOMAIN lines : new[k] = IF k = at1 THEN Entry(lines[at1][1], app) ELSE lines[k]
  BY <1>1 DEF ReplaceAt
<1>3. \A k \in DOMAIN lines : new[k][1] = lines[k][1]
  BY <1>1, <1>2 DEF Entry
<1>4. \A K : Indices(new, K) = Indices(lines, K)
  BY <1>2, <1>3 DEF Indices
<1>5. \A i, by : Section(new, i, by) = Section(lines, i, by)
  BY <1>2, <1>4 DEF Section
<1>6. \A by : AppsIn(new, by) = AppsIn(lines, by)
  BY <1>4, <1>5 DEF AppsIn
<1>7. Others(new) = Others(lines)
  BY <1>2, <1>4, <1>6 DEF Others
<1>8. SameOthers(new, lines)
  <2>1. Others(lines) \subseteq DOMAIN lines \ {at1}
    BY <1>1 DEF Others
  <2> QED BY <1>1, <1>2, <1>7, <2>1, SamePlaces
<1>9. ASSUME Parsed(lines), Recognised(lines) PROVE AppName(new) = app
  <2>0. Apps(new) = Apps(lines)
    BY <1>4, <1>6 DEF Apps
  <2>1. Parsed(new)
    BY <1>4, <1>9, <2>0 DEF Parsed
  <2>2. Apps(new) = {at1}
    BY <1>1, <1>9, <2>0, RecognisedHas DEF Parsed
  <2>3. Min(Apps(new)) = at1
    <3>1. Apps(new) \in SUBSET Nat /\ Apps(new) # {}
      BY <1>1, <2>2
    <3> QED BY <2>2, <3>1, MinIs
  <2>4. new[at1][2] = app
    BY <1>1, <1>2 DEF Entry
  <2> QED BY <2>1, <2>2, <2>3, <2>4 DEF AppName
<1>10. at1 \in Indices(new, ByLink.apps)
  BY <1>4
<1> QED BY <1>8, <1>9, <1>10


(* Two sequences one after the other.                                      *)
LEMMA ConcatIs ==
  ASSUME NEW S, NEW u \in Seq(S), NEW v \in Seq(S), NEW i, i = Len(u), NEW j, j = Len(v)
  PROVE  /\ u \o v \in Seq(S) /\ Len(u \o v) = i + j /\ DOMAIN (u \o v) = 1..(i + j)
         /\ \A k \in 1..(i + j) : (u \o v)[k] = IF k <= i THEN u[k] ELSE v[k - i]
<1>1. u \o v \in Seq(S) /\ Len(u \o v) = i + j
  BY ConcatProperties
<1>2. \A k \in 1..(i + j) : (u \o v)[k] = IF k <= i THEN u[k] ELSE v[k - i]
  BY ConcatProperties
<1> QED BY <1>1, <1>2

(* The section has none: it is added under the header.                     *)
LEMMA InsertedAt ==
  ASSUME NEW S, NEW lines \in Seq(S), NEW start \in DOMAIN lines, NEW e \in S
  PROVE  LET new == InsertAt(lines, start + 1, e)
         IN  /\ DOMAIN new = 1..(Len(lines) + 1)
             /\ \A k \in 1..(Len(lines) + 1) :
                   new[k] = IF k <= start THEN lines[k]
                            ELSE IF k = start + 1 THEN e ELSE lines[k - 1]
<1>1. PICK n \in Nat : n = Len(lines) /\ DOMAIN lines = 1..n /\ start \in 1..n
  OBVIOUS
<1>2. <<e>> \in Seq(S) /\ Len(<<e>>) = 1 /\ <<e>>[1] = e
  OBVIOUS
<1>3. PICK one : one = <<e>> /\ one \in Seq(S) /\ Len(one) = 1 /\ one[1] = e
  <2> DEFINE w == <<e>>
  <2>1. w = <<e>> /\ w \in Seq(S) /\ Len(w) = 1 /\ w[1] = e
    BY <1>2
  <2> HIDE DEF w
  <2> QED BY <2>1
<1>4. PICK a : /\ a = SubSeq(lines, 1, start) /\ a \in Seq(S) /\ Len(a) = start
               /\ \A k \in 1..start : a[k] = lines[k]
  <2> DEFINE w == SubSeq(lines, 1, start)
  <2>1. w \in Seq(S) /\ Len(w) = start /\ \A k \in 1..start : w[k] = lines[k]
    BY <1>1, SubSeqProperties
  <2>2. w = SubSeq(lines, 1, start)
    OBVIOUS
  <2> HIDE DEF w
  <2> QED BY <2>1, <2>2
<1>5. PICK b : /\ b = SubSeq(lines, start + 1, n) /\ b \in Seq(S) /\ Len(b) = n - start
               /\ \A k \in 1..(n - start) : b[k] = lines[start + k]
  <2> DEFINE w == SubSeq(lines, start + 1, n)
  <2>0. start + 1 \in 1..(n + 1)
    BY <1>1
  <2>1. w \in Seq(S) /\ Len(w) = n - start /\ \A k \in 1..(n - start) : w[k] = lines[start + k]
    BY <1>1, <2>0, SubSeqProperties, SMTT(30)
  <2>2. w = SubSeq(lines, start + 1, n)
    OBVIOUS
  <2> HIDE DEF w
  <2> QED BY <2>1, <2>2
<1>6. PICK c :
         /\ c = a \o one /\ c \in Seq(S) /\ Len(c) = start + 1
         /\ \A k \in 1..(start + 1) : c[k] = IF k <= start THEN a[k] ELSE one[k - start]
  <2> DEFINE w == a \o one
  <2>1. /\ w \in Seq(S) /\ Len(w) = start + 1
        /\ \A k \in 1..(start + 1) : w[k] = IF k <= start THEN a[k] ELSE one[k - start]
    BY <1>3, <1>4, ConcatIs
  <2>2. w = a \o one
    OBVIOUS
  <2> HIDE DEF w
  <2> QED BY <2>1, <2>2
<1>7. \A k \in 1..(start + 1) : c[k] = IF k <= start THEN lines[k] ELSE e
  <2> TAKE k \in 1..(start + 1)
  <2>1. k <= start => k \in 1..start
    BY <1>1
  <2>2. ~(k <= start) => k - start = 1
    BY <1>1
  <2> QED BY <1>3, <1>4, <1>6, <2>1, <2>2
<1>8. /\ DOMAIN (c \o b) = 1..(n + 1)
      /\ \A k \in 1..(n + 1) :
            (c \o b)[k] = IF k <= start + 1 THEN c[k] ELSE b[k - (start + 1)]
  <2>1. (start + 1) + (n - start) = n + 1
    BY <1>1
  <2>2. /\ DOMAIN (c \o b) = 1..((start + 1) + (n - start))
        /\ \A k \in 1..((start + 1) + (n - start)) :
              (c \o b)[k] = IF k <= start + 1 THEN c[k] ELSE b[k - (start + 1)]
    <3>1. c \in Seq(S) /\ b \in Seq(S)
      BY <1>5, <1>6
    <3>2. PICK i : i = start + 1
      OBVIOUS
    <3>3. PICK j : j = n - start
      OBVIOUS
    <3>4. Len(c) = i /\ Len(b) = j
      BY <1>5, <1>6, <3>2, <3>3
    <3>5. /\ DOMAIN (c \o b) = 1..(i + j)
          /\ \A k \in 1..(i + j) : (c \o b)[k] = IF k <= i THEN c[k] ELSE b[k - i]
      BY <3>1, <3>4, ConcatIs, SMTT(30)
    <3> QED BY <3>2, <3>3, <3>5
  <2> QED BY <2>1, <2>2
<1>9. \A k \in 1..(n + 1) : (c \o b)[k] =
         IF k <= start THEN lines[k] ELSE IF k = start + 1 THEN e ELSE lines[k - 1]
  <2> TAKE k \in 1..(n + 1)
  <2>1. (c \o b)[k] = IF k <= start + 1 THEN c[k] ELSE b[k - (start + 1)]
    BY <1>8
  <2>2. k <= start + 1 => k \in 1..(start + 1)
    BY <1>1
  <2>3. ~(k <= start + 1) => /\ k - (start + 1) \in 1..(n - start)
                            /\ start + (k - (start + 1)) = k - 1
                            /\ ~(k <= start) /\ k # start + 1
    BY <1>1
  <2>4. k <= start + 1 => (k <= start <=> k # start + 1)
    BY <1>1
  <2> QED BY <1>5, <1>7, <2>1, <2>2, <2>3, <2>4
<1>10. InsertAt(lines, start + 1, e) = c \o b
  <2>1. (start + 1) - 1 = start
    BY <1>1
  <2>2. InsertAt(lines, start + 1, e)
          = SubSeq(lines, 1, (start + 1) - 1) \o <<e>> \o SubSeq(lines, start + 1, Len(lines))
    BY DEF InsertAt
  <2>3. a = SubSeq(lines, 1, start) /\ b = SubSeq(lines, start + 1, n) /\ one = <<e>>
        /\ c = a \o one
    BY <1>3, <1>4, <1>5, <1>6
  <2> QED BY <1>1, <2>1, <2>2, <2>3
<1> QED BY <1>1, <1>8, <1>9, <1>10

LEMMA InsertedSeq ==
  ASSUME NEW S, NEW lines \in Seq(S), NEW start \in DOMAIN lines, NEW e \in S
  PROVE  InsertAt(lines, start + 1, e) \in Seq(S)
<1>1. PICK n \in Nat : n = Len(lines) /\ DOMAIN lines = 1..n /\ start \in 1..n
  OBVIOUS
<1>2. <<e>> \in Seq(S)
  OBVIOUS
<1>3. SubSeq(lines, 1, start) \in Seq(S)
  BY <1>1, SubSeqProperties
<1>4. SubSeq(lines, start + 1, n) \in Seq(S)
  BY <1>1, SubSeqProperties
<1>5. SubSeq(lines, 1, start) \o <<e>> \in Seq(S)
  BY <1>2, <1>3, ConcatProperties
<1>6. SubSeq(lines, 1, start) \o <<e>> \o SubSeq(lines, start + 1, n) \in Seq(S)
  BY <1>4, <1>5, ConcatProperties
<1>7. (start + 1) - 1 = start
  BY <1>1
<1> QED BY <1>1, <1>6, <1>7 DEF InsertAt


LEMMA MinLeast ==
  ASSUME NEW M \in SUBSET Nat, M # {}
  PROVE  \A y \in M : Min(M) <= y
<1>1. PICK x \in M : \A y \in M : ~(<<y, x>> \in OpToRel(<, Nat))
  BY NatLessThanWellFounded, WFMin
<1>2. \A y \in M : x <= y
  <2>1. ASSUME NEW y \in M, y < x PROVE FALSE
    <3>1. <<y, x>> \in OpToRel(<, Nat)
      BY <2>1 DEF OpToRel
    <3> QED BY <1>1, <3>1
  <2> QED BY <2>1
<1> QED BY <1>1, <1>2 DEF Min

(* The line goes in under the first header, `start`; every other line      *)
(* keeps what it is and moves to its new place.                            *)
LEMMA InsertsApp ==
  ASSUME NEW S, NEW lines \in Seq(S), NEW app, NEW start \in Indices(lines, ByLink.own),
         \A i \in Indices(lines, ByLink.own) : start <= i,
         Section(lines, start, ByLink) \intersect Indices(lines, ByLink.apps) = {},
         NEW kind \in {"app", "appText"}, start \in Indices(lines, {"own"}) => kind = "app",
         NEW e, e = Entry(kind, app),
         NEW new, new = InsertAt(lines, start + 1, e)
  PROVE  /\ SameOthers(new, lines)
         /\ Parsed(lines) /\ Recognised(lines) => AppName(new) = app
         /\ Indices(new, ByLink.apps) # {}
<1>1. PICK n \in Nat : n = Len(lines) /\ DOMAIN lines = 1..n /\ start \in 1..n
  BY DEF Indices
<1>2. /\ DOMAIN new = 1..(n + 1)
      /\ \A k \in 1..(n + 1) : new[k] = IF k <= start THEN lines[k]
                               ELSE IF k = start + 1 THEN e ELSE lines[k - 1]
  <2>2. PICK R : lines \in Seq(R) /\ e \in R
    <3>1. lines \in Seq(S \union {e}) /\ e \in S \union {e}
      OBVIOUS
    <3> QED BY <3>1
  <2>3. start \in DOMAIN lines
    BY <1>1
  <2>5. /\ DOMAIN new = 1..(Len(lines) + 1)
        /\ \A k \in 1..(Len(lines) + 1) :
              new[k] = IF k <= start THEN lines[k] ELSE IF k = start + 1 THEN e ELSE lines[k - 1]
    BY <2>2, <2>3, InsertedAt
  <2> QED BY <1>1, <2>5
<1>3. PICK sh : sh = [i \in 1..n |-> IF i <= start THEN i ELSE i + 1]
  OBVIOUS
<1>4. \A i \in 1..n : /\ sh[i] \in 1..(n + 1) /\ sh[i] # start + 1
                      /\ \A j \in 1..n : i < j <=> sh[i] < sh[j]
  BY <1>1, <1>3
<1>5. \A i, j \in 1..n : sh[i] = sh[j] => i = j
  BY <1>1, <1>3
<1>6. \A k \in 1..(n + 1) : k = start + 1 \/ \E i \in 1..n : k = sh[i]
  <2> TAKE k \in 1..(n + 1)
  <2>1. CASE k <= start
    BY <1>1, <1>3, <2>1
  <2>2. CASE k > start + 1
    <3>1. k - 1 \in 1..n /\ sh[k - 1] = k
      BY <1>1, <1>3, <2>2
    <3> QED BY <3>1
  <2>3. k <= start \/ k = start + 1 \/ k > start + 1
    BY <1>1
  <2> QED BY <2>1, <2>2, <2>3
<1>7. \A i \in 1..n : new[sh[i]] = lines[i]
  <2> TAKE i \in 1..n
  <2>1. CASE i <= start
    <3>1. sh[i] = i /\ i \in 1..(n + 1) /\ i <= start
      BY <1>1, <1>3, <2>1
    <3> QED BY <1>2, <3>1
  <2>2. CASE ~(i <= start)
    <3>1. sh[i] = i + 1 /\ i + 1 \in 1..(n + 1) /\ ~(i + 1 <= start) /\ i + 1 # start + 1
          /\ (i + 1) - 1 = i
      BY <1>1, <1>3, <2>2
    <3> QED BY <1>2, <3>1
  <2> QED BY <2>1, <2>2
<1>8. /\ new[start + 1] = e /\ start + 1 \in 1..(n + 1)
      /\ new[start + 1][1] = kind /\ new[start + 1][2] = app
  <2>1. start + 1 \in 1..(n + 1) /\ ~(start + 1 <= start)
    BY <1>1
  <2>2. e[1] = kind /\ e[2] = app
    BY DEF Entry
  <2> QED BY <1>2, <2>1, <2>2
<1>9. sh[start] = start
  BY <1>1, <1>3

<1>10. /\ \A K : \A i \in 1..n : sh[i] \in Indices(new, K) <=> i \in Indices(lines, K)
       /\ \A K : start + 1 \in Indices(new, K) <=> kind \in K
       /\ \A K : Indices(new, K) \subseteq 1..(n + 1) /\ Indices(lines, K) \subseteq 1..n
  BY <1>1, <1>2, <1>4, <1>7, <1>8 DEF Indices
<1>11. \A l, i, k, by : k \in Section(l, i, by) <=>
          /\ k \in DOMAIN l /\ k > i
          /\ \A j \in Indices(l, by.headers) : j > i => k < j
  BY DEF Section
<1>12. ASSUME NEW by \in {ByLink, ByToml}, NEW i \in 1..n, NEW k \in 1..n
       PROVE  sh[k] \in Section(new, sh[i], by) <=> k \in Section(lines, i, by)
  <2>0. kind \notin by.headers
    BY ByIs
  <2>1. ASSUME sh[k] \in Section(new, sh[i], by) PROVE k \in Section(lines, i, by)
    <3>1. sh[k] > sh[i] /\ \A j \in Indices(new, by.headers) : j > sh[i] => sh[k] < j
      BY <1>11, <2>1
    <3>2. k > i
      BY <1>4, <3>1
    <3>3. ASSUME NEW j \in Indices(lines, by.headers), j > i PROVE k < j
      <4>1. j \in 1..n /\ sh[j] \in Indices(new, by.headers)
        BY <1>10
      <4>2. sh[j] > sh[i]
        BY <1>4, <3>3, <4>1
      <4> QED BY <1>4, <3>1, <4>1, <4>2
    <3> QED BY <1>1, <1>11, <3>2, <3>3
  <2>2. ASSUME k \in Section(lines, i, by) PROVE sh[k] \in Section(new, sh[i], by)
    <3>1. k > i /\ \A j \in Indices(lines, by.headers) : j > i => k < j
      BY <1>11, <2>2
    <3>2. sh[k] > sh[i] /\ sh[k] \in DOMAIN new
      BY <1>2, <1>4, <3>1
    <3>3. ASSUME NEW j \in Indices(new, by.headers), j > sh[i] PROVE sh[k] < j
      <4>1. j \in 1..(n + 1) /\ j # start + 1
        BY <1>10, <2>0
      <4>2. PICK m \in 1..n : j = sh[m]
        BY <1>6, <4>1
      <4>3. m \in Indices(lines, by.headers) /\ m > i
        BY <1>4, <1>10, <3>3, <4>2
      <4> QED BY <1>4, <3>1, <4>2, <4>3
    <3> QED BY <1>11, <3>2, <3>3
  <2> QED BY <2>1, <2>2
<1>14. ASSUME NEW by \in {ByLink, ByToml}
       PROVE  start + 1 \in Section(new, start, by)
  <2>1. ASSUME NEW j \in Indices(new, by.headers), j > start PROVE start + 1 < j
    <3>1. j \in 1..(n + 1) /\ j # start + 1
      BY <1>10, ByIs
    <3> QED BY <1>1, <2>1, <3>1
  <2>2. start + 1 > start
    BY <1>1
  <2> QED BY <1>2, <1>8, <1>11, <2>1, <2>2
<1>16. ASSUME NEW by \in {ByLink, ByToml}, start \in Indices(lines, by.own), kind \in by.apps
       PROVE  start + 1 \in AppsIn(new, by)
  <2>1. start \in Indices(new, by.own)
    BY <1>1, <1>9, <1>10, <1>16
  <2>2. start + 1 \in Indices(new, by.apps)
    BY <1>10, <1>16
  <2> QED BY <1>14, <2>1, <2>2, AppsInIs
<1>17. ASSUME NEW by \in {ByLink, ByToml}, NEW k \in 1..n
       PROVE  sh[k] \in AppsIn(new, by) <=> k \in AppsIn(lines, by)
  <2>1. ASSUME k \in AppsIn(lines, by) PROVE sh[k] \in AppsIn(new, by)
    <3>1. PICK i \in Indices(lines, by.own) : k \in Section(lines, i, by)
      BY <2>1, AppsInIs
    <3>2. i \in 1..n /\ sh[i] \in Indices(new, by.own)
      BY <1>10
    <3>3. sh[k] \in Section(new, sh[i], by)
      BY <1>12, <3>1, <3>2
    <3>4. sh[k] \in Indices(new, by.apps)
      BY <1>10, <2>1, AppsInIs
    <3> QED BY <3>2, <3>3, <3>4, AppsInIs
  <2>2. ASSUME sh[k] \in AppsIn(new, by) PROVE k \in AppsIn(lines, by)
    <3>1. PICK j \in Indices(new, by.own) : sh[k] \in Section(new, j, by)
      BY <2>2, AppsInIs
    <3>2. j \in 1..(n + 1) /\ j # start + 1
      BY <1>10, ByIs
    <3>3. PICK i \in 1..n : j = sh[i]
      BY <1>6, <3>2
    <3>4. i \in Indices(lines, by.own) /\ k \in Section(lines, i, by)
      BY <1>10, <1>12, <3>1, <3>3
    <3>5. k \in Indices(lines, by.apps)
      BY <1>10, <2>2, AppsInIs
    <3> QED BY <3>4, <3>5, AppsInIs
  <2> QED BY <2>1, <2>2
<1>18. /\ \A k \in 1..n : sh[k] \in Others(new) <=> k \in Others(lines)
       /\ start + 1 \notin Others(new)
       /\ Others(new) \subseteq 1..(n + 1) /\ Others(lines) \subseteq 1..n
  <2>1. start + 1 \in AppsIn(new, ByLink)
    <3>1. start \in Indices(lines, ByLink.own) /\ kind \in ByLink.apps
      BY LinkReadsAs
    <3> QED BY <1>16, <3>1
  <2>2. \A k \in 1..n : sh[k] \in AppsIn(new, ByLink) <=> k \in AppsIn(lines, ByLink)
    BY <1>17
  <2> QED BY <1>1, <1>2, <1>4, <1>10, <2>1, <2>2 DEF Others
<1>19. SameOthers(new, lines)
  <2> DEFINE place == [i \in Others(lines) |-> sh[i]]
  <2>1. \A i \in Others(lines) : place[i] = sh[i] /\ i \in 1..n
    BY <1>18
  <2>2. place \in [Others(lines) -> Others(new)]
    BY <1>18
  <2>3. \A i, j \in Others(lines) : place[i] = place[j] => i = j
    BY <1>5, <2>1
  <2>4. \A k \in Others(new) : \E i \in Others(lines) : place[i] = k
    BY <1>6, <1>18, <2>1
  <2>5. \A i, j \in Others(lines) : new[place[i]] = lines[i] /\ (i < j => place[i] < place[j])
    BY <1>4, <1>7, <2>1
  <2> HIDE DEF place
  <2>6. place \in Bijection(Others(lines), Others(new))
    BY <2>2, <2>3, <2>4 DEF Bijection, Injection, Surjection, IsInjective
  <2> QED BY <2>5, <2>6 DEF SameOthers
<1>20. ASSUME Parsed(lines), Recognised(lines) PROVE AppName(new) = app
  <2>1. Indices(lines, ByToml.own) = {start}
    BY <1>20, RecognisedHas DEF Parsed
  <2>2. AppsIn(lines, ByToml) = {}
    <3>1. ASSUME NEW k \in AppsIn(lines, ByLink) PROVE FALSE
      <4>1. k \in Indices(lines, ByLink.apps) /\ k \in Section(lines, start, ByLink)
        BY <1>20, <2>1, RecognisedHas, AppsInIs
      <4> QED BY <4>1
    <3> QED BY <1>20, <3>1, RecognisedHas
  <2>3. kind = "app"
    <3>1. lines[start][1] \in ByLink.own /\ lines[start][1] \in ByToml.own
      BY <2>1 DEF Indices
    <3>2. start \in Indices(lines, {"own"})
      BY <1>1, <3>1, LinkReadsAs DEF Indices
    <3> QED BY <3>2
  <2>4. Indices(new, ByToml.own) = {start}
    <3>1. ASSUME NEW j \in Indices(new, ByToml.own) PROVE j = start
      <4>1. j \in 1..(n + 1) /\ j # start + 1
        BY <1>10, ByIs
      <4>2. PICK i \in 1..n : j = sh[i]
        BY <1>6, <4>1
      <4>3. i = start
        BY <1>10, <2>1, <4>2
      <4> QED BY <1>9, <4>2, <4>3
    <3>2. start \in Indices(new, ByToml.own)
      BY <1>1, <1>9, <1>10, <2>1
    <3> QED BY <3>1, <3>2
  <2>5. AppsIn(new, ByToml) = {start + 1}
    <3>1. ASSUME NEW k \in AppsIn(new, ByToml) PROVE k = start + 1
      <4>1. k \in 1..(n + 1)
        BY <1>10, AppsInIs
      <4> QED BY <1>6, <1>17, <2>2, <4>1
    <3>2. start + 1 \in AppsIn(new, ByToml)
      <4>1. start \in Indices(lines, ByToml.own) /\ kind \in ByToml.apps
        BY <2>1, <2>3, LinkReadsAs
      <4> QED BY <1>16, <4>1
    <3> QED BY <3>1, <3>2
  <2>6. ASSUME NEW z \in {"garbage", "dotted"}
        PROVE  Indices(new, {z}) = {}
    <3>1. Indices(lines, {z}) = {}
      BY <1>20, RecognisedHas DEF Parsed
    <3>2. ASSUME NEW k \in Indices(new, {z}) PROVE FALSE
      <4>1. k \in 1..(n + 1) /\ k # start + 1
        BY <1>10, <2>3
      <4>2. PICK i \in 1..n : k = sh[i]
        BY <1>6, <4>1
      <4>3. i \in Indices(lines, {z})
        BY <1>10, <4>2
      <4> QED BY <3>1, <4>3
    <3> QED BY <3>2
  <2>7. Apps(new) = {start + 1}
    BY <2>5, <2>6 DEF Apps
  <2>8. Parsed(new)
    BY <2>4, <2>6, <2>7 DEF Parsed
  <2>9. Min({start + 1}) = start + 1
    <3>1. {start + 1} \in SUBSET Nat
      BY <1>1
    <3> QED BY <3>1, MinIs
  <2> QED BY <1>8, <2>7, <2>8, <2>9 DEF AppName
<1>21. start + 1 \in Indices(new, ByLink.apps)
  BY <1>10, LinkReadsAs
<1> QED BY <1>19, <1>20, <1>21

(* The three cases of _apply.                                              *)
LEMMA ApplyKeeps ==
  ASSUME NEW S, NEW lines \in Seq(S), NEW app, NEW new, new = Apply(lines, app)
  PROVE  /\ SameOthers(new, lines)
         /\ Parsed(lines) /\ Recognised(lines) => AppName(new) = app
         /\ Indices(new, ByLink.apps) # {}
<1> DEFINE own   == Indices(lines, ByLink.own)
           start == Min(own)
           apps  == Section(lines, start, ByLink) \intersect Indices(lines, ByLink.apps)
<1>1. DOMAIN lines \in SUBSET Nat
  <2>1. DOMAIN lines = 1..Len(lines)
    OBVIOUS
  <2> QED BY <2>1
<1>2. own \in SUBSET Nat /\ apps \in SUBSET Nat
  BY <1>1 DEF Indices
<1>3. CASE own = {}
  <2>1. new = lines \o <<Line("own"), AppLine(app)>>
    BY <1>3 DEF Apply
  <2> QED BY <1>3, <2>1, AddsSection
<1>4. CASE own # {} /\ apps # {}
  <2>1. start \in own /\ Min(apps) \in apps
    BY <1>2, <1>4, MinIs
  <2>2. new = ReplaceAt(lines, Min(apps), Entry(lines[Min(apps)][1], app))
    BY <1>4 DEF Apply
  <2> QED BY <2>1, <2>2, ReplacesApp
<1>5. CASE own # {} /\ apps = {}
  <2>1. start \in own /\ \A i \in own : start <= i
    BY <1>2, <1>5, MinIs, MinLeast
  <2>2. PICK kind : kind = IF lines[start][1] = "own" THEN "app" ELSE "appText"
    OBVIOUS
  <2>3. PICK e : e = Entry(kind, app)
    OBVIOUS
  <2>4. new = InsertAt(lines, start + 1, e)
    BY <1>5, <2>2, <2>3 DEF Apply
  <2> HIDE DEF start, own, apps
  <2>5. /\ kind \in {"app", "appText"}
        /\ start \in Indices(lines, {"own"}) => kind = "app"
    BY <2>2 DEF Indices
  <2>6. /\ start \in Indices(lines, ByLink.own)
        /\ \A i \in Indices(lines, ByLink.own) : start <= i
        /\ Section(lines, start, ByLink) \intersect Indices(lines, ByLink.apps) = {}
    BY <1>5, <2>1 DEF own, apps
  <2> QED BY <2>3, <2>4, <2>5, <2>6, InsertsApp
<1> QED BY <1>3, <1>4, <1>5


LEMMA ApplyType ==
  ASSUME NEW S, NEW lines \in Seq(S), NEW app, Line("own") \in S, AppLine(app) \in S,
         Entry("appText", app) \in S,
         \A i \in DOMAIN lines : Entry(lines[i][1], app) \in S
  PROVE  Apply(lines, app) \in Seq(S)
<1> DEFINE own   == Indices(lines, ByLink.own)
           start == Min(own)
           apps  == Section(lines, start, ByLink) \intersect Indices(lines, ByLink.apps)
<1>1. DOMAIN lines = 1..Len(lines) /\ 1..Len(lines) \subseteq Nat
  OBVIOUS
<1>2. own \in SUBSET Nat /\ apps \in SUBSET Nat
  BY <1>1 DEF Indices
<1>3. ASSUME own = {} PROVE Apply(lines, app) \in Seq(S)
  <2>1. <<Line("own"), AppLine(app)>> \in Seq(S)
    <3>1. ASSUME NEW a \in S, NEW b \in S PROVE <<a, b>> \in Seq(S)
      OBVIOUS
    <3> QED BY <3>1
  <2>3. Apply(lines, app) = lines \o <<Line("own"), AppLine(app)>>
    BY <1>3 DEF Apply
  <2> QED BY <2>1, <2>3, ConcatProperties
<1>4. ASSUME own # {}, apps # {} PROVE Apply(lines, app) \in Seq(S)
  <2>1. Min(apps) \in apps
    BY <1>2, <1>4, MinIs
  <2>2. Min(apps) \in 1..Len(lines)
    BY <1>1, <2>1 DEF Indices
  <2>3. PICK e : e = Entry(lines[Min(apps)][1], app)
    OBVIOUS
  <2>4. Apply(lines, app) = [lines EXCEPT ![Min(apps)] = e]
    BY <1>4, <2>3 DEF Apply, ReplaceAt
  <2>5. e \in S
    <3>1. Min(apps) \in DOMAIN lines
      BY <1>1, <2>2
    <3> QED BY <2>3, <3>1, Zenon
  <2> HIDE DEF apps
  <2> QED BY <2>2, <2>4, <2>5, ExceptSeq
<1>5. ASSUME own # {}, apps = {} PROVE Apply(lines, app) \in Seq(S)
  <2>1. start \in own
    BY <1>2, <1>5, MinIs
  <2>2. start \in DOMAIN lines
    BY <2>1 DEF Indices
  <2>3. PICK e : e = Entry(IF lines[start][1] = "own" THEN "app" ELSE "appText", app)
    OBVIOUS
  <2>4. Apply(lines, app) = InsertAt(lines, start + 1, e)
    BY <1>5, <2>3 DEF Apply
  <2>5. e \in S
    BY <2>3 DEF AppLine
  <2> HIDE DEF start
  <2> QED BY <2>2, <2>4, <2>5, InsertedSeq
<1> QED BY <1>3, <1>4, <1>5


-----------------------------------------------------------------------------
(* Who writes pyproject.toml.  A link finds its own file as long as nobody *)
(* else writes it: no other link does, and an init only where there is no  *)
(* file.                                                                   *)
TextLine == (Kinds \union {"no file", "garbage"}) \X ({""} \union STRING \union Procs)
Found    == IF before = NoFile THEN <<>> ELSE before

FileType ==
  /\ DOMAIN at = Procs /\ DOMAIN pushed = Procs /\ cmd \in Sessions
  /\ setbacks \in Nat
  /\ before \in Seq(TextLine) /\ pyproject \in Seq(TextLine)
  /\ text \in [Procs -> Seq(TextLine)]

(* A process is at a place of its command, or over.                        *)
AtOwn == \A p \in Procs : at[p][1] \in OtherPlaces => at[p][1] = cmd[p]

(* A file that was there stays one, and init leaves it.                    *)
FileStays == before # NoFile => pyproject # NoFile
InitWaits ==
  before # NoFile => \A p \in Procs :
     at[p][1] = "init" => At(p, "init", "start")

(* With no link, nothing happens to it.                                    *)
NoLinkKeeps ==
  before # NoFile /\ (\A p \in Procs : cmd[p] # "link") => pyproject = before

Lone(p) ==
  /\ cmd[p] = "link"
  /\ \A q \in Procs \ {p} : cmd[q] \in {"link", "init"} => cmd[q] = "init" /\ before # NoFile

Linked(p) ==
  \/ At(p, "link", "start") /\ pyproject = before
  \/ At(p, "link", "open") /\ pyproject = before /\ text[p] = Found
  \/ At(p, "link", "write") /\ pyproject = <<>> /\ text[p] = Found
  \/ At(p, "over", "ok") /\ pyproject = Apply(Found, p)
  \/ At(p, "over", "killed") /\ setbacks > 0

LoneLinks == \A p \in Procs : Lone(p) => Linked(p)

FileInv == FileType /\ AtOwn /\ FileStays /\ InitWaits /\ NoLinkKeeps /\ LoneLinks


(* What the steps of the other commands leave alone.                       *)
LEMMA StaysOwn ==
  ASSUME NEW p, PdStep(p)
  PROVE  \E w \in OtherPlaces : Moves(p, {w}, {w, "over"})
<1>1. ASSUME NEW w \in OtherPlaces, \E s : At(p, w, s),
             \E x \in {w, "over"} : \E s : Goto(p, x, s)
      PROVE  \E y \in OtherPlaces : Moves(p, {y}, {y, "over"})
  <2>1. at[p][1] \in {w}
    BY <1>1 DEF At
  <2>2. Moves(p, {w}, {w, "over"})
    BY <1>1, <2>1, GotoMoves
  <2> QED BY <2>2
<1>2. {"login", "logout", "deploy", "link", "init"} = OtherPlaces
  BY DEF OtherPlaces
<1>3. CASE LoginStep(p)
  <2>1. \E s : At(p, "login", s)
    BY <1>3 DEF LoginStep, RequestCode, SleepOrStop, PollPending, PollGranted, PollFails,
                OpenCreds, WriteCreds, Chmod
  <2>2. \E x \in {"login", "over"} : \E s : Goto(p, x, s)
    BY <1>3 DEF LoginStep, RequestCode, SleepOrStop, PollPending, PollGranted, PollFails,
                OpenCreds, WriteCreds, Chmod, Exit
  <2> QED BY <1>1, <1>2, <2>1, <2>2
<1>4. CASE LogoutStep(p)
  <2>1. \E s : At(p, "logout", s)
    BY <1>4 DEF LogoutStep
  <2>2. \E x \in {"logout", "over"} : \E s : Goto(p, x, s)
    BY <1>4 DEF LogoutStep, Exit
  <2> QED BY <1>1, <1>2, <2>1, <2>2
<1>5. CASE LinkStep(p)
  <2>1. \E s : At(p, "link", s)
    BY <1>5 DEF LinkStep, LinkReads, LinkOpens, LinkWrites
  <2>2. \E x \in {"link", "over"} : \E s : Goto(p, x, s)
    BY <1>5 DEF LinkStep, LinkReads, LinkOpens, LinkWrites, Exit
  <2> QED BY <1>1, <1>2, <2>1, <2>2
<1>6. CASE InitStep(p)
  <2>1. \E s : At(p, "init", s)
    BY <1>6 DEF InitStep, InitGuards, InitWritesApp, InitOpens, InitWrites
  <2>2. \E x \in {"init", "over"} : \E s : Goto(p, x, s)
    BY <1>6 DEF InitStep, InitGuards, InitWritesApp, InitOpens, InitWrites, Exit
  <2> QED BY <1>1, <1>2, <2>1, <2>2
<1>7. CASE DeployStep(p)
  <2>1. \E s : At(p, "deploy", s)
    BY <1>7 DEF DeployStep, LoadCreds, GitBase, ReadApp
  <2>2. \E x \in {"deploy", "over"} : \E s : Goto(p, x, s)
    BY <1>7 DEF DeployStep, LoadCreds, GitBase, ReadApp, Exit
  <2> QED BY <1>1, <1>2, <2>1, <2>2
<1> QED BY <1>3, <1>4, <1>5, <1>6, <1>7 DEF PdStep

LEMMA SetbacksGrow ==
  ASSUME [Next]_vars, setbacks \in Nat
  PROVE  setbacks' \in Nat /\ setbacks' >= setbacks
<1>1. CASE UNCHANGED setbacks \/ Setback
  BY <1>1 DEF Setback
<1>2. ASSUME NEW p \in Procs, RunStep(p)
      PROVE  UNCHANGED setbacks \/ Setback
  BY <1>2 DEF RunStep, EnsurePostgres, EnsureMinio, CheckDocker, DaemonUp, Inspect,
              RunContainer, StartContainer, GiveUp, ProvisionLocal, WaitReady,
              LookForDatabase, CreateDatabase, ProvisionBuckets, WaitMinio, CreateBucket, Serve
<1>3. ASSUME NEW p \in Procs, Command(p)
      PROVE  UNCHANGED setbacks \/ Setback
  BY <1>2, <1>3 DEF Command
<1>4. ASSUME NEW p \in Procs, Retry(p) \/ Kill(p)
      PROVE  UNCHANGED setbacks \/ Setback
  BY <1>4 DEF Retry, RunAgain, Kill
<1>5. ASSUME Environment \/ UNCHANGED vars
      PROVE  UNCHANGED setbacks \/ Setback
  BY <1>5 DEF Environment, Machine, DaemonStarts, Stops, ContainerReady, Second,
              UserAnswers, vars, shVars
<1> QED BY <1>1, <1>3, <1>4, <1>5 DEF Next

LEMMA OthersKeep ==
  ASSUME [Next]_vars, ~\E p \in Procs : LinkStep(p) \/ InitStep(p)
  PROVE  UNCHANGED <<before, pyproject, text>>
<1>1. ASSUME NEW p \in Procs, PdStep(p)
      PROVE  UNCHANGED <<before, pyproject, text>>
  <2>1. CASE \/ (LoginStep(p) \/ LogoutStep(p)) /\ UNCHANGED prVars
             \/ DeployStep(p)
    BY <2>1 DEF DeployStep, ReadApp, prVars
  <2> QED BY <1>1, <2>1 DEF PdStep
<1>2. CASE \E p \in Procs : Command(p) \/ Retry(p)
  BY <1>1, <1>2 DEF Command, Retry, pdVars, prVars
<1>3. CASE \E p \in Procs : Kill(p) /\ UNCHANGED <<diVars, pdVars>>
  BY <1>3 DEF pdVars, prVars
<1>4. CASE Environment \/ UNCHANGED vars
  BY <1>4 DEF Environment, pdVars, prVars, vars
<1> QED BY <1>2, <1>3, <1>4 DEF Next


LEMMA SeqWider ==
  ASSUME NEW A, NEW B, A \subseteq B, NEW s \in Seq(A)
  PROVE  s \in Seq(B)
OBVIOUS

(* The texts the commands write.                                           *)
LEMMA TextsAre ==
  /\ NoFile \in Seq(TextLine) /\ Garbage \in Seq(TextLine) /\ <<>> \in Seq(TextLine)
  /\ \A p \in Procs : Template(p) \in Seq(TextLine)
  /\ \A p \in Procs, lines \in Seq(TextLine) : Apply(lines, p) \in Seq(TextLine)
<1>1. ASSUME NEW k \in {"own", "table", "key", "no file", "garbage"}
      PROVE  Line(k) \in TextLine
  <2>1. "" \in {""} \union STRING \union Procs
    OBVIOUS
  <2>2. ASSUME NEW K, NEW N, k \in K, "" \in N PROVE <<k, "">> \in K \X N
    BY <2>2
  <2> QED BY <2>1, <2>2 DEF Line, TextLine, Kinds
<1>2. ASSUME NEW p \in Procs PROVE AppLine(p) \in TextLine
  BY DEF AppLine, Entry, TextLine, Kinds
<1>3. ASSUME NEW a \in TextLine, NEW b \in TextLine, NEW c \in TextLine, NEW d \in TextLine
      PROVE  /\ <<>> \in Seq(TextLine) /\ <<a>> \in Seq(TextLine)
             /\ <<a, b, c, d, b>> \in Seq(TextLine)
  <2> HIDE DEF TextLine
  <2> QED OBVIOUS
<1>4. NoFile \in Seq(TextLine) /\ Garbage \in Seq(TextLine) /\ <<>> \in Seq(TextLine)
  BY <1>1, <1>3 DEF NoFile, Garbage
<1>5. ASSUME NEW p \in Procs PROVE Template(p) \in Seq(TextLine)
  BY <1>1, <1>2, <1>3 DEF Template
<1>6. ASSUME NEW p \in Procs, NEW lines \in Seq(TextLine)
      PROVE  Apply(lines, p) \in Seq(TextLine)
  <2> DEFINE K == Kinds \union {"no file", "garbage"}
             N == {""} \union STRING \union Procs
  <2>1. {"appText"} \subseteq K /\ p \in N
    BY DEF Kinds
  <2>2. TextLine = K \X N
    BY DEF TextLine
  <2> HIDE DEF K, N
  <2>3. Entry("appText", p) \in TextLine
    BY <2>1, <2>2 DEF Entry
  <2>5. ASSUME NEW i \in DOMAIN lines PROVE Entry(lines[i][1], p) \in TextLine
    <3>1. lines[i] \in K \X N
      BY <2>2
    <3> QED BY <2>1, <2>2, <3>1 DEF Entry
  <2>4. Line("own") \in TextLine /\ AppLine(p) \in TextLine
    BY <1>1, <1>2
  <2> QED BY <2>3, <2>4, <2>5, ApplyType
<1> QED BY <1>4, <1>5, <1>6

(* None of them is what stands for no file.                                *)
LEMMA AreFiles ==
  /\ <<>> # NoFile /\ Garbage # NoFile
  /\ \A p \in Procs : Template(p) # NoFile
  /\ \A p \in Procs, lines \in Seq(TextLine) : Apply(lines, p) # NoFile
<1>1. /\ Len(NoFile) = 1 /\ Len(Garbage) = 1 /\ DOMAIN NoFile = {1}
      /\ NoFile[1][1] = "no file" /\ Garbage[1][1] = "garbage"
  BY DEF NoFile, Garbage, Line
<1>2. ASSUME NEW p \in Procs PROVE Len(Template(p)) = 5
  BY DEF Template
<1>3. Len(<<>>) = 0
  OBVIOUS
<1>4. ASSUME NEW p \in Procs, NEW lines \in Seq(TextLine), Apply(lines, p) = NoFile
      PROVE  FALSE
  <2>1. Indices(NoFile, ByLink.apps) # {}
    BY <1>4, ApplyKeeps
  <2> QED BY <1>1, <2>1, LinkReadsAs DEF Indices
<1>5. Len(NoFile) = 1 /\ NoFile # Garbage
  BY <1>1
<1>6. <<>> # NoFile
  BY <1>3, <1>5
<1>7. ASSUME NEW p \in Procs PROVE Template(p) # NoFile
  BY <1>2, <1>5
<1> QED BY <1>4, <1>5, <1>6, <1>7

LEMMA InitFile == Init => FileInv
<1> SUFFICES ASSUME Init PROVE FileInv
  OBVIOUS
<1>1. /\ cmd \in Sessions /\ at = [p \in Procs |-> <<cmd[p], "start">>] /\ setbacks = 0
      /\ before \in PyProjects /\ pyproject = before
      /\ text = [p \in Procs |-> <<>>] /\ pushed = [p \in Procs |-> NoPush]
  BY DEF Init, ShInit, PrInit
<1>2. before \in Seq(TextLine)
  <2> DEFINE Found1 == Kinds \X STRING
  <2>1. Found1 \subseteq TextLine
    BY DEF TextLine
  <2>2. before \in Seq(Found1) \/ before = NoFile
    BY <1>1, ProjectAssumption
  <2> HIDE DEF Found1
  <2> QED BY <2>1, <2>2, SeqWider, TextsAre
<1>3. text \in [Procs -> Seq(TextLine)]
  BY <1>1, TextsAre
<1>4. FileType
  BY <1>1, <1>2, <1>3 DEF FileType
<1>5. AtOwn /\ InitWaits
  BY <1>1 DEF AtOwn, InitWaits, At
<1>6. FileStays /\ NoLinkKeeps
  BY <1>1 DEF FileStays, NoLinkKeeps
<1>7. LoneLinks
  BY <1>1 DEF LoneLinks, Lone, Linked, At
<1> QED BY <1>4, <1>5, <1>6, <1>7 DEF FileInv

LEMMA FileTypeKept ==
  ASSUME FileType, [Next]_vars
  PROVE  FileType'
<1>1. DOMAIN at' = Procs /\ cmd' = cmd
  BY StepKeeps DEF FileType
<1>2. setbacks' \in Nat
  BY SetbacksGrow DEF FileType
<1>3. DOMAIN pushed' = Procs
  <2>1. ASSUME NEW p \in Procs, PdStep(p)
        PROVE  UNCHANGED pushed \/ ReadApp(p)
    BY <2>1 DEF PdStep, LinkStep, LinkReads, LinkOpens, LinkWrites, InitStep, InitGuards,
                InitWritesApp, InitOpens, InitWrites, DeployStep, prVars, pdVars
  <2>2. ASSUME NEW p \in Procs, Command(p) \/ Retry(p)
        PROVE  UNCHANGED pushed \/ ReadApp(p)
    BY <2>1, <2>2 DEF Command, Retry, pdVars, prVars
  <2>3. ASSUME NEW p \in Procs, ReadApp(p)
        PROVE  DOMAIN pushed' = DOMAIN pushed
    BY <2>3 DEF ReadApp
  <2>4. CASE (\E p \in Procs : Kill(p) /\ UNCHANGED <<diVars, pdVars>>)
             \/ Environment \/ UNCHANGED vars
    BY <2>4 DEF Environment, vars, pdVars, prVars, FileType
  <2> QED BY <2>2, <2>3, <2>4 DEF Next, FileType
<1>4. /\ before' \in Seq(TextLine) /\ pyproject' \in Seq(TextLine)
      /\ text' \in [Procs -> Seq(TextLine)]
  <2>0. /\ before \in Seq(TextLine) /\ pyproject \in Seq(TextLine)
        /\ text \in [Procs -> Seq(TextLine)]
    BY DEF FileType
  <2>1. ASSUME NEW p \in Procs, LinkReads(p)
        PROVE  /\ before' \in Seq(TextLine) /\ pyproject' \in Seq(TextLine)
               /\ text' \in [Procs -> Seq(TextLine)]
    BY <2>0, <2>1, TextsAre DEF LinkReads
  <2>2. ASSUME NEW p \in Procs, LinkOpens(p) \/ InitOpens(p)
        PROVE  UNCHANGED <<before, text>> /\ pyproject' = <<>>
    BY <2>2 DEF LinkOpens, InitOpens, OpenPyproject
  <2>3. ASSUME NEW p \in Procs, LinkWrites(p)
        PROVE  UNCHANGED <<before, text>> /\ pyproject' \in {Apply(text[p], p), Garbage}
    BY <2>3 DEF LinkWrites, WritePyproject
  <2>4. ASSUME NEW p \in Procs, InitWrites(p)
        PROVE  UNCHANGED <<before, text>> /\ pyproject' \in {Template(p), Garbage}
    BY <2>4 DEF InitWrites, WritePyproject
  <2>5. ASSUME NEW p \in Procs, InitGuards(p) \/ InitWritesApp(p)
        PROVE  UNCHANGED <<before, text, pyproject>>
    BY <2>5 DEF InitGuards, InitWritesApp, pdVars, prVars
  <2>6. CASE \E p \in Procs : LinkStep(p) \/ InitStep(p)
    BY <2>0, <2>1, <2>2, <2>3, <2>4, <2>5, <2>6, TextsAre DEF LinkStep, InitStep
  <2>7. CASE ~\E p \in Procs : LinkStep(p) \/ InitStep(p)
    BY <2>0, <2>7, OthersKeep
  <2> QED BY <2>6, <2>7
<1> QED BY <1>1, <1>2, <1>3, <1>4 DEF FileType


(* A step of a link: nobody else is at the file, if it is alone.           *)
LEMMA LinkFile ==
  ASSUME FileInv, [Next]_vars, NEW p \in Procs, LinkStep(p)
  PROVE  AtOwn' /\ FileStays' /\ InitWaits' /\ NoLinkKeeps' /\ LoneLinks'
<1>1. /\ cmd' = cmd /\ before' = before /\ cmd[p] = "link" /\ at[p][1] = "link"
      /\ setbacks' \in Nat /\ DOMAIN at = Procs
      /\ \E x \in {"link", "over"} : \E s : at' = [at EXCEPT ![p] = <<x, s>>]
  <2>1. at[p][1] = "link" /\ before' = before
    BY DEF LinkStep, LinkReads, LinkOpens, LinkWrites, At
  <2>2. \E x \in {"link", "over"} : \E s : Goto(p, x, s)
    BY DEF LinkStep, LinkReads, LinkOpens, LinkWrites, Exit
  <2>3. cmd' = cmd /\ \E x \in {"link", "over"} : \E s : at' = [at EXCEPT ![p] = <<x, s>>]
    BY <2>2 DEF Goto
  <2>4. cmd[p] = "link"
    BY <2>1 DEF FileInv, AtOwn, OtherPlaces
  <2> QED BY <2>1, <2>3, <2>4, SetbacksGrow DEF FileInv, FileType
<1>2. \A q \in Procs : q # p => at'[q] = at[q]
  BY <1>1
<1>3. AtOwn'
  <2>1. at'[p][1] \in {"link", "over"}
    BY <1>1
  <2>2. \A q \in Procs : at'[q][1] \in OtherPlaces => at'[q][1] = cmd[q]
    BY <1>1, <1>2, <2>1 DEF FileInv, AtOwn, OtherPlaces
  <2> QED BY <1>1, <2>2 DEF AtOwn
<1>4. FileStays'
  <2>1. LinkReads(p) => pyproject' = pyproject
    BY DEF LinkReads
  <2>2. LinkOpens(p) => pyproject' = <<>>
    BY DEF LinkOpens, OpenPyproject
  <2>3. LinkWrites(p) => pyproject' \in {Apply(text[p], p), Garbage}
    BY DEF LinkWrites, WritePyproject
  <2>4. text[p] \in Seq(TextLine)
    BY DEF FileInv, FileType
  <2> QED BY <1>1, <2>1, <2>2, <2>3, <2>4, AreFiles DEF LinkStep, FileInv, FileStays
<1>5. InitWaits'
  <2>1. at'[p][1] # "init"
    BY <1>1
  <2>2. ASSUME before # NoFile, NEW q \in Procs, at'[q][1] = "init"
        PROVE  at'[q] = <<"init", "start">>
    BY <1>2, <2>1, <2>2 DEF FileInv, InitWaits, At
  <2> QED BY <1>1, <2>2 DEF InitWaits, At
<1>6. NoLinkKeeps'
  BY <1>1 DEF NoLinkKeeps
<1>7. ASSUME NEW q \in Procs, Lone(q)' PROVE Linked(q)'
  <2>1. q = p
    BY <1>1, <1>7 DEF Lone
  <2>2. Lone(p) /\ Linked(p)
    BY <1>1, <1>7, <2>1 DEF FileInv, LoneLinks, Lone
  <2>3. CASE LinkReads(p)
    <3>1. At(p, "link", "start") /\ pyproject = before
      BY <2>2, <2>3 DEF LinkReads, Linked, At
    <3>2. /\ at' = [at EXCEPT ![p] = <<"link", "open">>] /\ pyproject' = pyproject
          /\ text' = [text EXCEPT ![p] = Found]
      BY <2>3, <3>1 DEF LinkReads, Goto, Found
    <3>3. text'[p] = Found
      BY <3>2 DEF FileInv, FileType
    <3>4. Found' = Found
      BY <1>1 DEF Found
    <3> QED BY <1>1, <2>1, <3>1, <3>2, <3>3, <3>4 DEF Linked, At
  <2>4. CASE LinkOpens(p)
    <3>1. At(p, "link", "open") /\ text[p] = Found
      BY <2>2, <2>4 DEF LinkOpens, Linked, At
    <3>2. /\ at' = [at EXCEPT ![p] = <<"link", "write">>] /\ pyproject' = <<>> /\ text' = text
      BY <2>4 DEF LinkOpens, OpenPyproject, Goto
    <3>3. Found' = Found
      BY <1>1 DEF Found
    <3> QED BY <1>1, <2>1, <3>1, <3>2, <3>3 DEF Linked, At
  <2>5. CASE LinkWrites(p)
    <3>1. At(p, "link", "write") /\ text[p] = Found /\ pyproject = <<>>
      BY <2>2, <2>5 DEF LinkWrites, Linked, At
    <3>2. /\ at' = [at EXCEPT ![p] = <<"over", "ok">>] /\ pyproject' = Apply(Found, p)
      BY <2>5, <3>1 DEF LinkWrites, WritePyproject, Goto, Exit
    <3>3. Found' = Found
      BY <1>1 DEF Found
    <3>4. (pyproject = Apply(Found, p))'
      BY <3>2, <3>3
    <3> QED BY <1>1, <2>1, <3>2, <3>4 DEF Linked, At
  <2> QED BY <2>3, <2>4, <2>5 DEF LinkStep
<1>8. LoneLinks'
  BY <1>7 DEF LoneLinks
<1> QED BY <1>3, <1>4, <1>5, <1>6, <1>8

(* A step of an init: where there is a file, it only finds it.             *)
LEMMA InitFinds ==
  ASSUME FileInv, [Next]_vars, NEW p \in Procs, InitStep(p)
  PROVE  AtOwn' /\ FileStays' /\ InitWaits' /\ NoLinkKeeps' /\ LoneLinks'
<1>1. /\ cmd' = cmd /\ before' = before /\ cmd[p] = "init" /\ at[p][1] = "init"
      /\ setbacks' \in Nat /\ setbacks' >= setbacks /\ DOMAIN at = Procs
      /\ \E x \in {"init", "over"} : \E s : at' = [at EXCEPT ![p] = <<x, s>>]
  <2>1. at[p][1] = "init" /\ before' = before
    BY DEF InitStep, InitGuards, InitWritesApp, InitOpens, InitWrites, pdVars, prVars, At
  <2>2. \E x \in {"init", "over"} : \E s : Goto(p, x, s)
    BY DEF InitStep, InitGuards, InitWritesApp, InitOpens, InitWrites, Exit
  <2>3. cmd' = cmd /\ \E x \in {"init", "over"} : \E s : at' = [at EXCEPT ![p] = <<x, s>>]
    BY <2>2 DEF Goto
  <2>4. cmd[p] = "init"
    BY <2>1 DEF FileInv, AtOwn, OtherPlaces
  <2> QED BY <2>1, <2>3, <2>4, SetbacksGrow DEF FileInv, FileType
<1>2. \A q \in Procs : q # p => at'[q] = at[q]
  BY <1>1
<1>3. AtOwn'
  <2>1. at'[p][1] \in {"init", "over"}
    BY <1>1
  <2>2. \A q \in Procs : at'[q][1] \in OtherPlaces => at'[q][1] = cmd[q]
    BY <1>1, <1>2, <2>1 DEF FileInv, AtOwn, OtherPlaces
  <2> QED BY <1>1, <2>2 DEF AtOwn
<1>4. ASSUME before # NoFile
      PROVE  /\ at' = [at EXCEPT ![p] = <<"over", "failed">>]
             /\ UNCHANGED <<pyproject, text>>
  <2>1. At(p, "init", "start") /\ pyproject # NoFile
    BY <1>1, <1>4 DEF FileInv, InitWaits, FileStays
  <2>2. InitGuards(p)
    BY <2>1 DEF InitStep, InitWritesApp, InitOpens, InitWrites, At
  <2> QED BY <2>1, <2>2 DEF InitGuards, Exit, Goto, pdVars, prVars
<1>5. FileStays'
  BY <1>1, <1>4 DEF FileInv, FileStays
<1>6. InitWaits'
  <2>1. ASSUME before # NoFile, NEW q \in Procs, at'[q][1] = "init"
        PROVE  at'[q] = <<"init", "start">>
    BY <1>1, <1>2, <1>4, <2>1 DEF FileInv, InitWaits, At
  <2> QED BY <1>1, <2>1 DEF InitWaits, At
<1>7. NoLinkKeeps'
  BY <1>1, <1>4 DEF FileInv, NoLinkKeeps
<1>8. ASSUME NEW q \in Procs, Lone(q)' PROVE Linked(q)'
  <2>1. q # p /\ before # NoFile
    BY <1>1, <1>8 DEF Lone
  <2>2. Linked(q)
    BY <1>1, <1>8 DEF FileInv, LoneLinks, Lone
  <2>3. at'[q] = at[q] /\ UNCHANGED <<before, pyproject, text>> /\ setbacks' >= setbacks
        /\ setbacks \in Nat
    BY <1>1, <1>2, <1>4, <2>1 DEF FileInv, FileType
  <2> QED BY <1>1, <2>2, <2>3 DEF Linked, At, Found
<1>9. LoneLinks'
  BY <1>8 DEF LoneLinks
<1> QED BY <1>3, <1>5, <1>6, <1>7, <1>9

LEMMA FileInductive == FileInv /\ [Next]_vars => FileInv'
<1> SUFFICES ASSUME FileInv, [Next]_vars PROVE FileInv'
  OBVIOUS
<1>1. FileType'
  BY FileTypeKept DEF FileInv
<1>2. CASE \E p \in Procs : LinkStep(p) \/ InitStep(p)
  BY <1>1, <1>2, LinkFile, InitFinds DEF FileInv
<1>3. ASSUME ~\E p \in Procs : LinkStep(p) \/ InitStep(p)
      PROVE  FileInv'
  <2>1. UNCHANGED <<before, pyproject, text>>
    BY <1>3, OthersKeep
  <2>2. /\ cmd' = cmd /\ setbacks' \in Nat /\ setbacks' >= setbacks /\ setbacks \in Nat
        /\ DOMAIN at = Procs
    BY SetbacksGrow, StepKeeps DEF FileInv, FileType
  <2>3. ASSUME NEW q \in Procs
        PROVE  \/ at'[q] = at[q]
               \/ at'[q] = <<"over", "killed">> /\ setbacks' > 0
               \/ /\ at[q][1] \notin {"link", "init", "over"}
                  /\ at'[q][1] \notin {"link", "init"}
                  /\ at'[q][1] \in OtherPlaces => at'[q][1] = cmd[q]
               \/ at'[q] = <<"run", "start">> /\ cmd[q] = "run"
    <3>1. CASE Command(q)
      <4>1. CASE RunStep(q)
        <5>1. at[q][1] \in RunPlaces /\ at'[q][1] \in RunPlaces \union {"over"}
          BY <2>2, <4>1, RunStepMoves DEF Moves
        <5> QED BY <5>1 DEF RunPlaces, OtherPlaces
      <4>2. CASE PdStep(q)
        <5>1. PICK w \in OtherPlaces : Moves(q, {w}, {w, "over"})
          BY <4>2, StaysOwn
        <5>2. at[q][1] = w /\ at'[q][1] \in {w, "over"}
          BY <2>2, <5>1 DEF Moves
        <5>3. cmd[q] = w
          BY <5>2 DEF FileInv, AtOwn
        <5>4. CASE w \in {"link", "init"}
          <6>1. ~LinkStep(q) /\ ~InitStep(q)
            BY <1>3
          <6>2. ASSUME \E v \in {"login", "logout", "deploy"} : \E s : At(q, v, s)
                PROVE  FALSE
            BY <5>2, <5>4, <6>2 DEF At
          <6>3. CASE LoginStep(q) \/ LogoutStep(q)
            BY <6>2, <6>3
               DEF LoginStep, RequestCode, SleepOrStop, PollPending, PollGranted, PollFails,
                   OpenCreds, WriteCreds, Chmod, LogoutStep
          <6>4. CASE DeployStep(q)
            BY <6>2, <6>4 DEF DeployStep, LoadCreds, GitBase, ReadApp
          <6> QED BY <4>2, <6>1, <6>3, <6>4 DEF PdStep
        <5>5. CASE w \notin {"link", "init"}
          BY <5>2, <5>3, <5>5 DEF OtherPlaces
        <5> QED BY <5>4, <5>5
      <4> QED BY <3>1, <4>1, <4>2 DEF Command
    <3>2. CASE Kill(q)
      <4>1. setbacks' > 0
        BY <2>2, <3>2 DEF Kill, Setback
      <4>2. at'[q] = <<"over", "killed">>
        BY <2>2, <3>2 DEF Kill, Exit, Goto
      <4> QED BY <4>1, <4>2
    <3>3. CASE Retry(q)
      BY <2>2, <3>3 DEF Retry, RunAgain, Again, Goto
    <3> QED BY <2>2, <3>1, <3>2, <3>3, StepIs
  <2>4. AtOwn'
    <3>1. ASSUME NEW q \in Procs, at'[q][1] \in OtherPlaces PROVE at'[q][1] = cmd[q]
      BY <2>3, <3>1 DEF FileInv, AtOwn, OtherPlaces
    <3> QED BY <2>2, <3>1 DEF AtOwn
  <2>5. FileStays' /\ NoLinkKeeps'
    BY <2>1, <2>2 DEF FileInv, FileStays, NoLinkKeeps
  <2>6. InitWaits'
    <3>1. ASSUME before # NoFile, NEW q \in Procs, at'[q][1] = "init"
          PROVE  at'[q] = <<"init", "start">>
      BY <2>3, <3>1 DEF FileInv, InitWaits, At
    <3> QED BY <2>1, <3>1 DEF InitWaits, At
  <2>7. ASSUME NEW q \in Procs, Lone(q)' PROVE Linked(q)'
    <3>1. Lone(q) /\ Linked(q) /\ cmd[q] = "link"
      BY <2>1, <2>2, <2>7 DEF FileInv, LoneLinks, Lone
    <3>2. at[q][1] \in {"link", "over"}
      BY <3>1 DEF Linked, At
    <3>3. at'[q] = at[q] \/ (at'[q] = <<"over", "killed">> /\ setbacks' > 0)
      <4>1. cmd[q] # "run"
        BY <3>1
      <4>2. ~(at[q][1] \notin {"link", "init", "over"})
        BY <3>2
      <4>3. ~(at'[q] = <<"run", "start">> /\ cmd[q] = "run")
        BY <4>1
      <4> QED BY <2>3, <4>2, <4>3, Zenon
    <3>4. CASE at'[q] = at[q]
      BY <2>1, <2>2, <3>1, <3>4 DEF Linked, At, Found
    <3>5. CASE at'[q] = <<"over", "killed">> /\ setbacks' > 0
      BY <3>5 DEF Linked, At
    <3> QED BY <3>3, <3>4, <3>5
  <2>8. LoneLinks'
    BY <2>7 DEF LoneLinks
  <2> QED BY <1>1, <2>4, <2>5, <2>6, <2>8 DEF FileInv
<1> QED BY <1>2, <1>3


LEMMA FileIsInv == Spec => []FileInv
BY InitFile, FileInductive, PTL DEF Spec

LEMMA SameAsIt ==
  ASSUME NEW lines \in Seq(TextLine)
  PROVE  SameOthers(lines, lines)
<1>1. DOMAIN lines = 1..Len(lines)
  OBVIOUS
<1>2. Others(lines) \subseteq Nat
  BY <1>1 DEF Others
<1> QED BY <1>2, SamePlaces

(* What is typed: one link at a time.                                      *)
OneLink ==
  \A s \in Sessions : \A p, q \in Procs : s[p] = "link" /\ s[q] = "link" => p = q

(* And no other command that writes the file, where a deploy reads it.     *)
LinkAlone ==
  \A s \in Sessions : \A p, q \in Procs :
     s[p] = "link" /\ s[q] = "deploy" =>
       \A r \in Procs : s[r] \in {"link", "init"} => r = p

LEMMA FileKept ==
  ASSUME OneLink, FileInv
  PROVE  FileSurvives
<1> SUFFICES ASSUME before # NoFile, setbacks = 0, \A p \in Procs : Over(p)
             PROVE  SameOthers(pyproject, before)
  BY DEF FileSurvives
<1>1. before \in Seq(TextLine)
  BY DEF FileInv, FileType
<1>2. ASSUME NEW p \in Procs, cmd[p] = "link" PROVE SameOthers(pyproject, before)
  <2>1. Lone(p)
    BY <1>2 DEF Lone, OneLink, FileInv, FileType
  <2>2. Linked(p) /\ at[p][1] = "over"
    BY <2>1 DEF FileInv, LoneLinks, Over
  <2>3. pyproject = Apply(Found, p) /\ Found = before
    BY <2>2 DEF Linked, At, Found
  <2> QED BY <1>1, <2>3, ApplyKeeps
<1>3. ASSUME \A p \in Procs : cmd[p] # "link" PROVE SameOthers(pyproject, before)
  BY <1>1, <1>3, SameAsIt DEF FileInv, NoLinkKeeps
<1> QED BY <1>2, <1>3

(* A pyproject.toml that was there is there when the commands are over,    *)
(* with every line that is not link's in its place (init.py:117-159,       *)
(* link.py:23-72): whatever the text, wherever its section is, and however *)
(* many inits and deploys there are beside one link.                       *)
THEOREM FileIsKept ==
  ASSUME OneLink
  PROVE  Spec => []FileSurvives
<1>1. FileInv => FileSurvives
  BY FileKept
<1> QED BY <1>1, FileIsInv, PTL

(* A link that ends well has written.                                      *)
LEMMA LinkWritten ==
  ASSUME FileInv, [Next]_vars, NEW p \in Procs, At(p, "link", "write"),
         at'[p] = <<"over", "ok">>, pyproject' # Garbage
  PROVE  /\ Parsed(text[p]) /\ Recognised(text[p]) => AppName(pyproject') = p
         /\ SameOthers(pyproject', text[p])
<1>1. Command(p)
  <2>1. DOMAIN at = Procs /\ at'[p] # at[p]
    BY DEF FileInv, FileType, At
  <2> QED BY <2>1, StepIs
<1>2. PdStep(p)
  <2>1. at[p][1] \notin RunPlaces
    BY DEF At, RunPlaces
  <2>2. ~RunStep(p)
    BY <2>1, RunStepMoves DEF Moves
  <2> QED BY <1>1, <2>2 DEF Command
<1>3. LinkWrites(p)
  <2>1. ASSUME \E v \in {"login", "logout", "deploy", "init"} : \E s : At(p, v, s)
        PROVE  FALSE
    BY <2>1 DEF At
  <2>2. CASE LoginStep(p) \/ LogoutStep(p)
    BY <2>1, <2>2
       DEF LoginStep, RequestCode, SleepOrStop, PollPending, PollGranted, PollFails,
           OpenCreds, WriteCreds, Chmod, LogoutStep
  <2>3. CASE DeployStep(p)
    BY <2>1, <2>3 DEF DeployStep, LoadCreds, GitBase, ReadApp
  <2>4. CASE InitStep(p)
    BY <2>1, <2>4 DEF InitStep, InitGuards, InitWritesApp, InitOpens, InitWrites
  <2>5. CASE LinkStep(p)
    BY <2>5 DEF LinkStep, LinkReads, LinkOpens, At
  <2> QED BY <1>2, <2>2, <2>3, <2>4, <2>5 DEF PdStep
<1>4. pyproject' = Apply(text[p], p)
  BY <1>3 DEF LinkWrites, WritePyproject
<1>5. text[p] \in Seq(TextLine)
  BY DEF FileInv, FileType
<1>6. PICK lines \in Seq(TextLine) : lines = text[p]
  BY <1>5
<1>7. PICK new : new = pyproject'
  OBVIOUS
<1>8. /\ SameOthers(new, lines)
      /\ Parsed(lines) /\ Recognised(lines) => AppName(new) = p
  BY <1>4, <1>6, <1>7, ApplyKeeps
<1> QED BY <1>6, <1>7, <1>8

(* A deploy that pushes reads what the link has written.                   *)
LEMMA DeployReads ==
  ASSUME LinkAlone, FileInv, [Next]_vars, NEW p \in Procs, Pushes(p),
         Parsed(before), Recognised(before),
         NEW q \in Procs, cmd[q] = "link", At(q, "over", "ok")
  PROVE  pushed'[p] = q
<1>0. At(p, "deploy", "app") /\ pushed'[p] # pushed[p]
  BY DEF Pushes
<1>1. cmd[p] = "deploy"
  BY <1>0 DEF FileInv, AtOwn, At, OtherPlaces
<1>2. Lone(q)
  BY <1>1 DEF Lone, LinkAlone, FileInv, FileType
<1>3. pyproject = Apply(Found, q)
  <2>1. Linked(q)
    BY <1>2 DEF FileInv, LoneLinks
  <2> QED BY <2>1 DEF Linked, At
<1>4. Found \in Seq(TextLine) /\ Parsed(Found) /\ Recognised(Found)
  <2>1. Found \in Seq(TextLine)
    BY TextsAre DEF FileInv, FileType, Found
  <2>2. Parsed(<<>>) /\ Recognised(<<>>)
    BY DEF Parsed, Recognised, Indices, Apps, AppsIn
  <2> QED BY <2>1, <2>2 DEF Found
<1>5. AppName(pyproject) = q /\ pyproject # NoFile
  BY <1>3, <1>4, ApplyKeeps, AreFiles
<1>6. PICK r \in Procs : ReadApp(r)
  <2>1. ASSUME NEW r \in Procs, PdStep(r)
        PROVE  UNCHANGED pushed \/ ReadApp(r)
    BY <2>1 DEF PdStep, LinkStep, LinkReads, LinkOpens, LinkWrites, InitStep, InitGuards,
                InitWritesApp, InitOpens, InitWrites, DeployStep, prVars, pdVars
  <2>2. ASSUME NEW r \in Procs, Command(r) \/ Retry(r)
        PROVE  UNCHANGED pushed \/ ReadApp(r)
    BY <2>1, <2>2 DEF Command, Retry, pdVars, prVars
  <2>3. CASE (\E r \in Procs : Kill(r) /\ UNCHANGED <<diVars, pdVars>>)
             \/ Environment \/ UNCHANGED vars
    BY <1>0, <2>3 DEF Environment, vars, pdVars, prVars
  <2> QED BY <1>0, <2>2, <2>3 DEF Next
<1>7. pushed' = [pushed EXCEPT ![r] = AppName(pyproject)]
  BY <1>5, <1>6 DEF ReadApp
<1> QED BY <1>0, <1>5, <1>7 DEF FileInv, FileType

(* link's editing against deploy's reading (link.py:23-60,                 *)
(* deploy.py:26-38), for every text, whatever the kinds of its lines: no   *)
(* line but the section's header and its app changes or moves, and where   *)
(* link recognises those as the parser does, the app is the linked one,    *)
(* for the parser and for a deploy that pushes.  The deploy's half needs   *)
(* that no other command writes the file: a link reads it once.            *)
THEOREM LinkIsFound ==
  ASSUME LinkAlone
  PROVE  Spec => LinkTakesEffect
<1> DEFINE Effect ==
      \A p \in Procs :
       /\ /\ At(p, "link", "write")
          /\ at'[p] = <<"over", "ok">>
          /\ pyproject' # Garbage
          => /\ Parsed(text[p]) /\ Recognised(text[p]) => AppName(pyproject') = p
             /\ SameOthers(pyproject', text[p])
       /\ Pushes(p) /\ Parsed(before) /\ Recognised(before) => PushesToLinked(p)
<1>1. FileInv /\ [Next]_vars => Effect
  BY LinkWritten, DeployReads DEF PushesToLinked
<1>2. FileInv /\ [Next]_vars => [Effect]_<<shVars, pdVars>>
  BY <1>1
<1> QED BY <1>2, FileIsInv, PTL DEF Spec, LinkTakesEffect
=============================================================================
