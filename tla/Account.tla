------------------------------ MODULE Account ------------------------------
(***************************************************************************)
(* The developer's account: `vignemale login` by device flow, the          *)
(* credentials file, `logout`, and the push of `deploy`                    *)
(* (vignemale_cli/auth.py and deploy.py; the file of the project that      *)
(* deploy reads is in module Project).                                     *)
(*                                                                         *)
(* Time is counted down: each login has the time left to its deadline and  *)
(* to its next poll.                                                       *)
(***************************************************************************)
EXTENDS Shell

CONSTANTS
  Clouds,       (* panels: VIGNEMALE_CLOUD_URL of each command             *)
  Interval,     (* seconds between two polls, as the panel asks            *)
  SlowDown,     (* seconds that slow_down adds                             *)
  Expiry,       (* expires_in of the device code                           *)
  MaxSlow       (* bound: slow_down answers to a login                     *)

ASSUME AccountAssumption ==
  /\ Interval \in Nat \ {0}
  /\ {SlowDown, Expiry, MaxSlow} \subseteq Nat

NoCreds == [kind |-> "none"]        (* no credentials file                 *)
Partial == [kind |-> "partial"]     (* not JSON: cut or mixed              *)
Token(p, url) == [kind |-> "token", by |-> p, url |-> url]

VARIABLES
  cloud,     (* per process: the panel its environment names               *)
  grant,     (* per login: the user's answer in the browser                *)
  left,      (* per login: time to its deadline                            *)
  nap,       (* per login: time to its next poll                           *)
  gap,       (* per login: time since its last poll, capped                *)
  interval,  (* per login                                                  *)
  slow,      (* per login: slow_down answers                               *)
  creds,     (* the credentials file                                       *)
  writers,   (* logins that have that file open, and not one removed since *)
  held       (* per deploy: the credentials it has loaded                  *)

loginVars == <<grant, left, nap, gap, interval, slow>>
acVars    == <<cloud, loginVars, creds, writers, held>>

Longest == Interval + SlowDown * MaxSlow

AcInit ==
  /\ cloud \in [Procs -> Clouds]
  /\ grant = [p \in Procs |-> "none"]
  /\ left = [p \in Procs |-> 0]
  /\ nap = [p \in Procs |-> 0]
  /\ gap = [p \in Procs |-> Longest]
  /\ interval = [p \in Procs |-> Interval]
  /\ slow = [p \in Procs |-> 0]
  /\ creds \in {NoCreds} \union {Token("an earlier login", url) : url \in Clouds}
  /\ writers = {}
  /\ held = [p \in Procs |-> NoCreds]

-----------------------------------------------------------------------------
(* login, 1: a device code, or the end.                                    *)
RequestCode(p) ==
  /\ At(p, "login", "start")
  /\ \/ /\ grant' = [grant EXCEPT ![p] = "pending"]
        /\ left' = [left EXCEPT ![p] = Expiry]
        /\ interval' = [interval EXCEPT ![p] = Interval]
        /\ slow' = [slow EXCEPT ![p] = 0]
        /\ gap' = [gap EXCEPT ![p] = Longest]
        /\ Goto(p, "login", "loop")
     \/ /\ \/ Exit(p, "failed")    (* an answer without a code             *)
           \/ Exit(p, "crashed")   (* no connection: URLError              *)
        /\ UNCHANGED <<grant, left, interval, slow, gap>>
  /\ UNCHANGED <<cloud, nap, creds, writers, held>>

(* Mutant: the loop has no deadline.                                       *)
SleepAlways(p) ==
  /\ At(p, "login", "loop")
  /\ nap' = [nap EXCEPT ![p] = interval[p]]
  /\ Goto(p, "login", "sleep")
  /\ UNCHANGED <<cloud, grant, left, gap, interval, slow, creds, writers, held>>

(* The head of the loop: the deadline is looked at before the sleep.       *)
SleepOrStop(p) ==
  /\ At(p, "login", "loop")
  /\ IF left[p] > 0
     THEN /\ nap' = [nap EXCEPT ![p] = interval[p]]
          /\ Goto(p, "login", "sleep")
     ELSE /\ Exit(p, "failed")
          /\ UNCHANGED nap
  /\ UNCHANGED <<cloud, grant, left, gap, interval, slow, creds, writers, held>>

Polled(p) == gap' = [gap EXCEPT ![p] = 0]

(* Mutant: slow_down is taken for authorization_pending.                   *)
PollKeepsPace(p) ==
  /\ At(p, "login", "sleep")
  /\ nap[p] = 0
  /\ grant[p] = "pending"
  /\ Polled(p)
  /\ slow' = [slow EXCEPT ![p] = IF @ < MaxSlow THEN @ + 1 ELSE @]
  /\ Goto(p, "login", "loop")
  /\ UNCHANGED <<cloud, grant, left, nap, interval, creds, writers, held>>

(* login, 2: a poll, answered by what the user has done, by slow_down, or  *)
(* by an error of the panel or the network.                                *)
PollPending(p) ==
  /\ At(p, "login", "sleep")
  /\ nap[p] = 0
  /\ grant[p] = "pending"
  /\ Polled(p)
  /\ \/ UNCHANGED <<interval, slow>>
     \/ /\ slow[p] < MaxSlow
        /\ slow' = [slow EXCEPT ![p] = @ + 1]
        /\ interval' = [interval EXCEPT ![p] = @ + SlowDown]
  /\ Goto(p, "login", "loop")
  /\ UNCHANGED <<cloud, grant, left, nap, creds, writers, held>>

PollGranted(p) ==
  /\ At(p, "login", "sleep")
  /\ nap[p] = 0
  /\ grant[p] = "approved"
  /\ Polled(p)
  /\ Goto(p, "login", "save")
  /\ UNCHANGED <<cloud, grant, left, nap, interval, slow, creds, writers, held>>

PollFails(p) ==
  /\ At(p, "login", "sleep")
  /\ nap[p] = 0
  /\ Polled(p)
  /\ \/ Exit(p, "failed")      (* denied, expired, or an HTTP error        *)
     \/ Exit(p, "crashed")     (* no connection: URLError                  *)
  /\ UNCHANGED <<cloud, grant, left, nap, interval, slow, creds, writers, held>>

(* save_token: the file is opened, which empties it, written, then made    *)
(* private.  Its name may be gone by then, or another login writing to it. *)
OpenCreds(p) ==
  /\ At(p, "login", "save")
  /\ creds' = Partial
  /\ writers' = writers \union {p}
  /\ Goto(p, "login", "write")
  /\ UNCHANGED <<cloud, loginVars, held>>

WriteCreds(p) ==
  /\ At(p, "login", "write")
  /\ creds' \in CASE p \notin writers -> {creds}
                  [] p \in writers /\ creds = Partial -> {Token(p, cloud[p])}
                  [] OTHER -> {Token(p, cloud[p]), Partial}
  /\ writers' = writers \ {p}
  /\ Goto(p, "login", "chmod")
  /\ UNCHANGED <<cloud, loginVars, held>>

Chmod(p) ==
  /\ At(p, "login", "chmod")
  /\ Exit(p, IF creds = NoCreds THEN "crashed" ELSE "ok")
  /\ UNCHANGED acVars

LoginStep(p) ==
  \/ RequestCode(p) \/ SleepOrStop(p)
  \/ PollPending(p) \/ PollGranted(p) \/ PollFails(p)
  \/ OpenCreds(p) \/ WriteCreds(p) \/ Chmod(p)

LogoutStep(p) ==
  /\ At(p, "logout", "start")
  /\ creds' = NoCreds
  /\ writers' = {}
  /\ Exit(p, "ok")
  /\ UNCHANGED <<cloud, loginVars, held>>

-----------------------------------------------------------------------------
(* deploy loads the credentials, then _git_base loads them once more for   *)
(* the server to push to; without any by then, the URL cannot be built.    *)
LoadCreds(p) ==
  /\ At(p, "deploy", "start")
  /\ IF creds.kind = "token"
     THEN /\ held' = [held EXCEPT ![p] = creds]
          /\ \/ Goto(p, "deploy", "base")
             \/ Exit(p, "failed")              (* no git repository        *)
     ELSE /\ Exit(p, "failed")
          /\ UNCHANGED held
  /\ UNCHANGED <<cloud, loginVars, creds, writers>>

GitBase(p) ==
  /\ At(p, "deploy", "base")
  /\ IF creds.kind = "token"
     THEN /\ held' = [held EXCEPT ![p].url = creds.url]
          /\ Goto(p, "deploy", "app")
     ELSE /\ Exit(p, "crashed")
          /\ UNCHANGED held
  /\ UNCHANGED <<cloud, loginVars, creds, writers>>

-----------------------------------------------------------------------------
(* The user answers in the browser, once per code.                         *)
UserAnswers(p) ==
  /\ grant[p] = "pending"
  /\ cmd[p] = "login" /\ ~Over(p)
  /\ \E answer \in {"approved", "denied"} : grant' = [grant EXCEPT ![p] = answer]
  /\ UNCHANGED <<shVars, cloud, left, nap, gap, interval, slow, creds, writers, held>>

Sleeping(p) == At(p, "login", "sleep") /\ nap[p] > 0

(* A second passes: the deadline and the next poll come nearer.            *)
Second ==
  /\ \E p \in Procs : Sleeping(p)
  /\ left' = [p \in Procs |-> IF left[p] = 0 THEN 0 ELSE left[p] - 1]
  /\ nap' = [p \in Procs |-> IF nap[p] = 0 THEN 0 ELSE nap[p] - 1]
  /\ gap' = [p \in Procs |-> IF gap[p] = Longest THEN Longest ELSE gap[p] + 1]
  /\ UNCHANGED <<shVars, cloud, grant, interval, slow, creds, writers, held>>

-----------------------------------------------------------------------------
(* The panel sets the pace (RFC 8628): two polls of one login are at least *)
(* the interval apart, plus what each slow_down so far has added to it.    *)
PollsSpaced ==
  [][\A p \in Procs :
       At(p, "login", "sleep") /\ at'[p] # at[p] /\ at'[p] # <<"over", "killed">>
         => gap[p] >= Interval + SlowDown * slow[p]]_<<shVars, acVars>>

(* A login ends, whatever the panel answers and if the user never does.    *)
LoginEnds ==
  \A p \in Procs : cmd[p] = "login" ~> Over(p)
=============================================================================
