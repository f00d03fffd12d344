------------------------------ MODULE SvcAuth ------------------------------
(***************************************************************************)
(* Signed calls between services while the shared secret is rotated:       *)
(* core/src/api/svcauth.rs, with the signers of vignemale/call.py and of   *)
(* the gateway.  The environment of a service (its current and previous    *)
(* secrets) is fixed until it is deployed again, so a rotation goes over   *)
(* the services one at a time while they call each other.                  *)
(*                                                                         *)
(* A signature is the secret that made it: what it covers is not altered   *)
(* on the way.  A call may take any time: the gateway's client waits for   *)
(* ever, and VIGNEMALE_CALL_TIMEOUT bounds each operation on the socket,   *)
(* not the call.                                                           *)
(***************************************************************************)
EXTENDS Integers, Sequences, FiniteSets

CONSTANTS
  Services,    (* the services, the gateway among them                     *)
  MaxSkew,     (* MAX_SKEW_SECS                                            *)
  MaxDrift,    (* how far a clock, read in whole seconds, is from the true *)
               (* time, at most                                            *)
  MaxCalls,    (* bound: calls in flight                                   *)
  MaxClock     (* bound: time                                              *)

ASSUME SvcAuthAssumption ==
  {MaxSkew, MaxDrift, MaxCalls, MaxClock} \subseteq Nat

VARIABLES
  clock,     (* the true time                                              *)
  stage,     (* how far each service is in the rotation                    *)
  calls,     (* calls in flight                                            *)
  verdict    (* history: on the last call received                         *)

vars == <<clock, stage, calls, verdict>>

(* The environment at each stage: SERVICE_SECRET, ..._SECRET_PREVIOUS.     *)
(* The new secret comes as the current one, with the old one as previous;  *)
(* then the old one goes.                                                  *)
Env(current, previous) == [current |-> current, previous |-> previous]

Plan == <<Env("old", {}), Env("new", {"old"}), Env("new", {})>>

Last == Len(Plan)

Signs(s) == Plan[stage[s]].current

(* Mutant: the previous secrets are not looked at.                         *)
AcceptedCurrent(s) == {Plan[stage[s]].current}

(* accepted_secrets_from_env                                               *)
Accepted(s) == {Plan[stage[s]].current} \union Plan[stage[s]].previous

(* Every service has the new secret.                                       *)
UpToDate == \A s \in Services : stage[s] >= 2

(* What some clock may say.                                                *)
Readings == (clock - MaxDrift)..(clock + MaxDrift)

(* settled is history: whether all were up to date when it was sent.       *)
Call == [to : Services, secret : {"old", "new"}, sent : Nat, date : Int,
         settled : BOOLEAN]

Verdicts == {"date out of tolerance", "invalid signature", "ok"}
NoVerdict == [is |-> "none"]

Abs(n) == IF n < 0 THEN 0 - n ELSE n

Init ==
  /\ clock = 0
  /\ stage = [s \in Services |-> 1]
  /\ calls = {}
  /\ verdict = NoVerdict

(* _call_http, or the gateway's forward: signed with the current secret    *)
(* and dated by the caller's clock.                                        *)
SendCall(s, t) ==
  /\ Cardinality(calls) < MaxCalls
  /\ \E date \in Readings :
       calls' = calls \union
         {[to |-> t, secret |-> Signs(s), sent |-> clock, date |-> date,
           settled |-> UpToDate]}
  /\ UNCHANGED <<clock, stage, verdict>>

(* Mutant: the tolerance is exclusive.                                     *)
InToleranceExclusive(c, now) == Abs(now - c.date) < MaxSkew

InTolerance(c, now) == Abs(now - c.date) <= MaxSkew

(* verify_any, at the receiver's time.                                     *)
Verify(c, now) ==
  IF ~InTolerance(c, now) THEN "date out of tolerance"
  ELSE IF c.secret \notin Accepted(c.to) THEN "invalid signature"
  ELSE "ok"

(* The call arrives: the internal route, or a public one in mesh mode.     *)
Receive(c) ==
  /\ c \in calls
  /\ calls' = calls \ {c}
  /\ \E now \in Readings :
       verdict' = [is |-> Verify(c, now), secret |-> c.secret, settled |-> c.settled,
                   stage |-> stage[c.to], age |-> clock - c.sent]
  /\ UNCHANGED <<clock, stage>>

Lose(c) ==
  /\ c \in calls
  /\ calls' = calls \ {c}
  /\ UNCHANGED <<clock, stage, verdict>>

Tick ==
  /\ clock < MaxClock
  /\ clock' = clock + 1
  /\ UNCHANGED <<stage, calls, verdict>>

(* A service is deployed again, with the next environment: the old secret  *)
(* is removed "once all services are up to date".                          *)
Deploy(s) ==
  /\ stage[s] < Last
  /\ stage[s] + 1 = Last => UpToDate
  /\ stage' = [stage EXCEPT ![s] = @ + 1]
  /\ UNCHANGED <<clock, calls, verdict>>

Next ==
  \/ \E s, t \in Services : SendCall(s, t)
  \/ \E c \in calls : Receive(c) \/ Lose(c)
  \/ Tick
  \/ \E s \in Services : Deploy(s)

Spec == Init /\ [][Next]_vars

-----------------------------------------------------------------------------
TypeOK ==
  /\ clock \in Nat
  /\ stage \in [Services -> 1..Last]
  /\ calls \subseteq Call
  /\ verdict \in {NoVerdict} \union
       [is : Verdicts, secret : {"old", "new"}, settled : BOOLEAN, stage : 1..Last,
        age : Nat]

(* What the documented rotation keeps.  It is said to enable zero downtime *)
(* (svcauth.rs:36-42), and does not quite: a signature may be refused, but *)
(* only while the new secret comes, by a service that is still to be       *)
(* deployed, or as an old one that arrives after its secret has been       *)
(* removed.  What is sent once all services are up to date is let in       *)
(* through the rest of the rotation, however late it arrives.              *)
RefusalsExplained ==
  verdict.is = "invalid signature" =>
    /\ ~verdict.settled
    /\ \/ verdict.stage = 1 /\ verdict.secret = "new"
       \/ verdict.stage = Last /\ verdict.secret = "old"

(* The date check (svcauth.rs:101), with clocks apart and calls delayed: a *)
(* call is too old only after the tolerance less the drift of two clocks,  *)
(* and none is let in after the tolerance and that drift.                  *)
DatesHonoured ==
  /\ verdict.is = "date out of tolerance" => verdict.age > MaxSkew - 2 * MaxDrift
  /\ verdict.is \in {"invalid signature", "ok"} => verdict.age <= MaxSkew + 2 * MaxDrift

(* What verify_any answers during a rotation is explained by how far the   *)
(* receiver and the rotation are and by the call's age, for every call.    *)
VerdictsExplained == RefusalsExplained /\ DatesHonoured
=============================================================================
