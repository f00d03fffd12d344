--------------------------- MODULE SvcAuthProofs ---------------------------
(***************************************************************************)
(* What a rotation of the shared secret keeps, and what the date check     *)
(* does, for any services, clocks and delays.                              *)
(***************************************************************************)
EXTENDS SvcAuth, TLAPS

(* The old secret is removed from no service before all are up to date.    *)
RemovedLast == \A s \in Services : stage[s] = Last => UpToDate

(* What was sent once all were up to date has the new secret, which all    *)
(* accept from then on.                                                    *)
SettledAccepted == \A c \in calls : c.settled => c.secret = "new" /\ UpToDate

(* A call's date is that of its sending, by some clock.                    *)
DatedWhenSent ==
  \A c \in calls : /\ c.sent <= clock
                   /\ c.sent - MaxDrift <= c.date
                   /\ c.date <= c.sent + MaxDrift

(* The inductive invariant.                                                *)
IInv ==
  /\ TypeOK
  /\ RemovedLast
  /\ SettledAccepted
  /\ DatedWhenSent
  /\ RefusalsExplained
  /\ DatesHonoured

LEMMA PlanIs ==
  /\ Last = 3
  /\ Plan[1] = [current |-> "old", previous |-> {}]
  /\ Plan[2] = [current |-> "new", previous |-> {"old"}]
  /\ Plan[3] = [current |-> "new", previous |-> {}]
BY DEF Last, Plan, Env

(* What a service signs with and accepts at each stage.                    *)
LEMMA SecretsAt ==
  ASSUME NEW s \in Services, stage[s] \in 1..3
  PROVE  /\ Signs(s) = IF stage[s] = 1 THEN "old" ELSE "new"
         /\ "new" \in Accepted(s) <=> stage[s] >= 2
         /\ "old" \in Accepted(s) <=> stage[s] <= 2
<1>1. stage[s] = 1 \/ stage[s] = 2 \/ stage[s] = 3
  OBVIOUS
<1> QED BY <1>1, PlanIs DEF Signs, Accepted

LEMMA Typed ==
  ASSUME TypeOK
  PROVE  /\ clock \in Nat
         /\ \A s \in Services : stage[s] \in 1..3
         /\ \A c \in calls : /\ c \in Call
                             /\ c.to \in Services /\ c.secret \in {"old", "new"}
                             /\ c.sent \in Nat /\ c.date \in Int /\ c.settled \in BOOLEAN
BY PlanIs DEF TypeOK, Call

LEMMA ConstantsTyped == MaxSkew \in Nat /\ MaxDrift \in Nat
BY SvcAuthAssumption

LEMMA OneTo3 ==
  ASSUME NEW n \in 1..3
  PROVE  /\ ~(n >= 2) => n = 1
         /\ ~(n <= 2) => n = 3
OBVIOUS

(* The verdict on a call, from the secrets.                                *)
LEMMA VerdictOnSecret ==
  ASSUME IInv, NEW c \in calls, NEW now, Verify(c, now) = "invalid signature"
  PROVE  /\ ~c.settled
         /\ \/ stage[c.to] = 1 /\ c.secret = "new"
            \/ stage[c.to] = Last /\ c.secret = "old"
<1>1. TypeOK /\ SettledAccepted
  BY DEF IInv
<1>2. c.to \in Services /\ stage[c.to] \in 1..3 /\ c.secret \in {"old", "new"}
  BY <1>1, Typed
<1>3. c.secret \notin Accepted(c.to)
  BY DEF Verify
<1>4. \/ stage[c.to] = 1 /\ c.secret = "new"
      \/ stage[c.to] = Last /\ c.secret = "old"
  <2>1. /\ "new" \in Accepted(c.to) <=> stage[c.to] >= 2
        /\ "old" \in Accepted(c.to) <=> stage[c.to] <= 2
    BY <1>2, SecretsAt
  <2>2. CASE c.secret = "new"
    <3>1. ~(stage[c.to] >= 2)
      BY <1>3, <2>1, <2>2
    <3>2. stage[c.to] = 1
      BY <1>2, <3>1, OneTo3
    <3> QED BY <2>2, <3>2
  <2>3. CASE c.secret = "old"
    <3>1. ~(stage[c.to] <= 2)
      BY <1>3, <2>1, <2>3
    <3>2. stage[c.to] = 3
      BY <1>2, <3>1, OneTo3
    <3> QED BY <2>3, <3>2, PlanIs
  <2> QED BY <1>2, <2>2, <2>3
<1>5. c.settled => c.secret = "new" /\ stage[c.to] >= 2
  BY <1>1, <1>2 DEF SettledAccepted, UpToDate
<1>6. c.secret = "new" /\ stage[c.to] >= 2 => FALSE
  BY <1>2, <1>3, SecretsAt
<1>7. ~c.settled
  BY <1>5, <1>6
<1> QED BY <1>4, <1>7

(* The verdict on a call, from the two clocks.                             *)
LEMMA VerdictOnDate ==
  ASSUME IInv, NEW c \in calls, NEW now \in Readings
  PROVE  /\ clock - c.sent \in Nat
         /\ Verify(c, now) = "date out of tolerance" =>
              clock - c.sent > MaxSkew - 2 * MaxDrift
         /\ Verify(c, now) # "date out of tolerance" =>
              clock - c.sent <= MaxSkew + 2 * MaxDrift
<1>1. TypeOK /\ DatedWhenSent
  BY DEF IInv
<1>2. clock \in Nat /\ c.sent \in Nat /\ c.date \in Int
  BY <1>1, Typed
<1>3. now \in Int /\ clock - MaxDrift <= now /\ now <= clock + MaxDrift
  BY <1>2, ConstantsTyped DEF Readings
<1>4. c.sent <= clock /\ c.sent - MaxDrift <= c.date /\ c.date <= c.sent + MaxDrift
  BY <1>1 DEF DatedWhenSent
<1>5. ~InTolerance(c, now) => clock - c.sent > MaxSkew - 2 * MaxDrift
  BY <1>2, <1>3, <1>4, ConstantsTyped DEF InTolerance, Abs
<1>6. InTolerance(c, now) => clock - c.sent <= MaxSkew + 2 * MaxDrift
  BY <1>2, <1>3, <1>4, ConstantsTyped DEF InTolerance, Abs
<1>7. Verify(c, now) = "date out of tolerance" <=> ~InTolerance(c, now)
  BY DEF Verify
<1>8. clock - c.sent \in Nat
  BY <1>2, <1>4
<1> QED BY <1>5, <1>6, <1>7, <1>8, Zenon

LEMMA InitHolds == Init => IInv
<1> SUFFICES ASSUME Init PROVE IInv
  OBVIOUS
<1>1. TypeOK
  BY PlanIs DEF Init, TypeOK
<1>2. RemovedLast
  BY PlanIs DEF Init, RemovedLast
<1>3. SettledAccepted /\ DatedWhenSent /\ RefusalsExplained /\ DatesHonoured
  BY DEF Init, SettledAccepted, DatedWhenSent, RefusalsExplained, DatesHonoured, NoVerdict
<1> QED BY <1>1, <1>2, <1>3 DEF IInv

LEMMA NextKeeps == IInv /\ [Next]_vars => IInv'
<1> SUFFICES ASSUME IInv, [Next]_vars PROVE IInv'
  OBVIOUS
<1> USE DEF IInv
<1>1. ASSUME NEW s \in Services, NEW t \in Services, SendCall(s, t)
      PROVE  IInv'
  <2>1. PICK date \in Readings :
          calls' = calls \union {[to |-> t, secret |-> Signs(s), sent |-> clock,
                                  date |-> date, settled |-> UpToDate]}
    BY <1>1 DEF SendCall
  <2> DEFINE c == [to |-> t, secret |-> Signs(s), sent |-> clock, date |-> date,
                   settled |-> UpToDate]
  <2>2. calls' = calls \union {c} /\ UNCHANGED <<clock, stage, verdict>>
    BY <1>1, <2>1 DEF SendCall
  <2>3. clock \in Nat /\ stage[s] \in 1..3 /\ UpToDate \in BOOLEAN
    BY Typed DEF UpToDate
  <2>4. Signs(s) = IF stage[s] = 1 THEN "old" ELSE "new"
    BY <2>3, SecretsAt
  <2>5. date \in Int /\ clock - MaxDrift <= date /\ date <= clock + MaxDrift
    BY <2>3, ConstantsTyped DEF Readings
  <2>6. TypeOK'
    <3>1. c \in Call
      BY <2>3, <2>4, <2>5 DEF Call
    <3> QED BY <2>2, <3>1 DEF TypeOK
  <2>7. SettledAccepted'
    <3>1. c.settled => c.secret = "new" /\ UpToDate
      BY <2>3, <2>4 DEF UpToDate
    <3> QED BY <2>2, <3>1 DEF SettledAccepted, UpToDate
  <2>8. DatedWhenSent'
    <3>1. c.sent <= clock /\ c.sent - MaxDrift <= c.date /\ c.date <= c.sent + MaxDrift
      BY <2>3, <2>5
    <3> QED BY <2>2, <3>1 DEF DatedWhenSent
  <2>9. RemovedLast' /\ RefusalsExplained' /\ DatesHonoured'
    BY <2>2 DEF RemovedLast, UpToDate, RefusalsExplained, DatesHonoured
  <2> QED BY <2>6, <2>7, <2>8, <2>9
<1>2. ASSUME NEW c \in calls, Receive(c)
      PROVE  IInv'
  <2>1. PICK now \in Readings :
          verdict' = [is |-> Verify(c, now), secret |-> c.secret, settled |-> c.settled,
                      stage |-> stage[c.to], age |-> clock - c.sent]
    BY <1>2 DEF Receive
  <2>2. calls' \subseteq calls /\ UNCHANGED <<clock, stage>>
    BY <1>2 DEF Receive
  <2>3. Verify(c, now) \in Verdicts
    BY DEF Verify, Verdicts
  <2>4. TypeOK'
    BY <2>1, <2>2, <2>3, Typed, VerdictOnDate, PlanIs DEF TypeOK
  <2>5. RefusalsExplained'
    <3>1. Verify(c, now) = "invalid signature" =>
            /\ ~c.settled
            /\ \/ stage[c.to] = 1 /\ c.secret = "new"
               \/ stage[c.to] = Last /\ c.secret = "old"
      BY VerdictOnSecret
    <3> QED BY <2>1, <3>1 DEF RefusalsExplained
  <2>6. DatesHonoured'
    BY <2>1, <2>3, VerdictOnDate DEF DatesHonoured, Verdicts
  <2>7. RemovedLast' /\ SettledAccepted' /\ DatedWhenSent'
    BY <2>2 DEF RemovedLast, SettledAccepted, DatedWhenSent, UpToDate
  <2> QED BY <2>4, <2>5, <2>6, <2>7
<1>3. ASSUME NEW c \in calls, Lose(c)
      PROVE  IInv'
  BY <1>3 DEF Lose, TypeOK, RemovedLast, SettledAccepted, DatedWhenSent, UpToDate,
     RefusalsExplained, DatesHonoured
<1>4. CASE Tick
  <2>1. clock' = clock + 1 /\ UNCHANGED <<stage, calls, verdict>> /\ clock \in Nat
    BY <1>4, Typed DEF Tick
  <2>2. DatedWhenSent'
    BY <2>1, Typed DEF DatedWhenSent
  <2>3. TypeOK'
    BY <2>1 DEF TypeOK
  <2>4. RemovedLast' /\ SettledAccepted' /\ RefusalsExplained' /\ DatesHonoured'
    BY <2>1 DEF RemovedLast, SettledAccepted, UpToDate, RefusalsExplained, DatesHonoured
  <2> QED BY <2>2, <2>3, <2>4
<1>5. ASSUME NEW s \in Services, Deploy(s)
      PROVE  IInv'
  <2>1. /\ stage[s] \in 1..3 /\ stage[s] < 3
        /\ stage[s] + 1 = 3 => UpToDate
        /\ \A u \in Services : /\ stage[u] \in 1..3
                               /\ stage'[u] = IF u = s THEN stage[s] + 1 ELSE stage[u]
        /\ stage' \in [Services -> 1..3]
        /\ UNCHANGED <<clock, calls, verdict>>
    BY <1>5, Typed, PlanIs DEF Deploy, TypeOK
  <2>2. UpToDate => UpToDate'
    BY <2>1 DEF UpToDate
  <2>3. TypeOK'
    BY <2>1, PlanIs DEF TypeOK
  <2>4. RemovedLast'
    <3> SUFFICES ASSUME NEW u \in Services, stage'[u] = 3
                 PROVE  UpToDate'
      BY PlanIs DEF RemovedLast
    <3>1. CASE u = s
      BY <2>1, <2>2, <3>1
    <3>2. CASE u # s
      BY <2>1, <2>2, <3>2, PlanIs DEF RemovedLast
    <3> QED BY <3>1, <3>2
  <2>5. SettledAccepted' /\ DatedWhenSent' /\ RefusalsExplained' /\ DatesHonoured'
    BY <2>1, <2>2 DEF SettledAccepted, DatedWhenSent, RefusalsExplained, DatesHonoured
  <2> QED BY <2>3, <2>4, <2>5
<1>6. CASE UNCHANGED vars
  BY <1>6 DEF vars, TypeOK, RemovedLast, SettledAccepted, DatedWhenSent, UpToDate,
     RefusalsExplained, DatesHonoured
<1> QED BY <1>1, <1>2, <1>3, <1>4, <1>5, <1>6 DEF Next

LEMMA Invariant == Spec => []IInv
<1> QED BY InitHolds, NextKeeps, PTL DEF Spec

(* Whatever the services, their clocks and how late a call: a signature is *)
(* refused by a service still to be deployed, or for an old secret since   *)
(* removed, and never on what was sent once all services were up to date;  *)
(* and a call is refused as too old only after the tolerance less the      *)
(* drift of two clocks, and let in only before the tolerance and that      *)
(* drift.                                                                  *)
THEOREM RotationExplained == Spec => []VerdictsExplained
<1>1. IInv => VerdictsExplained
  BY DEF IInv, VerdictsExplained
<1> QED BY Invariant, <1>1, PTL
=============================================================================
