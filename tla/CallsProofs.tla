---------------------------- MODULE CallsProofs ----------------------------
(***************************************************************************)
(* Module Calls, for any applications, paths, topologies and users: what   *)
(* is read of an application is what importing it declares, nobody reaches *)
(* a handler from outside but through its guard, no handler runs for       *)
(* anybody but the one who asks, the gateway leads to the endpoint asked   *)
(* for, and the services answer as the one process does.                   *)
(***************************************************************************)
EXTENDS Calls, SequenceTheorems, WellFoundedInduction, TLAPS

-----------------------------------------------------------------------------
(* What is used of sequences.                                              *)
LEMMA OwnElements ==
  ASSUME NEW S, NEW s \in Seq(S)
  PROVE  /\ s \in Seq(ToSet(s))
         /\ Len(s) \in Nat /\ DOMAIN s = 1..Len(s)
         /\ s = <<>> <=> Len(s) = 0
BY DEF ToSet

LEMMA Appended ==
  ASSUME NEW s, s \in Seq(ToSet(s)), NEW e
  PROVE  /\ Append(s, e) \in Seq(ToSet(Append(s, e)))
         /\ Len(Append(s, e)) = Len(s) + 1
         /\ \A k \in 1..Len(s) : Append(s, e)[k] = s[k]
         /\ Append(s, e)[Len(s) + 1] = e
<1> DEFINE S == ToSet(s) \union {e}
<1>1. s \in Seq(S) /\ e \in S
  OBVIOUS
<1> HIDE DEF S
<1>2. /\ Append(s, e) \in Seq(S)
      /\ Len(Append(s, e)) = Len(s) + 1
      /\ \A k \in 1..Len(s) : Append(s, e)[k] = s[k]
      /\ Append(s, e)[Len(s) + 1] = e
  BY <1>1
<1>3. Append(s, e) \in Seq(ToSet(Append(s, e)))
  BY <1>2, OwnElements
<1> QED BY <1>2, <1>3

LEMMA WithoutLast ==
  ASSUME NEW s, s \in Seq(ToSet(s)), s # <<>>
  PROVE  /\ Front(s) \in Seq(ToSet(Front(s)))
         /\ Len(Front(s)) = Len(s) - 1
         /\ \A k \in 1..(Len(s) - 1) : Front(s)[k] = s[k]
         /\ Last(s) = s[Len(s)] /\ Len(s) \in 1..Len(s)
<1> DEFINE S == ToSet(s)
<1>1. s \in Seq(S)
  OBVIOUS
<1> HIDE DEF S
<1>2. Len(s) \in Nat \ {0}
  BY <1>1
<1>3. /\ Front(s) \in Seq(S)
      /\ Len(Front(s)) = Len(s) - 1
      /\ \A k \in 1..(Len(s) - 1) : Front(s)[k] = s[k]
  <2>1. \A k \in 1..(Len(s) - 1) : s[k] \in S
    BY <1>1, <1>2
  <2> DEFINE n == Len(s) - 1
  <2>2. n \in Nat /\ \A k \in 1..n : s[k] \in S
    BY <1>2, <2>1
  <2>3. ASSUME NEW m \in Nat, \A k \in 1..m : s[k] \in S
        PROVE  /\ SubSeq(s, 1, m) \in Seq(S)
               /\ Len(SubSeq(s, 1, m)) = m
               /\ \A k \in 1..m : SubSeq(s, 1, m)[k] = s[k]
    BY <2>3, SubSeqProperties
  <2> QED BY <2>2, <2>3 DEF Front
<1>4. Front(s) \in Seq(ToSet(Front(s)))
  BY <1>3, OwnElements
<1> QED BY <1>2, <1>3, <1>4 DEF Last

LEMMA Replaced ==
  ASSUME NEW s, s \in Seq(ToSet(s)), NEW n \in 1..Len(s), NEW e,
         NEW t, t = [s EXCEPT ![n] = e]
  PROVE  /\ t \in Seq(ToSet(t)) /\ Len(t) = Len(s)
         /\ \A k \in 1..Len(s) : t[k] = IF k = n THEN e ELSE s[k]
<1> DEFINE S == ToSet(s) \union {e}
<1>1. s \in Seq(S) /\ e \in S
  OBVIOUS
<1> HIDE DEF S
<1>2. /\ t \in Seq(S) /\ Len(t) = Len(s)
      /\ \A k \in 1..Len(s) : t[k] = IF k = n THEN e ELSE s[k]
  BY <1>1
<1>3. t \in Seq(ToSet(t))
  BY <1>2, OwnElements
<1> QED BY <1>2, <1>3

-----------------------------------------------------------------------------
(* One world.  The request enters at the bottom of the stack, through the  *)
(* auth handler or its endpoint; who is known on it is nobody or the one   *)
(* who asks; and a context is there only while a handler runs on its       *)
(* thread, the first of which found none.                                  *)
FrameFields == {"via", "proc", "thread", "ep", "auth", "before", "todo", "ends"}
RunFields   == {"at", "stack", "ctx", "seen", "answer"}

Shape(r) ==
  /\ RunFields \subseteq DOMAIN r
  /\ r.stack \in Seq(ToSet(r.stack)) /\ r.seen \in Seq(ToSet(r.seen))
  /\ \A k \in 1..Len(r.stack) : FrameFields \subseteq DOMAIN r.stack[k]

Entry(r) ==
  \A k \in 1..Len(r.stack) :
    LET f == r.stack[k]
    IN  /\ f.via \in IF k = 1 THEN {"auth", "edge"} ELSE {"local", "http"}
        /\ f.via = "edge" => f.ep.expose /\ (f.ep.auth => f.auth \in Users)

Identity(r, token) ==
  /\ \A k \in 1..Len(r.stack) : /\ r.stack[k].auth \in {None, token}
                                /\ r.stack[k].before \in {None, token}
  /\ \A t \in DOMAIN r.ctx : r.ctx[t] \in {None, token}
  /\ \A k \in 1..Len(r.seen) : r.seen[k].auth \in {None, token}

Contexts(r) ==
  /\ \A t \in DOMAIN r.ctx :
       \E k \in 1..Len(r.stack) : r.stack[k].thread = t /\ r.stack[k].via # "auth"
  /\ \A k \in 1..Len(r.stack) :
       \/ r.stack[k].via = "auth" \/ r.stack[k].before = None
       \/ \E j \in 1..(k - 1) : /\ r.stack[j].thread = r.stack[k].thread
                                /\ r.stack[j].via # "auth"

Held(r, token)  == Shape(r) /\ Entry(r) /\ Identity(r, token) /\ Contexts(r)
Sound(r, token) == Held(r, token) /\ (r.at = "running" <=> r.stack # <<>>)

(* The inductive invariant.                                                *)
CallsInv ==
  /\ DOMAIN run = Worlds
  /\ \A w \in Worlds : Sound(run[w], req.token)

LEMMA CallsInit == Init => CallsInv
<1> SUFFICES ASSUME Init PROVE CallsInv
  OBVIOUS
<1>1. run = [w \in Worlds |-> Idle]
  BY Zenon DEF Init
<1>2. Sound(Idle, req.token)
  BY DEF Idle, Sound, Held, Shape, Entry, Identity, Contexts, RunFields, ToSet
<1> QED BY <1>1, <1>2 DEF CallsInv

LEMMA CallsGuarded == CallsInv => EntryGuarded
<1> SUFFICES ASSUME CallsInv, NEW w \in Worlds
             PROVE  /\ \A f \in ToSet(run[w].stack) :
                         f.via = "edge" => f.ep.expose /\ (f.ep.auth => f.auth \in Users)
                    /\ \A x \in ToSet(run[w].seen) : x.auth \in {None, req.token}
  BY DEF EntryGuarded
<1> DEFINE r == run[w]
<1>1. Sound(r, req.token)
  BY DEF CallsInv
<1>2. DOMAIN r.stack = 1..Len(r.stack) /\ DOMAIN r.seen = 1..Len(r.seen)
  BY <1>1, OwnElements DEF Sound, Held, Shape
<1> QED BY <1>1, <1>2 DEF Sound, Held, Entry, Identity, ToSet

-----------------------------------------------------------------------------
(* The steps of one world, for the request of token.                       *)
LEMMA DoneSound ==
  ASSUME NEW r, NEW token, NEW status, Held(r, token), r.stack = <<>>
  PROVE  Sound(Done(r, status), token)
<1> DEFINE d == Done(r, status)
<1>1. /\ RunFields \subseteq DOMAIN d
      /\ d.at = "done" /\ d.stack = r.stack /\ d.ctx = r.ctx /\ d.seen = r.seen
  BY DEF Done, Held, Shape, RunFields
<1>2. d.at # "running" /\ d.stack = <<>>
  BY <1>1
<1> HIDE DEF d
<1>3. Sound(d, token)
  BY <1>1, <1>2 DEF Sound, Held, Shape, Entry, Identity, Contexts
<1> QED BY <1>3 DEF d

(* What a caller has still to do is nothing to the invariant.              *)
LEMMA WorkApart ==
  ASSUME NEW r, NEW token, NEW q, Held(r, token),
         RunFields \subseteq DOMAIN q, q.ctx = r.ctx, q.seen = r.seen,
         q.stack \in Seq(ToSet(q.stack)), Len(q.stack) = Len(r.stack),
         \A k \in 1..Len(r.stack) :
           /\ FrameFields \subseteq DOMAIN q.stack[k]
           /\ q.stack[k].via = r.stack[k].via /\ q.stack[k].ep = r.stack[k].ep
           /\ q.stack[k].auth = r.stack[k].auth /\ q.stack[k].before = r.stack[k].before
           /\ q.stack[k].thread = r.stack[k].thread
  PROVE  Held(q, token)
<1>1. Len(r.stack) \in Nat
  BY OwnElements DEF Held, Shape
<1>2. Shape(q)
  BY DEF Held, Shape
<1>3. Entry(q)
  BY DEF Held, Entry
<1>4. Identity(q, token)
  BY DEF Held, Identity
<1>5. Contexts(q)
  BY <1>1, SMTT(30) DEF Held, Contexts
<1> QED BY <1>2, <1>3, <1>4, <1>5 DEF Held

LEMMA ResumeSound ==
  ASSUME NEW r, NEW token, NEW outcome, Held(r, token), r.stack # <<>>, r.at = "running"
  PROVE  Sound(Resume(r, outcome), token)
<1> DEFINE q   == Resume(r, outcome)
           top == Len(r.stack)
<1>0. top \in 1..top /\ r.stack \in Seq(ToSet(r.stack))
  BY OwnElements DEF Held, Shape
<1> DEFINE goes == outcome.is = "ok" \/ (r.stack[top].ep.catches /\ outcome.is # "crash")
           todo == IF goes THEN Tail(r.stack[top].todo) ELSE <<>>
           ends == IF goes THEN r.stack[top].ends ELSE outcome
<1>1. q = [r EXCEPT !.stack = [r.stack EXCEPT ![top] =
                               [r.stack[top] EXCEPT !.todo = todo, !.ends = ends]]]
  BY <1>0 DEF Resume, Held, Shape, FrameFields, RunFields
<1> HIDE DEF goes, todo, ends
<1> DEFINE f == [r.stack[top] EXCEPT !.todo = todo, !.ends = ends]
           s == [r.stack EXCEPT ![top] = f]
<1>2. /\ FrameFields \subseteq DOMAIN f
      /\ f.via = r.stack[top].via /\ f.ep = r.stack[top].ep
      /\ f.auth = r.stack[top].auth /\ f.before = r.stack[top].before
      /\ f.thread = r.stack[top].thread
  BY <1>0 DEF FrameFields, Held, Shape
<1> HIDE DEF f
<1>3. /\ s \in Seq(ToSet(s)) /\ Len(s) = top
      /\ \A k \in 1..top : s[k] = IF k = top THEN f ELSE r.stack[k]
  <2>1. s \in Seq(ToSet(s))
    BY <1>0, Replaced, ZenonT(60)
  <2>2. Len(s) = top
    BY <1>0, Replaced
  <2>3. \A k \in 1..top : s[k] = IF k = top THEN f ELSE r.stack[k]
    BY <1>0, Replaced
  <2> QED BY <2>1, <2>2, <2>3
<1> HIDE DEF s
<1>4. q = [r EXCEPT !.stack = s]
  BY <1>1 DEF s, f
<1>5. /\ RunFields \subseteq DOMAIN q /\ q.stack = s
      /\ q.at = r.at /\ q.ctx = r.ctx /\ q.seen = r.seen
  BY <1>4 DEF Held, Shape, RunFields
<1> HIDE DEF q
<1>6. Held(q, token)
  BY <1>2, <1>3, <1>5, WorkApart DEF Held, Shape
<1>7. q.stack # <<>>
  BY <1>0, <1>3, <1>5
<1> QED BY <1>5, <1>6, <1>7 DEF Sound, q

LEMMA SetCtxIs ==
  ASSUME NEW ctx, NEW thread, NEW value
  PROVE  /\ DOMAIN SetCtx(ctx, thread, value) \subseteq DOMAIN ctx \union {thread}
         /\ value = None => DOMAIN SetCtx(ctx, thread, value) = DOMAIN ctx \ {thread}
         /\ \A t \in DOMAIN SetCtx(ctx, thread, value) :
              SetCtx(ctx, thread, value)[t] = IF t = thread THEN value ELSE ctx[t]
BY DEF SetCtx

LEMMA FrameIs ==
  ASSUME NEW r, NEW via, NEW proc, NEW thread, NEW ep, NEW auth
  PROVE  LET f == Frame(r, via, proc, thread, ep, auth)
         IN  /\ FrameFields \subseteq DOMAIN f
             /\ f.via = via /\ f.thread = thread /\ f.ep = ep /\ f.auth = auth
             /\ f.before = Ctx(r, thread)
BY DEF Frame, FrameFields

LEMMA CtxIs ==
  ASSUME NEW r, NEW token, NEW thread, Held(r, token)
  PROVE  /\ Ctx(r, thread) \in {None, token}
         /\ Ctx(r, thread) # None => thread \in DOMAIN r.ctx
BY DEF Ctx, Held, Identity

LEMMA EnterSound ==
  ASSUME NEW r, NEW token, Held(r, token), NEW via, NEW proc, NEW thread, NEW ep,
         NEW auth \in {None, token}, NEW arg,
         IF r.stack = <<>> THEN via = "edge" ELSE via \in {"local", "http"},
         r.stack # <<>> => r.at = "running",
         via = "edge" => ep.expose /\ (ep.auth => auth \in Users)
  PROVE  Sound(Enter(r, via, proc, thread, ep, auth, arg), token)
<1> DEFINE f == Frame(r, via, proc, thread, ep, auth)
           x == [fn |-> ep.fn, auth |-> auth, arg |-> arg]
           n == Len(r.stack)
           q == [r EXCEPT !.at = "running", !.stack = Append(@, f),
                          !.ctx = SetCtx(@, thread, auth), !.seen = Append(@, x)]
<1>1. CASE arg = "refused"
  <2>1. CASE via = "edge"
    BY <1>1, <2>1, DoneSound DEF Enter
  <2>2. CASE via # "edge"
    BY <1>1, <2>2, ResumeSound DEF Enter
  <2> QED BY <2>1, <2>2
<1>2. CASE arg # "refused"
  <2>1. Enter(r, via, proc, thread, ep, auth, arg) = q
    BY <1>2 DEF Enter
  <2>2. /\ RunFields \subseteq DOMAIN q
        /\ q.at = "running" /\ q.stack = Append(r.stack, f)
        /\ q.ctx = SetCtx(r.ctx, thread, auth) /\ q.seen = Append(r.seen, x)
    BY DEF Held, Shape, RunFields
  <2> HIDE DEF q
  <2>3. /\ FrameFields \subseteq DOMAIN f
        /\ f.via = via /\ f.thread = thread /\ f.ep = ep /\ f.auth = auth
        /\ f.before \in {None, token}
        /\ f.before # None => thread \in DOMAIN r.ctx
    BY FrameIs, CtxIs
  <2> HIDE DEF f
  <2>4. /\ q.stack \in Seq(ToSet(q.stack)) /\ n \in Nat /\ Len(q.stack) = n + 1
        /\ \A k \in 1..n : q.stack[k] = r.stack[k]
        /\ q.stack[n + 1] = f
    BY <2>2, Appended, OwnElements DEF Held, Shape
  <2>5. /\ q.seen \in Seq(ToSet(q.seen)) /\ Len(q.seen) = Len(r.seen) + 1
        /\ \A k \in 1..Len(r.seen) : q.seen[k] = r.seen[k]
        /\ q.seen[Len(r.seen) + 1].auth = auth /\ Len(r.seen) \in Nat
    BY <2>2, Appended, OwnElements DEF Held, Shape
  <2>6. /\ DOMAIN q.ctx \subseteq DOMAIN r.ctx \union {thread}
        /\ \A t \in DOMAIN q.ctx : q.ctx[t] = IF t = thread THEN auth ELSE r.ctx[t]
    <3>1. DOMAIN q.ctx \subseteq DOMAIN r.ctx \union {thread}
      BY <2>2, SetCtxIs
    <3>2. \A t \in DOMAIN q.ctx : q.ctx[t] = IF t = thread THEN auth ELSE r.ctx[t]
      BY <2>2, SMT DEF SetCtx
    <3> QED BY <3>1, <3>2
  <2>7. Shape(q)
    BY <2>2, <2>3, <2>4, <2>5 DEF Held, Shape
  <2>8. Entry(q)
    <3>1. n = 0 <=> r.stack = <<>>
      BY OwnElements DEF Held, Shape
    <3>2. ASSUME NEW k \in 1..n
          PROVE  /\ q.stack[k].via \in IF k = 1 THEN {"auth", "edge"} ELSE {"local", "http"}
                 /\ q.stack[k].via = "edge" =>
                      q.stack[k].ep.expose /\ (q.stack[k].ep.auth => q.stack[k].auth \in Users)
      BY <2>4 DEF Held, Entry
    <3>3. f.via \in IF n + 1 = 1 THEN {"auth", "edge"} ELSE {"local", "http"}
      BY <2>3, <2>4, <3>1
    <3> QED BY <2>3, <2>4, <3>2, <3>3 DEF Entry
  <2>9. Identity(q, token)
    <3>1. \A k \in 1..Len(q.stack) : /\ q.stack[k].auth \in {None, token}
                                     /\ q.stack[k].before \in {None, token}
      BY <2>3, <2>4, SMTT(30) DEF Held, Identity
    <3>2. \A t \in DOMAIN q.ctx : q.ctx[t] \in {None, token}
      BY <2>6 DEF Held, Identity
    <3>3. \A k \in 1..Len(q.seen) : q.seen[k].auth \in {None, token}
      BY <2>5, SMTT(30) DEF Held, Identity
    <3> QED BY <3>1, <3>2, <3>3 DEF Identity
  <2>10. Contexts(q)
    <3>1. via # "auth"
      OBVIOUS
    <3>2. ASSUME NEW t \in DOMAIN q.ctx
          PROVE  \E k \in 1..Len(q.stack) : q.stack[k].thread = t /\ q.stack[k].via # "auth"
      <4>1. CASE t = thread
        BY <2>3, <2>4, <3>1, <4>1
      <4>2. CASE t # thread
        <5>1. PICK k \in 1..n : r.stack[k].thread = t /\ r.stack[k].via # "auth"
          BY <2>6, <3>2, <4>2 DEF Held, Contexts
        <5> QED BY <2>4, <5>1
      <4> QED BY <4>1, <4>2
    <3>3. ASSUME NEW k \in 1..Len(q.stack)
          PROVE  \/ q.stack[k].via = "auth" \/ q.stack[k].before = None
                 \/ \E j \in 1..(k - 1) : /\ q.stack[j].thread = q.stack[k].thread
                                          /\ q.stack[j].via # "auth"
      <4>1. CASE k \in 1..n
        <5>1. \/ r.stack[k].via = "auth" \/ r.stack[k].before = None
              \/ \E j \in 1..(k - 1) : /\ r.stack[j].thread = r.stack[k].thread
                                       /\ r.stack[j].via # "auth"
          BY <4>1 DEF Held, Contexts
        <5>2. q.stack[k] = r.stack[k] /\ \A j \in 1..(k - 1) : q.stack[j] = r.stack[j]
          BY <2>4, <4>1
        <5> QED BY <5>1, <5>2
      <4>2. CASE k = n + 1 /\ f.before # None
        <5>1. PICK j \in 1..n : r.stack[j].thread = thread /\ r.stack[j].via # "auth"
          BY <2>3, <4>2 DEF Held, Contexts
        <5> QED BY <2>3, <2>4, <4>2, <5>1
      <4> QED BY <2>4, <4>1, <4>2
    <3> QED BY <3>2, <3>3 DEF Contexts
  <2>11. q.stack # <<>>
    BY <2>4
  <2> QED BY <2>1, <2>2, <2>7, <2>8, <2>9, <2>10, <2>11 DEF Sound, Held
<1> QED BY <1>1, <1>2


(* A handler that ends leaves its thread as it found it.                   *)
LEMMA LeaveHeld ==
  ASSUME NEW r, NEW token, Held(r, token), r.stack # <<>>
  PROVE  LET f == Last(r.stack)
         IN  /\ Held(Leave(r), token) /\ Leave(r).at = r.at
             /\ f = r.stack[Len(r.stack)]
             /\ f.via \in {"auth", "edge"} => Leave(r).stack = <<>>
             /\ f.via \in {"local", "http"} => Leave(r).stack # <<>>
<1> DEFINE n == Len(r.stack)
           f == r.stack[n]
           q == Leave(r)
<1>1. /\ r.stack \in Seq(ToSet(r.stack)) /\ n \in Nat /\ n \in 1..n
      /\ Last(r.stack) = f
  BY WithoutLast, OwnElements DEF Held, Shape
<1>2. /\ RunFields \subseteq DOMAIN q /\ q.at = r.at /\ q.seen = r.seen
      /\ q.stack = Front(r.stack)
      /\ q.ctx = IF f.via = "auth" THEN r.ctx ELSE SetCtx(r.ctx, f.thread, f.before)
  BY <1>1 DEF Leave, Held, Shape, RunFields
<1> HIDE DEF q
<1>3. /\ q.stack \in Seq(ToSet(q.stack)) /\ Len(q.stack) = n - 1
      /\ \A k \in 1..(n - 1) : q.stack[k] = r.stack[k]
  BY <1>1, <1>2, WithoutLast
<1>4. f.via \in IF n = 1 THEN {"auth", "edge"} ELSE {"local", "http"}
  BY <1>1 DEF Held, Entry
<1>5. q.stack = <<>> <=> n = 1
  <2>1. q.stack = <<>> <=> Len(q.stack) = 0
    BY <1>3, OwnElements
  <2> QED BY <1>1, <1>3, <2>1
<1>6. ASSUME NEW t \in DOMAIN q.ctx
      PROVE  /\ q.ctx[t] \in {None, token}
             /\ \E k \in 1..(n - 1) : r.stack[k].thread = t /\ r.stack[k].via # "auth"
  <2>1. CASE f.via = "auth"
    <3>1. t \in DOMAIN r.ctx /\ n = 1
      BY <1>2, <1>4, <1>6, <2>1
    <3>2. \E k \in 1..n : r.stack[k].thread = t /\ r.stack[k].via # "auth"
      BY <3>1 DEF Held, Contexts
    <3> QED BY <2>1, <3>1, <3>2
  <2>2. CASE f.via # "auth" /\ t = f.thread
    <3>1. q.ctx[t] = f.before
      BY <1>2, <1>6, <2>2, SMT DEF SetCtx
    <3>2. f.before # None
      BY <1>2, <1>6, <2>2, SMT DEF SetCtx
    <3> QED BY <1>1, <2>2, <3>1, <3>2 DEF Held, Identity, Contexts
  <2>3. CASE f.via # "auth" /\ t # f.thread
    <3>1. t \in DOMAIN r.ctx /\ q.ctx[t] = r.ctx[t]
      BY <1>2, <1>6, <2>3, SMT DEF SetCtx
    <3>2. PICK k \in 1..n : r.stack[k].thread = t /\ r.stack[k].via # "auth"
      BY <3>1 DEF Held, Contexts
    <3>3. k \in 1..(n - 1)
      BY <1>1, <2>3, <3>2
    <3> QED BY <3>1, <3>2, <3>3 DEF Held, Identity
  <2> QED BY <2>1, <2>2, <2>3
<1>7. Shape(q)
  <2>1. ASSUME NEW k \in 1..Len(q.stack) PROVE FrameFields \subseteq DOMAIN q.stack[k]
    <3>1. k \in 1..n /\ q.stack[k] = r.stack[k]
      BY <1>1, <1>3
    <3> QED BY <3>1 DEF Held, Shape
  <2>2. q.seen \in Seq(ToSet(q.seen))
    BY <1>2 DEF Held, Shape
  <2> QED BY <1>2, <1>3, <2>1, <2>2 DEF Shape
<1>8. Entry(q)
  <2>1. ASSUME NEW k \in 1..Len(q.stack)
        PROVE  k \in 1..n /\ q.stack[k] = r.stack[k]
    BY <1>1, <1>3
  <2> QED BY <2>1 DEF Held, Entry
<1>9. Identity(q, token)
  <2>1. ASSUME NEW k \in 1..Len(q.stack)
        PROVE  q.stack[k].auth \in {None, token} /\ q.stack[k].before \in {None, token}
    <3>1. k \in 1..n /\ q.stack[k] = r.stack[k]
      BY <1>1, <1>3
    <3> QED BY <3>1 DEF Held, Identity
  <2>2. \A k \in 1..Len(q.seen) : q.seen[k].auth \in {None, token}
    BY <1>2 DEF Held, Identity
  <2> QED BY <1>6, <2>1, <2>2 DEF Identity
<1>10. Contexts(q)
  <2>1. \A t \in DOMAIN q.ctx :
          \E k \in 1..Len(q.stack) : q.stack[k].thread = t /\ q.stack[k].via # "auth"
    BY <1>3, <1>6, SMTT(30)
  <2>2. ASSUME NEW k \in 1..Len(q.stack)
        PROVE  \/ q.stack[k].via = "auth" \/ q.stack[k].before = None
               \/ \E j \in 1..(k - 1) : /\ q.stack[j].thread = q.stack[k].thread
                                        /\ q.stack[j].via # "auth"
    <3>1. /\ k \in 1..n /\ q.stack[k] = r.stack[k]
          /\ \A j \in 1..(k - 1) : q.stack[j] = r.stack[j]
      BY <1>1, <1>3
    <3>2. \/ r.stack[k].via = "auth" \/ r.stack[k].before = None
          \/ \E j \in 1..(k - 1) : /\ r.stack[j].thread = r.stack[k].thread
                                   /\ r.stack[j].via # "auth"
      BY <3>1 DEF Held, Contexts
    <3> QED BY <3>1, <3>2
  <2> QED BY <2>1, <2>2 DEF Contexts
<1> QED BY <1>1, <1>2, <1>4, <1>5, <1>7, <1>8, <1>9, <1>10 DEF Held, q

(* An empty stack: nobody is known anywhere.                               *)
LEMMA NobodyLeft ==
  ASSUME NEW r, NEW token, Held(r, token), r.stack = <<>>
  PROVE  DOMAIN r.ctx = {} /\ \A thread : Ctx(r, thread) = None
BY DEF Held, Contexts, Ctx

LEMMA AuthenticateSound ==
  ASSUME NEW r, Held(r, req.token), r.stack = <<>>, NEW proc
  PROVE  Sound(Authenticate(r, proc), req.token)
<1>1. CASE ~HasHandler(app) \/ req.token = None
  BY <1>1, DoneSound DEF Authenticate
<1>2. CASE HasHandler(app) /\ req.token # None
  <2> DEFINE thread == Thread(r, proc)
             f == Frame(r, "auth", proc, thread, Handler(app), None)
             q == [r EXCEPT !.at = "running", !.stack = <<f>>]
  <2>1. Authenticate(r, proc) = q
    BY <1>2 DEF Authenticate
  <2>2. /\ RunFields \subseteq DOMAIN q /\ q.at = "running"
        /\ q.stack = <<f>> /\ q.ctx = r.ctx /\ q.seen = r.seen
    BY DEF Held, Shape, RunFields
  <2> HIDE DEF q, thread
  <2>3. FrameFields \subseteq DOMAIN f /\ f.via = "auth" /\ f.auth = None /\ f.before = None
    BY FrameIs, NobodyLeft
  <2> HIDE DEF f
  <2>4. /\ q.stack \in Seq(ToSet(q.stack)) /\ Len(q.stack) = 1 /\ q.stack[1] = f
        /\ q.stack # <<>>
    BY <2>2 DEF ToSet
  <2>5. DOMAIN q.ctx = {}
    BY <2>2, NobodyLeft
  <2>6. Shape(q)
    BY <2>2, <2>3, <2>4 DEF Held, Shape
  <2>7. Entry(q)
    BY <2>3, <2>4 DEF Entry
  <2>8. Identity(q, req.token)
    BY <2>2, <2>3, <2>4, <2>5 DEF Held, Identity
  <2>9. Contexts(q)
    BY <2>3, <2>4, <2>5 DEF Contexts
  <2> QED BY <2>1, <2>2, <2>4, <2>6, <2>7, <2>8, <2>9 DEF Sound, Held
<1> QED BY <1>1, <1>2

LEMMA AdmitSound ==
  ASSUME NEW r, Held(r, req.token), r.stack = <<>>, NEW proc,
         NEW identity \in {None, req.token}, identity \in Users \/ identity = None
  PROVE  Sound(Admit(r, proc, identity), req.token)
<1> DEFINE hits == Hit(app, proc, req.path, req.method)
           ep   == CHOOSE e \in hits : TRUE
           status == IF Found(app, proc, req.path) = {} THEN 404 ELSE 405
<1>1. hits # {} => ep \in hits
  OBVIOUS
<1>2. \A e \in hits : e.expose
  BY DEF Hit, Found
<1> HIDE DEF hits, ep, status
<1>3. Admit(r, proc, identity) =
        CASE hits = {} -> Done(r, status)
          [] hits # {} /\ ep.auth /\ identity = None -> Done(r, 401)
          [] OTHER -> Enter(r, "edge", proc, Thread(r, proc), ep, identity, req.arg)
  BY DEF Admit, hits, ep, status
<1>4. CASE hits = {}
  BY <1>3, <1>4, DoneSound
<1>5. CASE hits # {} /\ ep.auth /\ identity = None
  BY <1>3, <1>5, DoneSound
<1>6. CASE hits # {} /\ ~(ep.auth /\ identity = None)
  <2>1. Admit(r, proc, identity) =
          Enter(r, "edge", proc, Thread(r, proc), ep, identity, req.arg)
    BY <1>3, <1>6
  <2>2. ep.expose /\ (ep.auth => identity \in Users)
    BY <1>1, <1>2, <1>6
  <2> QED BY <2>1, <2>2, EnterSound
<1> QED BY <1>4, <1>5, <1>6


LEMMA CallLocalSound ==
  ASSUME NEW r, NEW token, Sound(r, token), r.at = "running", NEW f, NEW c
  PROVE  Sound(CallLocal(r, f, c), token)
<1>1. Held(r, token) /\ r.stack # <<>>
  BY DEF Sound
<1>2. ASSUME NEW outcome PROVE Sound(Resume(r, outcome), token)
  BY <1>1, ResumeSound
<1>3. ASSUME NEW ep
      PROVE  Sound(Enter(r, "local", f.proc, f.thread, ep, Ctx(r, f.thread), c.arg), token)
  BY <1>1, CtxIs, EnterSound
<1>4. \E outcome, ep :
        \/ CallLocal(r, f, c) = Resume(r, outcome)
        \/ CallLocal(r, f, c) =
             Enter(r, "local", f.proc, f.thread, ep, Ctx(r, f.thread), c.arg)
  <2> DEFINE fits == {x \in Served(app, c.svc) : x.decl.fn = c.fn}
             ep == First(fits).decl
  <2>1. CallLocal(r, f, c) =
          CASE fits = {} -> Resume(r, APIError(404))
            [] fits # {} /\ ep.stream -> Resume(r, APIError(501))
            [] OTHER -> Enter(r, "local", f.proc, f.thread, ep, Ctx(r, f.thread), c.arg)
    BY Zenon DEF CallLocal
  <2> HIDE DEF fits, ep
  <2> QED BY <2>1
<1> QED BY <1>2, <1>3, <1>4

LEMMA CallHttpSound ==
  ASSUME NEW r, NEW token, Sound(r, token), r.at = "running", NEW f, NEW c
  PROVE  Sound(CallHttp(r, f, c), token)
<1> DEFINE thread == Thread(r, c.svc)
<1>1. Held(r, token) /\ r.stack # <<>>
  BY DEF Sound
<1>2. ASSUME NEW outcome PROVE Sound(Resume(r, outcome), token)
  BY <1>1, ResumeSound
<1>3. ASSUME NEW ep, NEW auth \in {None, Ctx(r, f.thread)}
      PROVE  Sound(Enter(r, "http", c.svc, thread, ep, auth, Sent(c.arg)), token)
  <2>1. auth \in {None, token}
    BY <1>1, <1>3, CtxIs
  <2> HIDE DEF thread
  <2> QED BY <1>1, <2>1, EnterSound
<1>4. \E outcome, ep : \E auth \in {None, Ctx(r, f.thread)} :
        \/ CallHttp(r, f, c) = Resume(r, outcome)
        \/ CallHttp(r, f, c) = Enter(r, "http", c.svc, thread, ep, auth, Sent(c.arg))
  <2> DEFINE fits == {x \in Served(app, c.svc) : x.decl.fn = c.fn /\ ~x.decl.stream}
             ep == Latest(fits).decl
             identity == Ctx(r, f.thread)
             auth == IF ep.auth THEN identity ELSE None
  <2>1. CallHttp(r, f, c) =
          CASE fits = {} -> Resume(r, APIError(404))
            [] fits # {} /\ ep.auth /\ identity = None -> Resume(r, APIError(401))
            [] OTHER -> Enter(r, "http", c.svc, thread, ep, auth, Sent(c.arg))
    BY Zenon DEF CallHttp
  <2>2. auth \in {None, Ctx(r, f.thread)}
    OBVIOUS
  <2> HIDE DEF fits, ep, identity, auth
  <2> QED BY <2>1, <2>2
<1> QED BY <1>2, <1>3, <1>4

-----------------------------------------------------------------------------
(* A step of a world, as a function of how far the request is in it.       *)
Guarded == \E ep \in Hit(app, "app", req.path, req.method) : ep.auth

Edge(w, r) ==
  IF w = "mono" THEN IF Guarded THEN Authenticate(r, "app") ELSE Admit(r, "app", None)
  ELSE LET picked == PickRoute(Routes, req.path)
       IN  CASE picked = {} -> Done(r, 404)
             [] \E route \in picked : route.auth -> Authenticate(r, "gateway")
             [] OTHER -> Admit(r, Upstream, None)

Called(w, r) ==
  LET f == Last(r.stack)
      c == Head(f.todo)
  IN  IF w = "services" /\ c.svc \in topo.known
      THEN CallHttp(r, f, c) ELSE CallLocal(r, f, c)

Returned(w, r) ==
  LET f == Last(r.stack)
      left == Leave(r)
  IN  CASE f.via \in {"local", "http"} -> Resume(left, Received(f.via, f.ends))
        [] f.via = "edge" -> Done(left, IF f.ep.stream THEN 200 ELSE f.ends.status)
        [] f.via = "auth" /\ f.ends # Ok -> Done(left, f.ends.status)
        [] f.via = "auth" /\ f.ends = Ok /\ req.token \notin Users -> Done(left, 401)
        [] OTHER -> Admit(left, IF w = "mono" THEN "app" ELSE Upstream, req.token)

After(w, r) ==
  CASE r.at = "edge" -> Edge(w, r)
    [] r.at = "running" /\ Last(r.stack).todo # <<>> -> Called(w, r)
    [] r.at = "running" /\ Last(r.stack).todo = <<>> -> Returned(w, r)

Steps(w) ==
  \/ (IF w = "mono" THEN EdgeMono ELSE EdgeGateway)
  \/ Call(w) \/ Return(w)

LEMMA StepIs ==
  ASSUME NEW w \in Worlds, Steps(w)
  PROVE  run[w].at \in {"edge", "running"} /\ Set(w, After(w, run[w]))
<1> DEFINE r == run[w]
<1>1. CASE w = "mono" /\ EdgeMono
  <2>1. r.at = "edge" /\ Set(w, Edge(w, r))
    BY <1>1, Zenon DEF EdgeMono, Edge, Guarded
  <2> QED BY <2>1 DEF After
<1>2. CASE w = "services" /\ EdgeGateway
  <2>1. w # "mono"
    BY <1>2
  <2>2. r.at = "edge" /\ Set(w, Edge(w, r))
    BY <1>2, <2>1, Zenon DEF EdgeGateway, Edge
  <2> QED BY <2>2 DEF After
<1>3. CASE Call(w)
  <2>1. r.at = "running" /\ Last(r.stack).todo # <<>> /\ Set(w, Called(w, r))
    BY <1>3, Zenon DEF Call, Called
  <2>2. After(w, r) = Called(w, r)
    BY <2>1 DEF After
  <2> QED BY <2>1, <2>2
<1>4. CASE Return(w)
  <2>1. r.at = "running" /\ Last(r.stack).todo = <<>> /\ Set(w, Returned(w, r))
    BY <1>4, Zenon DEF Return, Returned
  <2>2. After(w, r) = Returned(w, r)
    BY <2>1 DEF After
  <2> QED BY <2>1, <2>2
<1> QED BY <1>1, <1>2, <1>3, <1>4 DEF Steps, Worlds

LEMMA ReturnedSound ==
  ASSUME NEW w, NEW r, Sound(r, req.token), r.at = "running"
  PROVE  Sound(Returned(w, r), req.token)
<1> DEFINE f == Last(r.stack)
           left == Leave(r)
           proc == IF w = "mono" THEN "app" ELSE Upstream
           received == Received(f.via, f.ends)
           status == IF f.ep.stream THEN 200 ELSE f.ends.status
           q == CASE f.via \in {"local", "http"} -> Resume(left, received)
                  [] f.via = "edge" -> Done(left, status)
                  [] f.via = "auth" /\ f.ends # Ok -> Done(left, f.ends.status)
                  [] f.via = "auth" /\ f.ends = Ok /\ req.token \notin Users -> Done(left, 401)
                  [] OTHER -> Admit(left, proc, req.token)
<1>1. Returned(w, r) = q
  BY Zenon DEF Returned
<1>2. Held(r, req.token) /\ r.stack # <<>>
  BY DEF Sound
<1> HIDE DEF proc, received, status
<1>3. /\ Held(left, req.token) /\ left.at = "running"
      /\ f.via \in {"auth", "edge"} => left.stack = <<>>
      /\ f.via \in {"local", "http"} => left.stack # <<>>
  BY <1>2, LeaveHeld
<1>4. f.via \in {"auth", "edge", "local", "http"}
  <2>1. f = r.stack[Len(r.stack)] /\ Len(r.stack) \in 1..Len(r.stack)
    BY <1>2, WithoutLast DEF Held, Shape
  <2> QED BY <1>2, <2>1 DEF Held, Entry
<1> HIDE DEF f, left
<1>5. CASE f.via \in {"local", "http"}
  <2>1. q = Resume(left, received)
    BY <1>5
  <2> QED BY <1>1, <1>3, <1>5, <2>1, ResumeSound
<1>6. CASE f.via \in {"auth", "edge"} /\ ~(f.via = "auth" /\ f.ends = Ok /\ req.token \in Users)
  <2>1. \E s : q = Done(left, s)
    BY <1>6
  <2> QED BY <1>1, <1>3, <1>6, <2>1, DoneSound
<1>7. CASE f.via = "auth" /\ f.ends = Ok /\ req.token \in Users
  <2>1. q = Admit(left, proc, req.token)
    BY <1>7
  <2> QED BY <1>1, <1>3, <1>7, <2>1, AdmitSound
<1> QED BY <1>4, <1>5, <1>6, <1>7

LEMMA EdgeSound ==
  ASSUME NEW w, NEW r, Sound(r, req.token), r.at = "edge"
  PROVE  Sound(Edge(w, r), req.token)
<1>1. Held(r, req.token) /\ r.stack = <<>>
  BY DEF Sound
<1>2. \/ \E status : Edge(w, r) = Done(r, status)
      \/ \E proc : Edge(w, r) = Authenticate(r, proc)
      \/ \E proc : Edge(w, r) = Admit(r, proc, None)
  <2> DEFINE picked == PickRoute(Routes, req.path)
             protected == \E route \in picked : route.auth
             q == CASE picked = {} -> Done(r, 404)
                    [] protected -> Authenticate(r, "gateway")
                    [] OTHER -> Admit(r, Upstream, None)
  <2>1. Edge(w, r) = IF w = "mono"
                     THEN IF Guarded THEN Authenticate(r, "app") ELSE Admit(r, "app", None)
                     ELSE q
    BY Zenon DEF Edge
  <2>2. \/ q = Done(r, 404) \/ q = Authenticate(r, "gateway") \/ q = Admit(r, Upstream, None)
    <3> HIDE DEF picked, protected
    <3>1. CASE picked = {}
      BY <3>1
    <3>2. CASE picked # {} /\ protected
      BY <3>2
    <3>3. CASE picked # {} /\ ~protected
      BY <3>3
    <3> QED BY <3>1, <3>2, <3>3
  <2> HIDE DEF q
  <2> QED BY <2>1, <2>2
<1> QED BY <1>1, <1>2, DoneSound, AuthenticateSound, AdmitSound

LEMMA AfterSound ==
  ASSUME NEW w, NEW r, Sound(r, req.token), r.at \in {"edge", "running"}
  PROVE  Sound(After(w, r), req.token)
<1>1. CASE r.at = "edge"
  <2>1. After(w, r) = Edge(w, r)
    BY <1>1 DEF After
  <2> QED BY <1>1, <2>1, EdgeSound
<1>2. CASE r.at = "running" /\ Last(r.stack).todo # <<>>
  <2>1. After(w, r) = Called(w, r)
    BY <1>2 DEF After
  <2>2. Sound(Called(w, r), req.token)
    BY <1>2, CallHttpSound, CallLocalSound DEF Called
  <2> QED BY <2>1, <2>2
<1>3. CASE r.at = "running" /\ Last(r.stack).todo = <<>>
  <2>1. After(w, r) = Returned(w, r)
    BY <1>3 DEF After
  <2> QED BY <1>3, <2>1, ReturnedSound
<1> QED BY <1>1, <1>2, <1>3

-----------------------------------------------------------------------------
(* The steps of a request keep the invariant.                              *)
LEMMA SetKeeps ==
  ASSUME CallsInv, NEW w \in Worlds, NEW r, Set(w, r), Sound(r, req.token)
  PROVE  CallsInv'
<1>1. run' = [run EXCEPT ![w] = r] /\ req' = req
  BY Zenon DEF Set
<1>2. DOMAIN run' = Worlds
  BY <1>1 DEF CallsInv
<1>3. ASSUME NEW v \in Worlds PROVE Sound(run'[v], req'.token)
  <2>1. run'[v] = IF v = w THEN r ELSE run[v]
    BY <1>1 DEF CallsInv
  <2> QED BY <1>1, <2>1 DEF CallsInv
<1> QED BY <1>2, <1>3 DEF CallsInv

LEMMA ArriveKeeps ==
  ASSUME CallsInv, NEW path, NEW method, NEW token, NEW arg,
         Arrive(path, method, token, arg)
  PROVE  CallsInv'
<1>1. /\ req' = [path |-> path, method |-> method, token |-> token, arg |-> arg]
      /\ run' = [w \in Worlds |-> [Idle EXCEPT !.at = "edge", !.ctx = run[w].ctx]]
  BY Zenon DEF Arrive
<1>2. req'.token = token /\ DOMAIN run' = Worlds
  BY <1>1
<1>3. ASSUME NEW w \in Worlds PROVE Sound(run'[w], req'.token)
  <2>1. run[w].at \in {"idle", "done"}
    BY Zenon DEF Arrive
  <2>2. Held(run[w], req.token) /\ run[w].stack = <<>>
    BY <2>1 DEF CallsInv, Sound
  <2>3. DOMAIN run[w].ctx = {}
    BY <2>2, NobodyLeft
  <2> DEFINE q == run'[w]
  <2>4. /\ RunFields \subseteq DOMAIN q /\ q.at = "edge" /\ q.stack = <<>>
        /\ q.seen = <<>> /\ DOMAIN q.ctx = {}
    BY <1>1, <2>3 DEF Idle, RunFields
  <2> HIDE DEF q
  <2>5. q.at # "running"
    BY <2>4
  <2>6. Sound(q, token)
    BY <2>4, <2>5 DEF Sound, Held, Shape, Entry, Identity, Contexts, ToSet
  <2> QED BY <1>2, <2>6 DEF q
<1> QED BY <1>2, <1>3 DEF CallsInv

LEMMA NextIs ==
  ASSUME Next
  PROVE  \/ \E path \in Paths, method \in Methods, token \in Users \union {Forged, None},
               arg \in {"str", "refused"} : Arrive(path, method, token, arg)
         \/ Steps("mono")
         \/ run["mono"].at = "done" /\ Steps("services")
<1>1. "services" # "mono"
  OBVIOUS
<1>2. CASE EdgeMono \/ Call("mono") \/ Return("mono")
  BY <1>2, Zenon DEF Steps
<1>3. CASE run["mono"].at = "done" /\ (EdgeGateway \/ Call("services") \/ Return("services"))
  BY <1>1, <1>3, Zenon DEF Steps
<1> QED BY <1>2, <1>3, Zenon DEF Next

LEMMA CallsInductive == CallsInv /\ [Next]_vars => CallsInv'
<1> SUFFICES ASSUME CallsInv, [Next]_vars PROVE CallsInv'
  OBVIOUS
<1>1. CASE \E path \in Paths, method \in Methods, token \in Users \union {Forged, None},
              arg \in {"str", "refused"} : Arrive(path, method, token, arg)
  BY <1>1, ArriveKeeps
<1>2. ASSUME NEW w \in Worlds, Steps(w) PROVE CallsInv'
  <2>1. run[w].at \in {"edge", "running"} /\ Set(w, After(w, run[w]))
    BY <1>2, StepIs
  <2>2. Sound(After(w, run[w]), req.token)
    BY <2>1, AfterSound DEF CallsInv
  <2> QED BY <2>1, <2>2, SetKeeps
<1>3. CASE UNCHANGED vars
  BY <1>3 DEF vars, CallsInv
<1>4. "mono" \in Worlds /\ "services" \in Worlds
  BY DEF Worlds
<1>5. CASE Next
  BY <1>1, <1>2, <1>4, <1>5, NextIs
<1> QED BY <1>3, <1>5

(* Whatever the application and wherever its services run: a request       *)
(* enters only an exposed endpoint, a protected one only as somebody the   *)
(* auth handler knows (server.rs, resolve_inbound_auth and the gateway's   *)
(* routes), and every handler runs for nobody or for the one who asks: the *)
(* wrapper of @api leaves no identity on a thread (api.py:280-284), and    *)
(* call() carries the caller's own.                                        *)
THEOREM EntryIsGuarded == Spec => []EntryGuarded
<1>1. Init => CallsInv
  BY CallsInit
<1>2. CallsInv /\ [Next]_vars => CallsInv'
  BY CallsInductive
<1>3. CallsInv => EntryGuarded
  BY CallsGuarded
<1> QED BY <1>1, <1>2, <1>3, PTL DEF Spec

-----------------------------------------------------------------------------
(* What is read of an application and what importing it declares.  The     *)
(* application is one of Apps, and no request changes it.                  *)
AppInv == app \in Apps

LEMMA AppStays == Spec => []AppInv
<1>1. Init => AppInv
  BY DEF Init, AppInv
<1>2. ASSUME [Next]_vars PROVE app' = app
  <2>1. ASSUME NEW path, NEW method, NEW token, NEW arg,
         Arrive(path, method, token, arg) PROVE app' = app
    BY <2>1 DEF Arrive
  <2>2. ASSUME NEW w \in Worlds, Steps(w) PROVE app' = app
    BY <2>2, StepIs DEF Set
  <2>3. CASE Next
    BY <2>1, <2>2, <2>3, NextIs DEF Worlds
  <2>4. CASE UNCHANGED vars
    BY <2>4 DEF vars
  <2> QED BY <1>2, <2>3, <2>4
<1>3. AppInv /\ [Next]_vars => AppInv'
  BY <1>2 DEF AppInv
<1> QED BY <1>1, <1>3, PTL DEF Spec

LEMMA InUnion ==
  ASSUME NEW S, NEW x
  PROVE  x \in UNION S <=> \E s \in S : x \in s
OBVIOUS

LEMMA LineIn ==
  ASSUME NEW a, NEW m, NEW files, NEW x
  PROVE  x \in Lines(a, m, files) <=>
           \E k \in files : \E d \in DOMAIN Inside(a[m])[k].own : x = Line(a, m, k, d)
<1> DEFINE F(k) == {Line(a, m, k, d) : d \in DOMAIN Inside(a[m])[k].own}
           all == {F(k) : k \in files}
<1>1. Lines(a, m, files) = UNION all
  BY Zenon DEF Lines
<1>2. x \in UNION all <=> \E s \in all : x \in s
  <2> HIDE DEF all
  <2> QED BY InUnion
<1>3. (\E s \in all : x \in s) <=> \E k \in files : x \in F(k)
  <2> HIDE DEF F
  <2> QED OBVIOUS
<1>4. \A k : x \in F(k) <=> \E d \in DOMAIN Inside(a[m])[k].own : x = Line(a, m, k, d)
  OBVIOUS
<1> QED BY <1>1, <1>2, <1>3, <1>4, Zenon

LEMMA LineFields ==
  ASSUME NEW a, NEW m, NEW k, NEW d
  PROVE  /\ Line(a, m, k, d).place = <<m, k, d>>
         /\ Line(a, m, k, d).module = Inside(a[m])[k].at
         /\ Line(a, m, k, d).decl = Inside(a[m])[k].own[d]
BY DEF Line

(* Importing reads no file that `check` does not.                          *)
LEMMA ImportedRead ==
  ASSUME NEW a, NEW kind, NEW x \in Declared(a, kind)
  PROVE  \E m \in Visible(a) :
           x \in Kind(Lines(a, m, DOMAIN Inside(a[m])), kind)
<1>1. PICK m \in Visible(a) : x \in Kind(Lines(a, m, Imported(a[m])), kind)
  BY Zenon DEF Declared
<1>2. Imported(a[m]) \subseteq DOMAIN Inside(a[m])
  BY Zenon DEF Imported
<1>3. x \in Lines(a, m, Imported(a[m])) /\ x.decl.is = kind
  BY <1>1 DEF Kind
<1>4. x \in Lines(a, m, DOMAIN Inside(a[m]))
  BY <1>2, <1>3, LineIn
<1> QED BY <1>3, <1>4 DEF Kind

LEMMA MetaIs ==
  ASSUME NEW a
  PROVE  /\ \A rpc : rpc \in Meta(a).rpcs <=>
               \E m \in Visible(a) : \E e \in Extract(a, m).endpoints :
                  rpc = Rpc(Extract(a, m).service, e.decl)
         /\ Meta(a).resources = UNION {Extract(a, m).resources : m \in Visible(a)}
         /\ Meta(a).auth_handler = \E m \in Visible(a) : Extract(a, m).auth
<1> DEFINE rpcs == UNION {{Rpc(x.service, e.decl) : e \in x.endpoints} : x \in Extracted(a)}
           res == UNION {Extract(a, m).resources : m \in Visible(a)}
           auth == \E m \in Visible(a) : Extract(a, m).auth
<1>1. ASSUME NEW rpc
      PROVE  rpc \in rpcs <=>
               \E x \in Extracted(a) : \E e \in x.endpoints : rpc = Rpc(x.service, e.decl)
  <2> DEFINE F(x) == {Rpc(x.service, e.decl) : e \in x.endpoints}
             all == {F(x) : x \in Extracted(a)}
  <2>1. rpc \in UNION all <=> \E s \in all : rpc \in s
    <3> HIDE DEF all
    <3> QED BY InUnion
  <2>2. (\E s \in all : rpc \in s) <=> \E x \in Extracted(a) : rpc \in F(x)
    <3> HIDE DEF F
    <3> QED OBVIOUS
  <2>3. \A x : rpc \in F(x) <=> \E e \in x.endpoints : rpc = Rpc(x.service, e.decl)
    OBVIOUS
  <2> QED BY <2>1, <2>2, <2>3, Zenon
<1>2. \A x : x \in Extracted(a) <=>
         /\ \E m \in Visible(a) : x = Extract(a, m)
         /\ x.declared \/ x.endpoints # {}
  BY Zenon DEF Extracted
<1>3. ASSUME NEW rpc
      PROVE  rpc \in rpcs <=>
               \E m \in Visible(a) : \E e \in Extract(a, m).endpoints :
                  rpc = Rpc(Extract(a, m).service, e.decl)
  <2> HIDE DEF rpcs
  <2>1. \A x : (\E e \in x.endpoints : rpc = Rpc(x.service, e.decl)) => x.endpoints # {}
    OBVIOUS
  <2> QED BY <1>1, <1>2, <2>1
<1>4. Meta(a) = [rpcs |-> rpcs, resources |-> res, auth_handler |-> auth]
  BY Zenon DEF Meta
<1> HIDE DEF rpcs, res, auth
<1>5. Meta(a).rpcs = rpcs /\ Meta(a).resources = res /\ Meta(a).auth_handler = auth
  BY <1>4
<1> QED BY <1>3, <1>5 DEF res, auth

LEMMA MetaRpcs ==
  ASSUME NEW a, NEW rpc
  PROVE  rpc \in Meta(a).rpcs <=>
           \E m \in Visible(a) : \E e \in Extract(a, m).endpoints :
              rpc = Rpc(Extract(a, m).service, e.decl)
<1>1. \A q : q \in Meta(a).rpcs <=>
         \E m \in Visible(a) : \E e \in Extract(a, m).endpoints :
            q = Rpc(Extract(a, m).service, e.decl)
  BY MetaIs
<1> QED BY <1>1, Zenon

-----------------------------------------------------------------------------
(* The files of a module.                                                  *)
LEMMA FilesAre ==
  ASSUME NEW a, Directory(a), NEW m \in DOMAIN a
  PROVE  /\ 1 \in DOMAIN Inside(a[m]) /\ Inside(a[m])[1] = a[m]
         /\ \A k \in DOMAIN Inside(a[m]) :
              /\ k \in Nat
              /\ k # 1 => Inside(a[m])[k] \in ToSet(a[m].inside)
              /\ Inside(a[m])[k].own \in Seq(ToSet(Inside(a[m])[k].own))
<1> DEFINE in == a[m].inside
           T == ToSet(in) \union {a[m]}
           all == <<a[m]>> \o in
           n == Len(in)
<1>1. in \in Seq(ToSet(in)) /\ <<a[m]>> \in Seq(T)
  <2>1. in \in Seq(ToSet(in))
    BY Zenon DEF Directory
  <2> QED BY <2>1
<1>2. in \in Seq(T) /\ n \in Nat /\ DOMAIN in = 1..n /\ \A k \in 1..n : in[k] \in ToSet(in)
  BY <1>1 DEF ToSet
<1>3. Inside(a[m]) = all
  BY DEF Inside
<1>4. /\ DOMAIN all = 1..(n + 1) /\ all[1] = a[m]
      /\ \A k \in 2..(n + 1) : all[k] = in[k - 1]
  <2>1. Len(<<a[m]>>) = 1 /\ <<a[m]>>[1] = a[m]
    OBVIOUS
  <2> HIDE DEF T, in
  <2>2. /\ all \in Seq(T) /\ Len(all) = 1 + n
        /\ \A k \in 1..(1 + n) : all[k] = IF k <= 1 THEN <<a[m]>>[k] ELSE in[k - 1]
    BY <1>1, <1>2, <2>1, ConcatProperties
  <2> HIDE DEF all, n
  <2>3. DOMAIN all = 1..(n + 1)
    BY <1>2, <2>2
  <2>4. all[1] = a[m]
    BY <1>2, <2>1, <2>2
  <2> QED BY <1>2, <2>2, <2>3, <2>4
<1>5. ASSUME NEW k \in DOMAIN all
      PROVE  k # 1 => all[k] \in ToSet(in)
  <2> HIDE DEF all, in, n
  <2>1. k \in 1..(n + 1)
    BY <1>4
  <2>2. k # 1 => k \in 2..(n + 1) /\ k - 1 \in 1..n
    BY <1>2, <2>1
  <2> QED BY <1>2, <1>4, <2>2
<1>6. ASSUME NEW k \in DOMAIN all
      PROVE  k \in Nat /\ all[k].own \in Seq(ToSet(all[k].own))
  <2> HIDE DEF in, n
  <2>1. k \in Nat
    BY <1>2, <1>4 DEF n
  <2>2. all[k] \in ToSet(all)
    BY DEF ToSet
  <2> QED BY <1>3, <2>1, <2>2, Zenon DEF Directory
<1>7. 1 \in DOMAIN all
  <2> HIDE DEF all, in
  <2> QED BY <1>2, <1>4
<1> HIDE DEF all
<1> QED BY <1>3, <1>4, <1>5, <1>6, <1>7

-----------------------------------------------------------------------------
(* Where what is read of a declaration is what it is.                      *)
LEMMA OneFirst ==
  ASSUME NEW x, NEW m \in Nat, NEW k \in Nat, NEW d \in Nat, x.place = <<m, k, d>>
  PROVE  First({x}) = x /\ Latest({x}) = x
<1>1. ~Earlier(x, x)
  BY DEF Earlier
<1> QED BY <1>1 DEF First, Latest

LEMMA SourceIn ==
  ASSUME NEW a, NEW m, NEW files, NEW x
  PROVE  x \in Source(a, m, files) <=> \E k \in files : x \in Members(Lines(a, m, {k}))
<1> DEFINE F(k) == Members(Lines(a, m, {k}))
           all == {F(k) : k \in files}
<1>1. Source(a, m, files) = UNION all
  BY Zenon DEF Source
<1>2. x \in UNION all <=> \E s \in all : x \in s
  <2> HIDE DEF all
  <2> QED BY InUnion
<1>3. (\E s \in all : x \in s) <=> \E k \in files : x \in F(k)
  <2> HIDE DEF F
  <2> QED OBVIOUS
<1> QED BY <1>1, <1>2, <1>3, Zenon

(* Each declaration is alone of its name in its file, and is kept.         *)
LEMMA MembersAre ==
  ASSUME NEW a, Directory(a), Readable(a), NEW m \in Visible(a), NEW k \in DOMAIN Inside(a[m])
  PROVE  Members(Lines(a, m, {k})) = Lines(a, m, {k})
<1> DEFINE file == Lines(a, m, {k})
           own == Inside(a[m])[k].own
           SameName(x) == {y \in file : y.decl.bound = x.decl.bound}
           first == {y \in file : y.decl.bound # None /\ \A z \in SameName(y) : ~Earlier(z, y)}
           Kept1(x) == [x EXCEPT !.decl = Read(Latest(SameName(x)).decl)]
<1>1. m \in DOMAIN a /\ m \in Nat
  BY DEF Visible, Directory
<1>2. k \in Nat /\ own \in Seq(ToSet(own)) /\ Inside(a[m])[k] \in ToSet(Inside(a[m]))
  BY <1>1, FilesAre DEF ToSet
<1>3. \A d \in DOMAIN own : d \in Nat
  BY <1>2
<1>4. \A d \in DOMAIN own : /\ own[d].bound # None /\ Read(own[d]) = own[d]
                            /\ \A e \in DOMAIN own : own[e].bound = own[d].bound => e = d
  BY <1>2, Zenon DEF Readable
<1>5. \A x : x \in file <=> \E d \in DOMAIN own : x = Line(a, m, k, d)
  BY LineIn
<1>6. ASSUME NEW d \in DOMAIN own
      PROVE  LET x == Line(a, m, k, d)
             IN  /\ x \in first /\ Kept1(x) = x
  <2> DEFINE x == Line(a, m, k, d)
  <2>1. x \in file
    BY <1>5
  <2>2. x.decl = own[d] /\ x.place = <<m, k, d>>
    BY LineFields
  <2>3. SameName(x) = {x}
    <3>1. ASSUME NEW y \in file, y.decl.bound = x.decl.bound PROVE y = x
      <4>1. PICK e \in DOMAIN own : y = Line(a, m, k, e)
        BY <1>5, <3>1
      <4>2. y.decl = own[e]
        BY <4>1, LineFields
      <4>3. e = d
        BY <1>4, <2>2, <3>1, <4>2
      <4> QED BY <4>1, <4>3
    <3> HIDE DEF x, file
    <3> QED BY <2>1, <3>1
  <2>4. First({x}) = x /\ Latest({x}) = x /\ ~Earlier(x, x)
    <3>1. ~Earlier(x, x)
      BY <1>1, <1>2, <1>3, <2>2 DEF Earlier
    <3> QED BY <1>1, <1>2, <1>3, <2>2, <3>1, OneFirst
  <2>5. [x EXCEPT !.decl = own[d]] = x
    BY <2>2 DEF Line
  <2>6. Kept1(x) = x
    <3>1. Read(Latest(SameName(x)).decl) = own[d]
      BY <1>4, <2>2, <2>3, <2>4
    <3> HIDE DEF x, SameName
    <3> QED BY <2>5, <3>1
  <2>7. x \in first
    <3>1. x.decl.bound # None
      BY <1>4, <2>2
    <3> HIDE DEF x, file
    <3> QED BY <2>1, <2>3, <2>4, <3>1
  <2> QED BY <2>6, <2>7
<1>7. Members(file) = {Kept1(x) : x \in first}
  BY Zenon DEF Members
<1>8. \A x \in first : x \in file
  OBVIOUS
<1> HIDE DEF file, own, first, Kept1
<1>9. ASSUME NEW x PROVE x \in {Kept1(y) : y \in first} <=> x \in file
  BY <1>5, <1>6, <1>8
<1> QED BY <1>7, <1>9 DEF file

LEMMA SourceIs ==
  ASSUME NEW a, Directory(a), Readable(a), NEW m \in Visible(a)
  PROVE  Source(a, m, DOMAIN Inside(a[m])) = Lines(a, m, DOMAIN Inside(a[m]))
<1> DEFINE files == DOMAIN Inside(a[m])
<1> HIDE DEF files
<1>1. ASSUME NEW x PROVE x \in Source(a, m, files) <=> x \in Lines(a, m, files)
  <2>1. x \in Source(a, m, files) <=> \E k \in files : x \in Lines(a, m, {k})
    <3>1. \A k \in files : Members(Lines(a, m, {k})) = Lines(a, m, {k})
      BY MembersAre DEF files
    <3>2. x \in Source(a, m, files) <=> \E k \in files : x \in Members(Lines(a, m, {k}))
      BY SourceIn
    <3> QED BY <3>1, <3>2, Zenon
  <2>2. \A k : x \in Lines(a, m, {k}) <=>
                 \E d \in DOMAIN Inside(a[m])[k].own : x = Line(a, m, k, d)
    BY LineIn
  <2>3. x \in Lines(a, m, files) <=>
          \E k \in files : \E d \in DOMAIN Inside(a[m])[k].own : x = Line(a, m, k, d)
    BY LineIn
  <2> QED BY <2>1, <2>2, <2>3, Zenon
<1> QED BY <1>1 DEF files

LEMMA SummaryIs ==
  ASSUME NEW a, NEW m
  PROVE  LET lines == Source(a, m, DOMAIN Inside(a[m]))
             x == Extract(a, m)
         IN  /\ x.service = Named(a, m, Kind(lines, "service"))
             /\ x.declared = (Kind(lines, "service") # {})
             /\ x.auth = (Kind(lines, "auth_handler") # {})
             /\ x.endpoints = Kind(lines, "api")
             /\ x.resources = Resources(lines)
<1> DEFINE lines == Source(a, m, DOMAIN Inside(a[m]))
<1> HIDE DEF lines
<1>1. Extract(a, m) =
        [ service   |-> Named(a, m, Kind(lines, "service")),
          declared  |-> Kind(lines, "service") # {},
          auth      |-> Kind(lines, "auth_handler") # {},
          endpoints |-> Kind(lines, "api"),
          resources |-> Resources(lines) ]
  BY Zenon DEF Extract, Summary, lines
<1> QED BY <1>1 DEF lines

LEMMA ExtractIs ==
  ASSUME NEW a, Directory(a), Readable(a), NEW m \in Visible(a)
  PROVE  LET all == Lines(a, m, DOMAIN Inside(a[m]))
             x == Extract(a, m)
         IN  /\ x.service = Named(a, m, Kind(all, "service"))
             /\ x.declared = (Kind(all, "service") # {})
             /\ x.auth = (Kind(all, "auth_handler") # {})
             /\ x.endpoints = Kind(all, "api")
             /\ x.resources = Resources(all)
BY SummaryIs, SourceIs

-----------------------------------------------------------------------------
(* Where, besides, every module is one service and hides nothing.          *)
LEMMA AllImported ==
  ASSUME NEW a, Directory(a), Readable(a), OneServiceEach(a), NEW m \in Visible(a)
  PROVE  Imported(a[m]) = DOMAIN Inside(a[m])
<1>1. m \in DOMAIN a
  BY DEF Visible
<1>2. ASSUME NEW k \in DOMAIN Inside(a[m]), k # 1
      PROVE  LET file == Inside(a[m])[k]
             IN  ~file.hidden /\ ~file.package /\ Len(file.at) = Len(a[m].at) + 1
  <2> DEFINE file == Inside(a[m])[k]
  <2>1. file \in ToSet(a[m].inside)
    BY <1>1, <1>2, FilesAre
  <2> HIDE DEF file
  <2>2. ~file.hidden /\ ~file.package
    BY <2>1, Zenon DEF OneServiceEach
  <2>3. \A pkg \in ToSet(a[m].inside) : ~pkg.package
    BY Zenon DEF OneServiceEach
  <2>4. Len(file.at) = 2 /\ Len(a[m].at) = 1
    BY <1>1, <2>1, <2>3, Zenon DEF Directory
  <2> QED BY <2>2, <2>4 DEF file
<1>3. Imported(a[m]) =
        {k \in DOMAIN Inside(a[m]) :
           \/ k = 1
           \/ LET file == Inside(a[m])[k]
              IN  ~file.hidden /\ ~file.package /\ Len(file.at) = Len(a[m].at) + 1}
  BY Zenon DEF Imported
<1> QED BY <1>2, <1>3, Zenon

(* The one Service of a module is in its first file.                       *)
LEMMA ServiceLine ==
  ASSUME NEW a, Directory(a), Readable(a), OneServiceEach(a), NEW m \in Visible(a)
  PROVE  \E d \in Nat :
           Kind(Lines(a, m, DOMAIN Inside(a[m])), "service") = {Line(a, m, 1, d)}
<1> DEFINE files == DOMAIN Inside(a[m])
           lines == Lines(a, m, files)
<1>1. m \in DOMAIN a
  BY DEF Visible
<1>2. PICK d \in DOMAIN a[m].own : {e \in DOMAIN a[m].own : a[m].own[e].is = "service"} = {d}
  BY Zenon DEF OneServiceEach
<1>3. 1 \in files /\ Inside(a[m])[1] = a[m] /\ a[m].own \in Seq(ToSet(a[m].own))
  BY <1>1, FilesAre
<1>4. d \in Nat
  BY <1>2, <1>3
<1> HIDE DEF lines, files
<1>5. Line(a, m, 1, d) \in Kind(lines, "service")
  <2>1. Line(a, m, 1, d) \in lines
    BY <1>2, <1>3, LineIn DEF lines
  <2>2. Line(a, m, 1, d).decl.is = "service"
    BY <1>2, <1>3, LineFields
  <2> QED BY <2>1, <2>2 DEF Kind
<1>6. ASSUME NEW x \in Kind(lines, "service")
      PROVE  x = Line(a, m, 1, d)
  <2>1. x \in lines /\ x.decl.is = "service"
    BY <1>6 DEF Kind
  <2>2. PICK k \in files : \E e \in DOMAIN Inside(a[m])[k].own : x = Line(a, m, k, e)
    BY <2>1, LineIn DEF lines
  <2>3. PICK e \in DOMAIN Inside(a[m])[k].own : x = Line(a, m, k, e)
    BY <2>2
  <2>4. Inside(a[m])[k].own[e].is = "service"
    BY <2>1, <2>3, LineFields
  <2>5. k = 1
    <3> SUFFICES ASSUME k # 1 PROVE FALSE
      OBVIOUS
    <3>1. Inside(a[m])[k] \in ToSet(a[m].inside)
      BY <1>1, FilesAre DEF files
    <3> QED BY <2>3, <2>4, <3>1, Zenon DEF OneServiceEach
  <2>6. e = d
    BY <1>2, <1>3, <2>3, <2>4, <2>5
  <2> QED BY <2>3, <2>5, <2>6
<1> QED BY <1>4, <1>5, <1>6 DEF lines, files

LEMMA NamedBy ==
  ASSUME NEW a, Directory(a), Readable(a), OneServiceEach(a), NEW m \in Visible(a), NEW d \in Nat,
         Kind(Lines(a, m, DOMAIN Inside(a[m])), "service") = {Line(a, m, 1, d)}
  PROVE  Extract(a, m).service = Line(a, m, 1, d).decl.name
<1> DEFINE x == Line(a, m, 1, d)
<1>1. Extract(a, m).service = Named(a, m, {x})
  BY ExtractIs
<1>2. x.place = <<m, 1, d>>
  BY LineFields
<1>3. m \in Nat
  BY DEF Visible, Directory
<1> HIDE DEF x
<1>4. {y \in {x} : \A z \in {x} : y.place[2] <= z.place[2]} = {x}
  BY <1>2
<1>5. Latest({x}) = x
  BY <1>2, <1>3, OneFirst
<1>6. Named(a, m, {x}) = x.decl.name
  BY <1>4, <1>5 DEF Named
<1> QED BY <1>1, <1>6 DEF x

(* Modules of one name are one.                                            *)
LEMMA OneRoot ==
  ASSUME NEW s \in Seq(STRING), NEW t \in Seq(STRING), NEW u \in Seq(STRING),
         Len(s) = 1, Len(t) = 1, IsPrefix(s, u), IsPrefix(t, u)
  PROVE  s = t
<1>1. Len(u) \in Nat /\ 1 <= Len(u)
  BY DEF IsPrefix
<1>2. SubSeq(s, 1, 1) = SubSeq(t, 1, 1)
  BY DEF IsPrefix
<1>3. SubSeq(s, 1, 1)[1] = s[1] /\ SubSeq(t, 1, 1)[1] = t[1]
  BY SubSeqProperties
<1> QED BY <1>2, <1>3

LEMMA ItsOwnRoot ==
  ASSUME NEW a, Directory(a), NEW m \in DOMAIN a, NEW k \in DOMAIN Inside(a[m])
  PROVE  /\ Inside(a[m])[k].at \in Seq(STRING)
         /\ IsPrefix(a[m].at, Inside(a[m])[k].at)
<1>1. CASE k = 1
  <2>1. Inside(a[m])[k] = a[m]
    BY <1>1, FilesAre
  <2>2. a[m].at \in Seq(STRING)
    BY Zenon DEF Directory
  <2> QED BY <2>1, <2>2 DEF IsPrefix
<1>2. CASE k # 1
  <2>1. Inside(a[m])[k] \in ToSet(a[m].inside)
    BY <1>2, FilesAre
  <2> QED BY <2>1, Zenon DEF Directory
<1> QED BY <1>1, <1>2

(* One Service is over each file, the one that the module was named by.    *)
ServicesOver(a, at) == {y \in Declared(a, "service") : IsPrefix(y.module, at)}

LEMMA OneServiceOver ==
  ASSUME NEW a, Directory(a), Readable(a), OneServiceEach(a), NEW m \in Visible(a),
         NEW k \in DOMAIN Inside(a[m])
  PROVE  \E x : /\ ServicesOver(a, Inside(a[m])[k].at) = {x}
                /\ x.decl.name = Extract(a, m).service
                /\ First({x}) = x
<1> DEFINE at == Inside(a[m])[k].at
<1>1. PICK d \in Nat :
        Kind(Lines(a, m, DOMAIN Inside(a[m])), "service") = {Line(a, m, 1, d)}
  BY ServiceLine
<1> DEFINE x == Line(a, m, 1, d)
           s == {y \in Declared(a, "service") : IsPrefix(y.module, at)}
<1>2. m \in DOMAIN a /\ \A n \in Visible(a) : n \in DOMAIN a
  BY DEF Visible
<1>3. /\ x.place = <<m, 1, d>> /\ x.module = a[m].at
      /\ m \in Nat
  <2>1. Inside(a[m])[1] = a[m]
    BY <1>2, FilesAre
  <2>2. m \in Nat
    BY <1>2 DEF Directory
  <2> QED BY <2>1, <2>2, LineFields
<1>4. ASSUME NEW y
      PROVE  y \in Declared(a, "service") <=>
               \E n \in Visible(a) : y \in Kind(Lines(a, n, DOMAIN Inside(a[n])), "service")
  <2> DEFINE F(n) == Kind(Lines(a, n, Imported(a[n])), "service")
             all == {F(n) : n \in Visible(a)}
  <2>1. Declared(a, "service") = UNION all
    BY Zenon DEF Declared
  <2>2. y \in UNION all <=> \E f \in all : y \in f
    <3> HIDE DEF all
    <3> QED BY InUnion
  <2>3. (\E f \in all : y \in f) <=> \E n \in Visible(a) : y \in F(n)
    <3> HIDE DEF F
    <3> QED OBVIOUS
  <2>4. \A n \in Visible(a) : F(n) = Kind(Lines(a, n, DOMAIN Inside(a[n])), "service")
    BY AllImported
  <2> HIDE DEF F, all
  <2> QED BY <2>1, <2>2, <2>3, <2>4
<1>5. x \in s
  <2>1. x \in Declared(a, "service")
    BY <1>1, <1>4
  <2>2. IsPrefix(a[m].at, at)
    BY <1>2, ItsOwnRoot
  <2> HIDE DEF x, at
  <2> QED BY <1>3, <2>1, <2>2
<1>6. ASSUME NEW y \in s PROVE y = x
  <2> HIDE DEF x, at
  <2>1. y \in Declared(a, "service") /\ IsPrefix(y.module, at)
    OBVIOUS
  <2>2. PICK n \in Visible(a) : y \in Kind(Lines(a, n, DOMAIN Inside(a[n])), "service")
    BY <1>4, <2>1
  <2>3. PICK e \in Nat :
          Kind(Lines(a, n, DOMAIN Inside(a[n])), "service") = {Line(a, n, 1, e)}
    BY ServiceLine
  <2>4. y.module = a[n].at
    <3>1. Inside(a[n])[1] = a[n]
      BY <1>2, FilesAre
    <3> QED BY <2>2, <2>3, <3>1, LineFields
  <2>5. /\ a[n].at \in Seq(STRING) /\ Len(a[n].at) = 1
        /\ a[m].at \in Seq(STRING) /\ Len(a[m].at) = 1
    BY <1>2, Zenon DEF Directory
  <2>6. at \in Seq(STRING) /\ IsPrefix(a[m].at, at)
    BY <1>2, ItsOwnRoot DEF at
  <2>7. a[n].at = a[m].at
    BY <2>1, <2>4, <2>5, <2>6, OneRoot
  <2>8. n = m
    BY <1>2, <2>7, Zenon DEF Directory
  <2> QED BY <1>1, <2>2, <2>8 DEF x
<1>7. s = {x}
  BY <1>5, <1>6
<1>8. Extract(a, m).service = x.decl.name
  BY <1>1, NamedBy
<1>9. s = ServicesOver(a, at)
  BY DEF ServicesOver
<1> HIDE DEF x, s, at
<1>10. First({x}) = x
  BY <1>3, OneFirst
<1> QED BY <1>7, <1>8, <1>9, <1>10 DEF at

(* A declaration belongs at run time to the service it was read in.        *)
LEMMA ServiceFound ==
  ASSUME NEW a, Directory(a), Readable(a), OneServiceEach(a), NEW m \in Visible(a),
         NEW k \in DOMAIN Inside(a[m])
  PROVE  ServiceOf(a, Inside(a[m])[k].at) = Extract(a, m).service
<1> DEFINE at == Inside(a[m])[k].at
<1>1. PICK x : /\ ServicesOver(a, at) = {x} /\ x.decl.name = Extract(a, m).service
               /\ First({x}) = x
  BY OneServiceOver
<1>2. ServiceOf(a, at) = IF ServicesOver(a, at) = {} THEN None
                         ELSE First(ServicesOver(a, at)).decl.name
  BY Zenon DEF ServiceOf, ServicesOver
<1> HIDE DEF at
<1> QED BY <1>1, <1>2 DEF at

(* An endpoint read is one with the name of its service.                   *)
LEMMA EndpointsRead ==
  ASSUME NEW a, Directory(a), Readable(a), NEW x \in Declared(a, "api")
  PROVE  \E m \in Visible(a) : Rpc(Extract(a, m).service, x.decl) \in Meta(a).rpcs
<1>1. PICK m \in Visible(a) : x \in Kind(Lines(a, m, DOMAIN Inside(a[m])), "api")
  BY ImportedRead
<1>2. x \in Extract(a, m).endpoints
  BY <1>1, ExtractIs
<1> QED BY <1>2, MetaRpcs

LEMMA ServicesAgree ==
  ASSUME NEW a, Directory(a), Readable(a), OneServiceEach(a)
  PROVE  {Rpc(ServiceOf(a, x.module), x.decl) : x \in Declared(a, "api")} = Meta(a).rpcs
<1> DEFINE Apis(m) == Kind(Lines(a, m, DOMAIN Inside(a[m])), "api")
<1>1. ASSUME NEW m \in Visible(a), NEW x \in Apis(m)
      PROVE  ServiceOf(a, x.module) = Extract(a, m).service
  <2>1. x \in Lines(a, m, DOMAIN Inside(a[m]))
    BY DEF Kind
  <2>2. PICK k \in DOMAIN Inside(a[m]) :
          \E d \in DOMAIN Inside(a[m])[k].own : x = Line(a, m, k, d)
    BY <2>1, LineIn
  <2>3. x.module = Inside(a[m])[k].at
    BY <2>2, LineFields
  <2> QED BY <2>3, ServiceFound
<1>2. ASSUME NEW x PROVE x \in Declared(a, "api") <=> \E m \in Visible(a) : x \in Apis(m)
  <2> DEFINE F(m) == Kind(Lines(a, m, Imported(a[m])), "api")
             all == {F(m) : m \in Visible(a)}
  <2>1. Declared(a, "api") = UNION all
    BY Zenon DEF Declared
  <2>2. x \in UNION all <=> \E f \in all : x \in f
    <3> HIDE DEF all
    <3> QED BY InUnion
  <2>3. (\E f \in all : x \in f) <=> \E m \in Visible(a) : x \in F(m)
    <3> HIDE DEF F
    <3> QED OBVIOUS
  <2>4. \A m \in Visible(a) : F(m) = Apis(m)
    BY AllImported
  <2> HIDE DEF F, all, Apis
  <2> QED BY <2>1, <2>2, <2>3, <2>4
<1>3. \A m \in Visible(a) : Extract(a, m).endpoints = Apis(m)
  BY ExtractIs
<1> HIDE DEF Apis
<1>4. ASSUME NEW rpc
      PROVE  rpc \in Meta(a).rpcs <=>
               \E x \in Declared(a, "api") : rpc = Rpc(ServiceOf(a, x.module), x.decl)
  <2>1. rpc \in Meta(a).rpcs <=>
          \E m \in Visible(a) : \E x \in Apis(m) : rpc = Rpc(Extract(a, m).service, x.decl)
    <3>1. rpc \in Meta(a).rpcs <=>
            \E m \in Visible(a) : \E x \in Extract(a, m).endpoints :
               rpc = Rpc(Extract(a, m).service, x.decl)
      BY MetaRpcs, Zenon
    <3> QED BY <1>3, <3>1
  <2> QED BY <1>1, <1>2, <2>1
<1> QED BY <1>4

-----------------------------------------------------------------------------
(* What comes first and what comes last.                                   *)
LEMMA Smallest ==
  ASSUME NEW S \in SUBSET Nat, S # {}
  PROVE  \E n \in S : \A i \in S : n <= i
<1>1. PICK n \in S : \A i \in S : ~(<<i, n>> \in OpToRel(<, Nat))
  BY NatLessThanWellFounded, WFMin
<1>2. ASSUME NEW i \in S, i < n PROVE FALSE
  <2>1. <<i, n>> \in OpToRel(<, Nat)
    BY <1>2 DEF OpToRel
  <2> QED BY <1>1, <2>1
<1> QED BY <1>2

LEMMA Largest ==
  ASSUME NEW S \in SUBSET Nat, S # {}, NEW bound \in Nat, \A i \in S : i <= bound
  PROVE  \E n \in S : \A i \in S : i <= n
<1> DEFINE T == {bound - i : i \in S}
<1>1. T \in SUBSET Nat /\ T # {}
  <2>1. \A i \in S : bound - i \in Nat
    OBVIOUS
  <2>2. PICK i \in S : TRUE
    OBVIOUS
  <2>3. bound - i \in T
    OBVIOUS
  <2> QED BY <2>1, <2>3
<1>2. PICK t \in T : \A u \in T : t <= u
  <2> HIDE DEF T
  <2> QED BY <1>1, Smallest
<1>3. PICK n \in S : t = bound - n
  OBVIOUS
<1>4. \A i \in S : i <= n
  <2> TAKE i \in S
  <2>1. bound - i \in T
    OBVIOUS
  <2>2. t <= bound - i
    BY <1>2, <2>1
  <2> HIDE DEF T
  <2> QED BY <1>3, <2>2
<1> QED BY <1>4

Placed(lines) ==
  \A x \in lines : \E m \in Nat, k \in Nat, d \in Nat : x.place = <<m, k, d>>

LEMMA EarlierIs ==
  ASSUME NEW x, NEW y, NEW m \in Nat, NEW k \in Nat, NEW d \in Nat, x.place = <<m, k, d>>,
         NEW n \in Nat, NEW l \in Nat, NEW e \in Nat, y.place = <<n, l, e>>
  PROVE  Earlier(x, y) <=> \/ m < n
                           \/ m = n /\ k < l
                           \/ m = n /\ k = l /\ d < e
<1>1. ASSUME Earlier(x, y)
      PROVE  m < n \/ (m = n /\ k < l) \/ (m = n /\ k = l /\ d < e)
  <2>1. PICK i \in 1..3 : /\ x.place[i] < y.place[i]
                          /\ \A j \in 1..(i - 1) : x.place[j] = y.place[j]
    BY <1>1, Zenon DEF Earlier
  <2>2. i = 1 \/ i = 2 \/ i = 3
    OBVIOUS
  <2>3. CASE i = 1
    BY <2>1, <2>3
  <2>4. CASE i = 2
    BY <2>1, <2>4
  <2>5. CASE i = 3
    BY <2>1, <2>5
  <2> QED BY <2>2, <2>3, <2>4, <2>5
<1>2. ASSUME m < n PROVE Earlier(x, y)
  <2>1. x.place[1] < y.place[1] /\ 1..(1 - 1) = {}
    BY <1>2
  <2> QED BY <2>1 DEF Earlier
<1>3. ASSUME m = n, k < l PROVE Earlier(x, y)
  <2>1. /\ x.place[2] < y.place[2]
        /\ \A j \in 1..(2 - 1) : x.place[j] = y.place[j]
    BY <1>3
  <2> QED BY <2>1 DEF Earlier
<1>4. ASSUME m = n, k = l, d < e PROVE Earlier(x, y)
  <2>1. /\ x.place[3] < y.place[3]
        /\ \A j \in 1..(3 - 1) : x.place[j] = y.place[j]
    BY <1>4
  <2> QED BY <2>1 DEF Earlier
<1> QED BY <1>1, <1>2, <1>3, <1>4

LEMMA FirstThere ==
  ASSUME NEW lines, lines # {}, Placed(lines)
  PROVE  \E x \in lines : \A y \in lines : ~Earlier(y, x)
<1> DEFINE M == {m \in Nat : \E x \in lines : \E k \in Nat, d \in Nat : x.place = <<m, k, d>>}
<1>1. PICK m \in M : \A i \in M : m <= i
  <2>1. M \in SUBSET Nat /\ M # {}
    BY DEF Placed
  <2> HIDE DEF M
  <2> QED BY <2>1, Smallest
<1> DEFINE K == {k \in Nat : \E x \in lines : \E d \in Nat : x.place = <<m, k, d>>}
<1>2. PICK k \in K : \A i \in K : k <= i
  <2>1. K \in SUBSET Nat /\ K # {}
    OBVIOUS
  <2> HIDE DEF K
  <2> QED BY <2>1, Smallest
<1> DEFINE D == {d \in Nat : \E x \in lines : x.place = <<m, k, d>>}
<1>3. PICK d \in D : \A i \in D : d <= i
  <2>1. D \in SUBSET Nat /\ D # {}
    OBVIOUS
  <2> HIDE DEF D
  <2> QED BY <2>1, Smallest
<1>4. m \in Nat /\ k \in Nat /\ d \in Nat
  OBVIOUS
<1>5. PICK x \in lines : x.place = <<m, k, d>>
  OBVIOUS
<1>6. ASSUME NEW y \in lines, Earlier(y, x) PROVE FALSE
  <2>1. PICK n \in Nat, l \in Nat, e \in Nat : y.place = <<n, l, e>>
    BY DEF Placed
  <2>2. n < m \/ (n = m /\ l < k) \/ (n = m /\ l = k /\ e < d)
    BY <1>4, <1>5, <1>6, <2>1, EarlierIs
  <2>3. n \in M
    BY <2>1
  <2>4. n = m => l \in K
    BY <2>1
  <2>5. n = m /\ l = k => e \in D
    BY <2>1
  <2> HIDE DEF M, K, D
  <2>6. m <= n /\ (n = m => k <= l) /\ (n = m /\ l = k => d <= e)
    BY <1>1, <1>2, <1>3, <2>3, <2>4, <2>5
  <2> QED BY <1>4, <2>1, <2>2, <2>6
<1> QED BY <1>5, <1>6


(* The latest of lines of an application: there are so many modules, files *)
(* in each and declarations in those.                                      *)
Within(a, lines) ==
  \A x \in lines : \E m \in DOMAIN a : \E k \in DOMAIN Inside(a[m]) :
    \E d \in DOMAIN Inside(a[m])[k].own : x = Line(a, m, k, d)

LEMMA DirectoryIs ==
  ASSUME NEW a, Directory(a), NEW m \in DOMAIN a
  PROVE  /\ DOMAIN a = 1..Len(a) /\ Len(a) \in Nat /\ m \in Nat
         /\ DOMAIN Inside(a[m]) = 1..Len(Inside(a[m])) /\ Len(Inside(a[m])) \in Nat
         /\ \A k \in DOMAIN Inside(a[m]) :
              LET own == Inside(a[m])[k].own
              IN  /\ k \in Nat /\ own \in Seq(ToSet(own))
                  /\ DOMAIN own = 1..Len(own) /\ Len(own) \in Nat
                  /\ \A d \in DOMAIN own : d \in Nat /\ Declaration(own[d])
<1>1. a \in Seq(ToSet(a)) /\ a[m].inside \in Seq(ToSet(a[m].inside))
  BY Zenon DEF Directory
<1>2. DOMAIN a = 1..Len(a) /\ Len(a) \in Nat /\ m \in Nat
  BY <1>1, OwnElements
<1> DEFINE files == Inside(a[m])
<1>3. DOMAIN files = 1..Len(files) /\ Len(files) \in Nat
  <2> DEFINE S == {a[m]} \union ToSet(a[m].inside)
  <2>1. <<a[m]>> \in Seq(S) /\ a[m].inside \in Seq(S)
    <3> DEFINE in == a[m].inside
    <3>1. in \in Seq(ToSet(in)) /\ ToSet(in) \subseteq S
      BY <1>1
    <3> HIDE DEF S, in
    <3>2. in \in Seq(S)
      BY <3>1
    <3>3. a[m] \in S
      BY DEF S
    <3> QED BY <3>2, <3>3 DEF in
  <2> HIDE DEF S
  <2>2. files \in Seq(S)
    BY <2>1 DEF Inside
  <2> HIDE DEF files
  <2> QED BY <2>2
<1>4. ASSUME NEW k \in DOMAIN files
      PROVE  LET own == files[k].own
             IN  /\ k \in Nat /\ own \in Seq(ToSet(own))
                 /\ DOMAIN own = 1..Len(own) /\ Len(own) \in Nat
                 /\ \A d \in DOMAIN own : d \in Nat /\ Declaration(own[d])
  <2> DEFINE own == files[k].own
  <2>1. k \in Nat
    <3> HIDE DEF files
    <3> QED BY <1>3
  <2>2. \A file \in ToSet(files) : /\ file.own \in Seq(ToSet(file.own))
                                   /\ \A decl \in ToSet(file.own) : Declaration(decl)
    BY Zenon DEF Directory
  <2>3. files[k] \in ToSet(files)
    <3> HIDE DEF files
    <3> QED BY DEF ToSet
  <2>4. own \in Seq(ToSet(own)) /\ \A decl \in ToSet(own) : Declaration(decl)
    <3> HIDE DEF files
    <3> QED BY <2>2, <2>3
  <2> HIDE DEF own, files
  <2>5. DOMAIN own = 1..Len(own) /\ Len(own) \in Nat
    BY <2>4, OwnElements
  <2>6. \A d \in DOMAIN own : d \in Nat /\ own[d] \in ToSet(own)
    BY <2>5 DEF ToSet
  <2> QED BY <2>1, <2>4, <2>5, <2>6 DEF own
<1> QED BY <1>2, <1>3, <1>4, Zenon

LEMMA WithinPlaced ==
  ASSUME NEW a, Directory(a), NEW lines, Within(a, lines)
  PROVE  Placed(lines)
<1> SUFFICES ASSUME NEW x \in lines
             PROVE  \E m \in Nat, k \in Nat, d \in Nat : x.place = <<m, k, d>>
  BY DEF Placed
<1>1. PICK m \in DOMAIN a : \E k \in DOMAIN Inside(a[m]) :
        \E d \in DOMAIN Inside(a[m])[k].own : x = Line(a, m, k, d)
  BY DEF Within
<1>2. PICK k \in DOMAIN Inside(a[m]) :
        \E d \in DOMAIN Inside(a[m])[k].own : x = Line(a, m, k, d)
  BY <1>1
<1>3. PICK d \in DOMAIN Inside(a[m])[k].own : x = Line(a, m, k, d)
  BY <1>2
<1>4. m \in Nat /\ k \in Nat /\ d \in Nat
  BY DirectoryIs
<1>5. x.place = <<m, k, d>>
  BY <1>3, LineFields
<1> QED BY <1>4, <1>5

LEMMA LatestThere ==
  ASSUME NEW a, Directory(a), NEW lines, lines # {}, Within(a, lines)
  PROVE  \E x \in lines : \A y \in lines : ~Earlier(x, y)
<1> DEFINE Own(m, k) == DOMAIN Inside(a[m])[k].own
           M == {m \in DOMAIN a : \E k \in DOMAIN Inside(a[m]) :
                   \E d \in Own(m, k) : Line(a, m, k, d) \in lines}
<1>1. PICK x0 \in lines : TRUE
  OBVIOUS
<1>2. PICK m0 \in DOMAIN a : \E k \in DOMAIN Inside(a[m0]) :
        \E d \in Own(m0, k) : x0 = Line(a, m0, k, d)
  BY DEF Within
<1>3. m0 \in M
  BY <1>1, <1>2, Zenon
<1>4. PICK m \in M : \A i \in M : i <= m
  <2>1. \A i \in M : i \in Nat /\ i <= Len(a) /\ Len(a) \in Nat
    <3> TAKE i \in M
    <3>1. i \in DOMAIN a
      OBVIOUS
    <3>2. i \in 1..Len(a) /\ Len(a) \in Nat
      BY <3>1, DirectoryIs
    <3> HIDE DEF M
    <3> QED BY <3>2
  <2> HIDE DEF M
  <2> QED BY <1>3, <2>1, Largest
<1>5. m \in DOMAIN a
  BY <1>4, Zenon
<1> DEFINE K == {k \in DOMAIN Inside(a[m]) : \E d \in Own(m, k) : Line(a, m, k, d) \in lines}
<1>6. PICK k \in K : \A i \in K : i <= k
  <2>1. K # {}
    BY <1>4, Zenon
  <2>2. \A i \in K : i \in DOMAIN Inside(a[m])
    OBVIOUS
  <2> HIDE DEF K
  <2>3. /\ DOMAIN Inside(a[m]) = 1..Len(Inside(a[m]))
        /\ Len(Inside(a[m])) \in Nat
    BY <1>5, DirectoryIs
  <2>4. /\ K \in SUBSET Nat
        /\ \A i \in K : i <= Len(Inside(a[m]))
    BY <2>2, <2>3
  <2> QED BY <2>1, <2>3, <2>4, Largest
<1>7. k \in DOMAIN Inside(a[m])
  BY <1>6, Zenon
<1> DEFINE D == {d \in Own(m, k) : Line(a, m, k, d) \in lines}
<1>8. PICK d \in D : \A i \in D : i <= d
  <2>1. D # {}
    BY <1>6, Zenon
  <2>2. \A i \in D : i \in Own(m, k)
    OBVIOUS
  <2>3. /\ Own(m, k) = 1..Len(Inside(a[m])[k].own)
        /\ Len(Inside(a[m])[k].own) \in Nat
    BY <1>5, <1>7, DirectoryIs
  <2> HIDE DEF D
  <2>4. /\ D \in SUBSET Nat
        /\ \A i \in D : i <= Len(Inside(a[m])[k].own)
    BY <2>2, <2>3
  <2> QED BY <2>1, <2>3, <2>4, Largest
<1>9. d \in Own(m, k) /\ Line(a, m, k, d) \in lines
  BY <1>8, Zenon
<1> DEFINE x == Line(a, m, k, d)
<1>10. ASSUME NEW y \in lines, Earlier(x, y) PROVE FALSE
  <2>1. PICK n \in DOMAIN a : \E l \in DOMAIN Inside(a[n]) :
          \E e \in Own(n, l) : y = Line(a, n, l, e)
    BY DEF Within
  <2>2. PICK l \in DOMAIN Inside(a[n]) : \E e \in Own(n, l) : y = Line(a, n, l, e)
    BY <2>1
  <2>3. PICK e \in Own(n, l) : y = Line(a, n, l, e)
    BY <2>2
  <2>4. n \in M
    BY <2>1, <2>2, <2>3, Zenon
  <2>5. n = m => l \in K
    BY <2>2, <2>3, Zenon
  <2>6. n = m /\ l = k => e \in D
    BY <2>3, Zenon
  <2>7. m \in Nat /\ k \in Nat /\ d \in Nat
    BY <1>5, <1>7, <1>9, DirectoryIs
  <2>8. n \in Nat /\ l \in Nat /\ e \in Nat
    BY <2>1, <2>2, <2>3, DirectoryIs
  <2>9. x.place = <<m, k, d>> /\ y.place = <<n, l, e>>
    BY <2>3, LineFields
  <2> HIDE DEF x, M, K, D
  <2>10. m < n \/ (m = n /\ k < l) \/ (m = n /\ k = l /\ d < e)
    BY <1>10, <2>7, <2>8, <2>9, EarlierIs
  <2>11. n <= m /\ (n = m => l <= k) /\ (n = m /\ l = k => e <= d)
    BY <1>4, <1>6, <1>8, <2>4, <2>5, <2>6
  <2> QED BY <2>7, <2>8, <2>10, <2>11
<1> QED BY <1>9, <1>10

LEMMA FirstIn ==
  ASSUME NEW a, Directory(a), NEW lines, lines # {}, Within(a, lines)
  PROVE  First(lines) \in lines /\ Latest(lines) \in lines
<1>1. \E x \in lines : \A y \in lines : ~Earlier(y, x)
  BY WithinPlaced, FirstThere
<1>2. \E x \in lines : \A y \in lines : ~Earlier(x, y)
  BY LatestThere
<1>3. First(lines) \in lines
  BY <1>1, Zenon DEF First
<1>4. Latest(lines) \in lines
  BY <1>2, Zenon DEF Latest
<1> QED BY <1>3, <1>4

LEMMA DeclaredWithin ==
  ASSUME NEW a, NEW kind, NEW lines, lines \subseteq Declared(a, kind)
  PROVE  Within(a, lines) /\ \A x \in lines : x.decl.is = kind
<1> SUFFICES ASSUME NEW x \in lines
             PROVE  /\ x.decl.is = kind
                    /\ \E m \in DOMAIN a : \E k \in DOMAIN Inside(a[m]) :
                         \E d \in DOMAIN Inside(a[m])[k].own : x = Line(a, m, k, d)
  BY DEF Within
<1>1. PICK m \in Visible(a) : x \in Kind(Lines(a, m, DOMAIN Inside(a[m])), kind)
  BY ImportedRead
<1>2. x.decl.is = kind /\ x \in Lines(a, m, DOMAIN Inside(a[m]))
  BY <1>1 DEF Kind
<1>3. \E k \in DOMAIN Inside(a[m]) : \E d \in DOMAIN Inside(a[m])[k].own : x = Line(a, m, k, d)
  BY <1>2, LineIn
<1>4. m \in DOMAIN a
  BY DEF Visible
<1> QED BY <1>2, <1>3, <1>4

LEMMA DeclaredTyped ==
  ASSUME NEW a, Directory(a), NEW kind, NEW x \in Declared(a, kind)
  PROVE  Declaration(x.decl) /\ x.decl.is = kind
<1>1. /\ x.decl.is = kind
      /\ \E m \in DOMAIN a : \E k \in DOMAIN Inside(a[m]) :
           \E d \in DOMAIN Inside(a[m])[k].own : x = Line(a, m, k, d)
  BY DeclaredWithin DEF Within
<1>2. PICK m \in DOMAIN a : \E k \in DOMAIN Inside(a[m]) :
           \E d \in DOMAIN Inside(a[m])[k].own : x = Line(a, m, k, d)
  BY <1>1
<1>3. PICK k \in DOMAIN Inside(a[m]) : \E d \in DOMAIN Inside(a[m])[k].own : x = Line(a, m, k, d)
  BY <1>2
<1>4. PICK d \in DOMAIN Inside(a[m])[k].own : x = Line(a, m, k, d)
  BY <1>3
<1>5. x.decl = Inside(a[m])[k].own[d]
  BY <1>4, LineFields
<1>6. Declaration(Inside(a[m])[k].own[d])
  BY DirectoryIs
<1> QED BY <1>1, <1>5, <1>6


-----------------------------------------------------------------------------
(* What is read of a declaration that keeps its name.                      *)
LEMMA ReadIs ==
  ASSUME NEW decl, Declaration(decl), decl.is = "api"
  PROVE  LET r == Read(decl)
         IN  /\ r.is = "api" /\ r.fn = decl.fn
             /\ "path" \notin decl.computed => r.path = decl.path
             /\ "method" \notin decl.computed => r.method = decl.method
             /\ decl.auth => r.auth
             /\ decl.expose => r.expose
<1> DEFINE D == DOMAIN decl
           Of(arg) == IF arg \notin decl.computed THEN decl[arg]
                      ELSE IF arg \in Flags THEN TRUE ELSE AsText(arg)
<1>1. /\ "is" \in D /\ "fn" \in D /\ "path" \in D /\ "method" \in D
      /\ "auth" \in D /\ "expose" \in D
      /\ "is" \notin decl.computed /\ "fn" \notin decl.computed
  BY DEF Declaration, Flags, Arguments
<1>2. Read(decl) = [arg \in D |-> Of(arg)]
  BY Zenon DEF Read
<1>3. \A arg \in D : Read(decl)[arg] = Of(arg)
  <2> HIDE DEF D, Of
  <2> QED BY <1>2
<1>4. \A arg : arg \notin decl.computed => Of(arg) = decl[arg]
  OBVIOUS
<1>5. \A arg : arg \in decl.computed /\ arg \in Flags => Of(arg) = TRUE
  OBVIOUS
<1> HIDE DEF D, Of
<1>6. Read(decl).is = decl.is /\ Read(decl).fn = decl.fn
  BY <1>1, <1>3, <1>4
<1>7. /\ "path" \notin decl.computed => Read(decl).path = decl.path
      /\ "method" \notin decl.computed => Read(decl).method = decl.method
  BY <1>1, <1>3, <1>4
<1>8. "auth" \in Flags /\ "expose" \in Flags
  BY DEF Flags
<1>9. Read(decl).auth = decl.auth \/ Read(decl).auth = TRUE
  BY <1>1, <1>3, <1>4, <1>5, <1>8
<1>10. Read(decl).expose = decl.expose \/ Read(decl).expose = TRUE
  BY <1>1, <1>3, <1>4, <1>5, <1>8
<1> QED BY <1>6, <1>7, <1>9, <1>10

LEMMA KeptRead ==
  ASSUME NEW kind, Directory(app), NEW x \in Kept(kind)
  PROVE  /\ Declaration(x.decl) /\ x.decl.is = kind
         /\ \E m \in Visible(app) :
              \E z \in Source(app, m, DOMAIN Inside(app[m])) : z.decl = Read(x.decl)
<1>1. x \in Declared(app, kind) /\ x.decl.bound # None
      /\ \A y \in Lines(app, x.place[1], {x.place[2]}) :
           y.decl.bound = x.decl.bound => ~Earlier(x, y)
  BY Zenon DEF Kept
<1>2. PICK m \in Visible(app) : x \in Kind(Lines(app, m, DOMAIN Inside(app[m])), kind)
  BY <1>1, ImportedRead
<1>3. x \in Lines(app, m, DOMAIN Inside(app[m]))
  BY <1>2 DEF Kind
<1>4. PICK k \in DOMAIN Inside(app[m]) :
        \E d \in DOMAIN Inside(app[m])[k].own : x = Line(app, m, k, d)
  BY <1>3, LineIn
<1>5. PICK d \in DOMAIN Inside(app[m])[k].own : x = Line(app, m, k, d)
  BY <1>4
<1>6. m \in DOMAIN app
  BY DEF Visible
<1>7. x.place = <<m, k, d>>
  BY <1>5, LineFields
<1> DEFINE file == Lines(app, m, {k})
           SameName(y) == {z \in file : z.decl.bound = y.decl.bound}
           first == {y \in file : y.decl.bound # None /\ \A z \in SameName(y) : ~Earlier(z, y)}
           One(y) == [y EXCEPT !.decl = Read(Latest(SameName(y)).decl)]
           same == SameName(x)
           y0 == First(same)
<1>8. \A y : y \in file <=> \E e \in DOMAIN Inside(app[m])[k].own : y = Line(app, m, k, e)
  BY LineIn
<1>9. x \in same /\ \A y \in same : ~Earlier(x, y)
  <2>1. x \in file
    BY <1>5, <1>8
  <2>2. file = Lines(app, x.place[1], {x.place[2]})
    BY <1>7
  <2> HIDE DEF file
  <2> QED BY <1>1, <2>1, <2>2
<1>10. Within(app, same) /\ same # {}
  <2>1. \A y \in same : y \in file
    OBVIOUS
  <2> HIDE DEF file, same
  <2> QED BY <1>6, <1>8, <1>9, <2>1 DEF Within
<1>11. y0 \in same /\ \A z \in same : ~Earlier(z, y0)
  <2>1. \E y \in same : \A z \in same : ~Earlier(z, y)
    BY <1>10, WithinPlaced, FirstThere
  <2> HIDE DEF same
  <2> QED BY <2>1, Zenon DEF First
<1>12. Latest(same) = x
  <2>1. \E y \in same : \A z \in same : ~Earlier(y, z)
    BY <1>9
  <2> DEFINE y == Latest(same)
  <2>2. y \in same /\ \A z \in same : ~Earlier(y, z)
    <3> HIDE DEF same
    <3> QED BY <2>1, Zenon DEF Latest
  <2>3. \A z \in same : z \in file
    OBVIOUS
  <2> HIDE DEF y, same, file
  <2>4. PICK e \in DOMAIN Inside(app[m])[k].own : y = Line(app, m, k, e)
    BY <1>8, <2>2, <2>3
  <2>5. y.place = <<m, k, e>>
    BY <2>4, LineFields
  <2>6. m \in Nat /\ k \in Nat /\ d \in Nat /\ e \in Nat
    BY <1>6, DirectoryIs
  <2>7. ~(d < e) /\ ~(e < d)
    BY <1>7, <1>9, <2>2, <2>5, <2>6, EarlierIs
  <2>8. d = e
    BY <2>6, <2>7
  <2> QED BY <1>5, <2>4, <2>8 DEF y
<1>13. SameName(y0) = same /\ y0 \in first
  <2>1. y0 \in file /\ y0.decl.bound = x.decl.bound
    BY <1>11
  <2> HIDE DEF y0, file
  <2>2. SameName(y0) = same
    BY <2>1
  <2> QED BY <1>1, <1>11, <2>1, <2>2
<1>14. One(y0) \in Members(file)
  <2>1. Members(file) = {One(y) : y \in first}
    BY Zenon DEF Members
  <2> HIDE DEF One, first, file, y0
  <2> QED BY <1>13, <2>1
<1>15. One(y0).decl = Read(x.decl)
  <2>1. Latest(SameName(y0)).decl = x.decl
    BY <1>12, <1>13
  <2>2. PICK e \in DOMAIN Inside(app[m])[k].own : y0 = Line(app, m, k, e)
    BY <1>8, <1>11
  <2>3. [Line(app, m, k, e) EXCEPT !.decl = Read(x.decl)].decl = Read(x.decl)
    BY DEF Line
  <2> HIDE DEF y0, SameName
  <2> QED BY <2>1, <2>2, <2>3
<1>16. One(y0) \in Source(app, m, DOMAIN Inside(app[m]))
  <2> HIDE DEF One, y0
  <2> QED BY <1>14, SourceIn
<1>17. Declaration(x.decl) /\ x.decl.is = kind
  BY <1>1, DeclaredTyped
<1> QED BY <1>15, <1>16, <1>17

(* Whatever the directory: `check` has found in its source (collect.py     *)
(* against _load_app) each endpoint that importing declares and that keeps *)
(* its name, though a flag of it is computed, and takes none that is       *)
(* protected for a public one; where each declaration is read as it is, it *)
(* has found all of them as they are; and where each module is one service *)
(* it has found no more, under the services that serve it.                 *)
THEOREM LoadedIsRead == Spec => []LoadedIsExtracted
<1>1. ASSUME app \in Apps PROVE LoadedIsExtracted
  <2> DEFINE Nameless(rpc) == [rpc EXCEPT !.service = None]
  <2>0. Directory(app)
    BY <1>1, CallsAssumption
  <2>1. ASSUME NEW x \in Kept("api") PROVE ReadNoLaxer(x.decl, Meta(app).rpcs)
    <3>1. /\ Declaration(x.decl) /\ x.decl.is = "api"
          /\ \E m \in Visible(app) :
               \E z \in Source(app, m, DOMAIN Inside(app[m])) : z.decl = Read(x.decl)
      BY <2>0, KeptRead
    <3>2. PICK m \in Visible(app) :
            \E z \in Source(app, m, DOMAIN Inside(app[m])) : z.decl = Read(x.decl)
      BY <3>1
    <3>3. PICK z \in Source(app, m, DOMAIN Inside(app[m])) : z.decl = Read(x.decl)
      BY <3>2
    <3> DEFINE ep == x.decl
               r == Read(ep)
               rpc == Rpc(Extract(app, m).service, r)
    <3>4. /\ r.is = "api" /\ r.fn = ep.fn
          /\ "path" \notin ep.computed => r.path = ep.path
          /\ "method" \notin ep.computed => r.method = ep.method
          /\ ep.auth => r.auth
          /\ ep.expose => r.expose
      BY <3>1, ReadIs
    <3>5. z \in Extract(app, m).endpoints
      <4> DEFINE all == Source(app, m, DOMAIN Inside(app[m]))
      <4>1. z \in all /\ z.decl.is = "api"
        BY <3>3, <3>4
      <4>2. z \in Kind(all, "api")
        <5> HIDE DEF all, r
        <5> QED BY <4>1 DEF Kind
      <4> QED BY <4>2, SummaryIs
    <3> HIDE DEF r
    <3>6. rpc \in Meta(app).rpcs
      <4>1. z.decl = r
        BY <3>3 DEF r
      <4> QED BY <3>5, <4>1, MetaRpcs
    <3>7. /\ rpc.path = r.path /\ rpc.fn = r.fn /\ rpc.method = r.method
          /\ rpc.access = IF ~r.expose THEN "PRIVATE" ELSE IF r.auth THEN "AUTH" ELSE "PUBLIC"
      BY DEF Rpc, Access
    <3> HIDE DEF rpc
    <3>8. ep.auth => rpc.access # "PUBLIC"
      BY <3>4, <3>7
    <3>9. ep.expose => rpc.access # "PRIVATE"
      BY <3>4, <3>7
    <3> QED BY <3>4, <3>6, <3>7, <3>8, <3>9 DEF ReadNoLaxer
  <2>2. Kept("auth_handler") # {} => Meta(app).auth_handler
    <3> SUFFICES ASSUME NEW x \in Kept("auth_handler") PROVE Meta(app).auth_handler
      OBVIOUS
    <3>1. /\ Declaration(x.decl) /\ x.decl.is = "auth_handler"
          /\ \E m \in Visible(app) :
               \E z \in Source(app, m, DOMAIN Inside(app[m])) : z.decl = Read(x.decl)
      BY <2>0, KeptRead
    <3>2. PICK m \in Visible(app) :
            \E z \in Source(app, m, DOMAIN Inside(app[m])) : z.decl = Read(x.decl)
      BY <3>1
    <3>3. PICK z \in Source(app, m, DOMAIN Inside(app[m])) : z.decl = Read(x.decl)
      BY <3>2
    <3>4. z.decl.is = "auth_handler"
      <4>1. "is" \in DOMAIN x.decl /\ "is" \notin x.decl.computed
        BY <3>1 DEF Declaration, Flags, Arguments
      <4>2. Read(x.decl).is = x.decl.is
        BY <4>1 DEF Read
      <4> QED BY <3>1, <3>3, <4>2
    <3>5. Extract(app, m).auth
      <4> DEFINE all == Source(app, m, DOMAIN Inside(app[m]))
      <4>1. z \in all /\ z.decl.is = "auth_handler"
        BY <3>3, <3>4
      <4>2. z \in Kind(all, "auth_handler")
        <5> HIDE DEF all
        <5> QED BY <4>1 DEF Kind
      <4> QED BY <4>2, SummaryIs
    <3> QED BY <3>5, MetaIs
  <2>3. ASSUME Readable(app)
        PROVE  {Rpc(None, x.decl) : x \in Declared(app, "api")}
                 \subseteq {Nameless(rpc) : rpc \in Meta(app).rpcs}
    <3>1. ASSUME NEW x \in Declared(app, "api")
          PROVE  \E rpc \in Meta(app).rpcs : Rpc(None, x.decl) = Nameless(rpc)
      <4>1. PICK m \in Visible(app) :
              Rpc(Extract(app, m).service, x.decl) \in Meta(app).rpcs
        BY <2>0, <2>3, EndpointsRead
      <4>2. Rpc(None, x.decl) = Nameless(Rpc(Extract(app, m).service, x.decl))
        BY DEF Rpc
      <4> QED BY <4>1, <4>2
    <3> HIDE DEF Nameless
    <3> QED BY <3>1
  <2>4. ASSUME Readable(app)
        PROVE  Resources(Declared(app, "resource")) \subseteq Meta(app).resources
    <3> DEFINE Pair(x) == <<x.decl.of, x.decl.name>>
               all == {Extract(app, m).resources : m \in Visible(app)}
    <3>1. \A lines : Resources(lines) = {Pair(x) : x \in Kind(lines, "resource")}
      BY Zenon DEF Resources
    <3> HIDE DEF Pair
    <3>2. ASSUME NEW x \in Declared(app, "resource")
          PROVE  \E m \in Visible(app) : Pair(x) \in Extract(app, m).resources
      <4>1. PICK m \in Visible(app) :
              x \in Kind(Lines(app, m, DOMAIN Inside(app[m])), "resource")
        BY ImportedRead
      <4>2. Extract(app, m).resources = Resources(Lines(app, m, DOMAIN Inside(app[m])))
        BY <2>0, <2>4, ExtractIs
      <4> QED BY <3>1, <4>1, <4>2
    <3>3. ASSUME NEW x \in Declared(app, "resource") PROVE Pair(x) \in UNION all
      <4>1. \E s \in all : Pair(x) \in s
        BY <3>2
      <4> HIDE DEF all
      <4> QED BY <4>1, InUnion
    <3>4. Meta(app).resources = UNION all
      BY MetaIs
    <3>5. Resources(Declared(app, "resource")) =
            {Pair(x) : x \in Kind(Declared(app, "resource"), "resource")}
      BY <3>1
    <3>6. \A x \in Kind(Declared(app, "resource"), "resource") : x \in Declared(app, "resource")
      BY DEF Kind
    <3> HIDE DEF all
    <3> QED BY <3>3, <3>4, <3>5, <3>6
  <2>5. ASSUME Readable(app) PROVE HasHandler(app) => Meta(app).auth_handler
    <3> SUFFICES ASSUME NEW x \in Declared(app, "auth_handler")
                 PROVE  Meta(app).auth_handler
      BY DEF HasHandler
    <3>1. PICK m \in Visible(app) :
            x \in Kind(Lines(app, m, DOMAIN Inside(app[m])), "auth_handler")
      BY ImportedRead
    <3>2. Extract(app, m).auth
      BY <2>0, <2>5, <3>1, ExtractIs
    <3> QED BY <3>2, MetaIs
  <2>6. ASSUME Readable(app), OneServiceEach(app)
        PROVE  {Rpc(ServiceOf(app, x.module), x.decl) : x \in Declared(app, "api")} = Meta(app).rpcs
    BY <2>0, <2>6, ServicesAgree
  <2> QED BY <2>1, <2>2, <2>3, <2>4, <2>5, <2>6, Zenon DEF LoadedIsExtracted
<1>2. AppInv => LoadedIsExtracted
  BY <1>1 DEF AppInv
<1> QED BY <1>2, AppStays, PTL

-----------------------------------------------------------------------------
(* Where every module is one service: in which one an endpoint is, by its  *)
(* name, by its place and by what was read.                                *)
LEMMA EndpointPlace ==
  ASSUME NEW a, Directory(a), Readable(a), OneServiceEach(a), NEW kind, NEW x \in Declared(a, kind)
  PROVE  \E m \in Visible(a) : \E k \in DOMAIN Inside(a[m]) :
           /\ x.module = Inside(a[m])[k].at
           /\ ServiceOf(a, x.module) = Extract(a, m).service
<1>1. PICK m \in Visible(a) : x \in Kind(Lines(a, m, DOMAIN Inside(a[m])), kind)
  BY ImportedRead
<1>2. x \in Lines(a, m, DOMAIN Inside(a[m]))
  BY <1>1 DEF Kind
<1>3. PICK k \in DOMAIN Inside(a[m]) : \E d \in DOMAIN Inside(a[m])[k].own : x = Line(a, m, k, d)
  BY <1>2, LineIn
<1>4. x.module = Inside(a[m])[k].at
  BY <1>3, LineFields
<1>5. ServiceOf(a, Inside(a[m])[k].at) = Extract(a, m).service
  BY ServiceFound
<1> QED BY <1>4, <1>5

LEMMA InServiceIs ==
  ASSUME NEW a, Directory(a), Readable(a), OneServiceEach(a), NEW kind, NEW x \in Declared(a, kind), NEW svc
  PROVE  InService(a, svc, x.module) <=> svc = ServiceOf(a, x.module)
<1>1. PICK m \in Visible(a) : \E k \in DOMAIN Inside(a[m]) :
           /\ x.module = Inside(a[m])[k].at
           /\ ServiceOf(a, x.module) = Extract(a, m).service
  BY EndpointPlace
<1>2. PICK k \in DOMAIN Inside(a[m]) : /\ x.module = Inside(a[m])[k].at
                                       /\ ServiceOf(a, x.module) = Extract(a, m).service
  BY <1>1
<1> DEFINE over == ServicesOver(a, x.module)
<1>3. PICK s : over = {s} /\ s.decl.name = Extract(a, m).service
  BY <1>2, OneServiceOver
<1>4. InService(a, svc, x.module) <=> \E y \in over : y.decl.name = svc
  BY Zenon DEF InService, ServicesOver
<1> HIDE DEF over
<1> QED BY <1>2, <1>3, <1>4

(* A container that serves it is deployed.                                 *)
LEMMA ServiceDeployed ==
  ASSUME NEW a, Directory(a), Readable(a), OneServiceEach(a), NEW kind, NEW x \in Declared(a, kind)
  PROVE  ServiceOf(a, x.module) \in Containers(a)
<1>1. PICK m \in Visible(a) : ServiceOf(a, x.module) = Extract(a, m).service
  BY EndpointPlace
<1>2. PICK d \in Nat :
        Kind(Lines(a, m, DOMAIN Inside(a[m])), "service") = {Line(a, m, 1, d)}
  BY ServiceLine
<1>3. Extract(a, m).declared
  BY <1>2, ExtractIs
<1>4. Extract(a, m) \in Extracted(a)
  BY <1>3 DEF Extracted
<1> QED BY <1>1, <1>4 DEF Containers

LEMMA RpcRead ==
  ASSUME NEW a, Directory(a), Readable(a), OneServiceEach(a), NEW x \in Declared(a, "api")
  PROVE  Rpc(ServiceOf(a, x.module), x.decl) \in Meta(a).rpcs
BY ServicesAgree

(* ---- paths ------------------------------------------------------------ *)
LEMMA PrefixIs ==
  ASSUME NEW S, NEW s \in Seq(S), NEW t \in Seq(S)
  PROVE  IsPrefix(s, t) <=> Len(s) <= Len(t) /\ \A i \in 1..Len(s) : s[i] = t[i]
<1>1. ASSUME IsPrefix(s, t)
      PROVE  Len(s) <= Len(t) /\ \A i \in 1..Len(s) : s[i] = t[i]
  <2>1. Len(s) <= Len(t) /\ SubSeq(s, 1, Len(s)) = SubSeq(t, 1, Len(s))
    BY <1>1, Zenon DEF IsPrefix
  <2>2. \A i \in 1..Len(s) : /\ SubSeq(s, 1, Len(s))[i] = s[i]
                             /\ SubSeq(t, 1, Len(s))[i] = t[i]
    BY <2>1
  <2> QED BY <2>1, <2>2
<1>2. ASSUME Len(s) <= Len(t), \A i \in 1..Len(s) : s[i] = t[i]
      PROVE  IsPrefix(s, t)
  <2>1. SubSeq(s, 1, Len(s)) = SubSeq(t, 1, Len(s))
    BY <1>2
  <2> QED BY <1>2, <2>1 DEF IsPrefix
<1> QED BY <1>1, <1>2

LEMMA PrefixesOfOne ==
  ASSUME NEW S, NEW s \in Seq(S), NEW t \in Seq(S), NEW u \in Seq(S),
         IsPrefix(s, u), IsPrefix(t, u)
  PROVE  IsPrefix(s, t) \/ IsPrefix(t, s)
<1>1. /\ Len(s) <= Len(u) /\ \A i \in 1..Len(s) : s[i] = u[i]
      /\ Len(t) <= Len(u) /\ \A i \in 1..Len(t) : t[i] = u[i]
  BY PrefixIs
<1>2. CASE Len(s) <= Len(t)
  BY <1>1, <1>2, PrefixIs
<1>3. CASE Len(t) <= Len(s)
  BY <1>1, <1>3, PrefixIs
<1> QED BY <1>2, <1>3

(* What comes before the first parameter or wildcard of a path.            *)
LEMMA LiteralIs ==
  ASSUME NEW path \in Seq(STRING), NEW stops
  PROVE  /\ Literal(path, stops) \in Seq(STRING)
         /\ Len(Literal(path, stops)) <= Len(path)
         /\ \A i \in 1..Len(Literal(path, stops)) :
              Literal(path, stops)[i] = path[i] /\ path[i] \notin stops
<1> DEFINE ends == {i \in DOMAIN path : path[i] \in stops}
           end == CHOOSE i \in ends : \A j \in ends : i <= j
<1>1. Literal(path, stops) = IF ends = {} THEN path ELSE SubSeq(path, 1, end - 1)
  BY Zenon DEF Literal
<1>2. CASE ends = {}
  <2>1. Literal(path, stops) = path
    BY <1>1, <1>2
  <2>2. \A i \in 1..Len(path) : path[i] \notin stops
    BY <1>2
  <2> QED BY <2>1, <2>2
<1>3. CASE ends # {}
  <2>1. \E i \in ends : \A j \in ends : i <= j
    <3>1. ends \in SUBSET Nat
      OBVIOUS
    <3> HIDE DEF ends
    <3> QED BY <1>3, <3>1, Smallest
  <2>2. end \in ends /\ \A j \in ends : end <= j
    <3> HIDE DEF ends
    <3> QED BY <2>1, Zenon
  <2>3. end \in 1..Len(path)
    BY <2>2
  <2>4. \A i \in 1..(end - 1) : path[i] \notin stops
    <3> TAKE i \in 1..(end - 1)
    <3>1. ~(end <= i) /\ i \in DOMAIN path
      BY <2>3
    <3> HIDE DEF end
    <3>2. i \notin ends
      BY <2>2, <3>1
    <3> QED BY <3>1, <3>2
  <2>5. Literal(path, stops) = SubSeq(path, 1, end - 1)
    BY <1>1, <1>3
  <2> HIDE DEF end, ends
  <2>6. /\ SubSeq(path, 1, end - 1) \in Seq(STRING)
        /\ Len(SubSeq(path, 1, end - 1)) = end - 1
        /\ \A i \in 1..(end - 1) : SubSeq(path, 1, end - 1)[i] = path[i]
    BY <2>3
  <2> QED BY <2>3, <2>4, <2>5, <2>6
<1> QED BY <1>2, <1>3

LEMMA LiteralFits ==
  ASSUME NEW path \in Seq(STRING), NEW asked \in Seq(STRING), Matches(path, asked)
  PROVE  IsPrefix(Literal(path, Params \union Wildcards), asked)
<1> DEFINE lit == Literal(path, Params \union Wildcards)
           Fits(i) == Rank(path[i]) > 0 \/ path[i] = asked[i]
           wild == path # <<>> /\ Last(path) \in Wildcards
<1>1. /\ lit \in Seq(STRING) /\ Len(lit) <= Len(path)
      /\ \A i \in 1..Len(lit) : lit[i] = path[i] /\ path[i] \notin Params \union Wildcards
  BY LiteralIs
<1>2. /\ IF wild THEN Len(asked) >= Len(path) ELSE Len(asked) = Len(path)
      /\ \A i \in DOMAIN path : Fits(i)
  BY Zenon DEF Matches
<1> HIDE DEF lit, wild
<1>3. Len(lit) <= Len(asked)
  BY <1>1, <1>2
<1>4. \A i \in 1..Len(lit) : lit[i] = asked[i]
  <2> TAKE i \in 1..Len(lit)
  <2>1. i \in DOMAIN path
    BY <1>1
  <2>2. Rank(path[i]) = 0
    BY <1>1 DEF Rank
  <2>3. path[i] = asked[i]
    BY <1>2, <2>1, <2>2
  <2> QED BY <1>1, <2>3
<1> QED BY <1>1, <1>3, <1>4, PrefixIs DEF lit

(* A path without wildcards has the same prefix for both tables.           *)
LEMMA LiteralOfBoth ==
  ASSUME NEW path \in Seq(STRING), ToSet(path) \intersect Wildcards = {}
  PROVE  Literal(path, Params \union Wildcards) = Literal(path, Params)
<1>1. {i \in DOMAIN path : path[i] \in Params \union Wildcards} =
        {i \in DOMAIN path : path[i] \in Params}
  BY DEF ToSet
<1> DEFINE Cut(ends) ==
             LET end == CHOOSE i \in ends : \A j \in ends : i <= j
             IN  IF ends = {} THEN path ELSE SubSeq(path, 1, end - 1)
<1>2. /\ Literal(path, Params \union Wildcards) =
           Cut({i \in DOMAIN path : path[i] \in Params \union Wildcards})
      /\ Literal(path, Params) = Cut({i \in DOMAIN path : path[i] \in Params})
  BY Zenon DEF Literal
<1> HIDE DEF Cut
<1> QED BY <1>1, <1>2


-----------------------------------------------------------------------------
(* The route of the gateway: where endpoints under one prefix agree, it    *)
(* leads to the service of the endpoint that one process answers with, and *)
(* asks who it is if that one does.                                        *)
Stops == Params \union Wildcards

PrefixOf(rpc) == Literal(rpc.path, Stops)

LEMMA RpcIs ==
  ASSUME NEW svc, NEW ep
  PROVE  LET rpc == Rpc(svc, ep)
         IN  /\ rpc.service = svc /\ rpc.path = ep.path
             /\ rpc.access = IF ~ep.expose THEN "PRIVATE" ELSE IF ep.auth THEN "AUTH" ELSE "PUBLIC"
BY DEF Rpc, Access

LEMMA OneAccess ==
  ASSUME PrefixesApart, NEW r \in Meta(app).rpcs, NEW s \in Meta(app).rpcs,
         IsPrefix(PrefixOf(r), PrefixOf(s))
  PROVE  /\ r.service = s.service
         /\ r.access = "AUTH" <=> s.access = "AUTH"
         /\ r.access = "PRIVATE" <=> s.access = "PRIVATE"
<1> DEFINE Of(rpc) == [prefix  |-> Literal(rpc.path, Params \union Wildcards),
                       service |-> rpc.service,
                       auth    |-> rpc.access = "AUTH",
                       private |-> rpc.access = "PRIVATE"]
           all == {Of(rpc) : rpc \in Meta(app).rpcs}
<1>1. \A p, q \in all : IsPrefix(p.prefix, q.prefix) => p = [q EXCEPT !.prefix = p.prefix]
  BY Zenon DEF PrefixesApart
<1>2. Of(r) \in all /\ Of(s) \in all
  <2> HIDE DEF Of
  <2> QED OBVIOUS
<1>3. Of(r).prefix = PrefixOf(r) /\ Of(s).prefix = PrefixOf(s)
  BY DEF PrefixOf, Stops
<1>4. Of(r) = [Of(s) EXCEPT !.prefix = Of(r).prefix]
  <2> HIDE DEF Of, all
  <2> QED BY <1>1, <1>2, <1>3
<1>5. Of(r).service = Of(s).service /\ Of(r).auth = Of(s).auth /\ Of(r).private = Of(s).private
  <2>1. /\ [Of(s) EXCEPT !.prefix = Of(r).prefix].service = Of(s).service
        /\ [Of(s) EXCEPT !.prefix = Of(r).prefix].auth = Of(s).auth
        /\ [Of(s) EXCEPT !.prefix = Of(r).prefix].private = Of(s).private
    OBVIOUS
  <2> HIDE DEF Of
  <2> QED BY <1>4, <2>1
<1> QED BY <1>5

RouteFields == {"key", "place", "prefix", "service", "auth"}

LEMMA MergedIs ==
  ASSUME NEW routes, \A q \in routes : RouteFields \subseteq DOMAIN q, NEW r \in Merged(routes)
  PROVE  \E q \in routes : /\ r.key = q.key /\ r.place = q.place
                           /\ r.prefix = q.prefix /\ r.service = q.service
                           /\ r.auth = \E s \in routes : s.key = q.key /\ s.auth
<1> DEFINE SameKey(q) == {s \in routes : s.key = q.key}
           firsts == {q \in routes : \A s \in SameKey(q) : ~Earlier(s, q)}
           Summed(q) == [q EXCEPT !.auth = \E s \in SameKey(q) : s.auth]
<1>1. Merged(routes) = {Summed(q) : q \in firsts}
  BY Zenon DEF Merged
<1>2. PICK q \in firsts : r = Summed(q)
  <2> HIDE DEF firsts, Summed
  <2> QED BY <1>1
<1>3. q \in routes
  OBVIOUS
<1>4. RouteFields \subseteq DOMAIN q
  BY <1>3
<1>5. /\ r.key = q.key /\ r.place = q.place /\ r.prefix = q.prefix /\ r.service = q.service
      /\ r.auth = \E s \in SameKey(q) : s.auth
  <2> HIDE DEF SameKey, firsts
  <2> QED BY <1>2, <1>4 DEF RouteFields
<1>6. (\E s \in SameKey(q) : s.auth) = \E s \in routes : s.key = q.key /\ s.auth
  OBVIOUS
<1> HIDE DEF SameKey, firsts
<1> QED BY <1>3, <1>5, <1>6

LEMMA MergedHas ==
  ASSUME NEW routes, \A q \in routes : RouteFields \subseteq DOMAIN q, Placed(routes),
         NEW q \in routes
  PROVE  \E r \in Merged(routes) : r.key = q.key
<1> DEFINE SameKey(p) == {s \in routes : s.key = p.key}
           firsts == {p \in routes : \A s \in SameKey(p) : ~Earlier(s, p)}
           Summed(p) == [p EXCEPT !.auth = \E s \in SameKey(p) : s.auth]
<1>1. Merged(routes) = {Summed(p) : p \in firsts}
  BY Zenon DEF Merged
<1>2. PICK f \in SameKey(q) : \A s \in SameKey(q) : ~Earlier(s, f)
  <2>1. q \in SameKey(q) /\ SameKey(q) \subseteq routes
    OBVIOUS
  <2>2. Placed(SameKey(q))
    BY DEF Placed
  <2> HIDE DEF SameKey
  <2> QED BY <2>1, <2>2, FirstThere
<1>3. f \in routes /\ f.key = q.key
  OBVIOUS
<1>4. SameKey(f) = SameKey(q)
  BY <1>3
<1>5. f \in firsts
  <2> HIDE DEF SameKey
  <2> QED BY <1>2, <1>3, <1>4
<1>6. Summed(f) \in Merged(routes)
  <2> HIDE DEF firsts, Summed
  <2> QED BY <1>1, <1>5
<1>7. RouteFields \subseteq DOMAIN f
  BY <1>3
<1>8. Summed(f).key = f.key
  <2> HIDE DEF SameKey
  <2> QED BY <1>7 DEF RouteFields
<1> HIDE DEF Summed
<1> QED BY <1>3, <1>6, <1>8

LEMMA PickedIs ==
  ASSUME NEW routes, NEW asked, NEW r \in PickRoute(routes, asked)
  PROVE  r \in routes /\ IsPrefix(r.prefix, asked)
BY Zenon DEF PickRoute

LEMMA PickedThere ==
  ASSUME NEW routes, Placed(routes), NEW asked \in Seq(STRING),
         \A r \in routes : r.prefix \in Seq(STRING),
         NEW route \in routes, IsPrefix(route.prefix, asked)
  PROVE  PickRoute(routes, asked) # {}
<1> DEFINE fit == {r \in routes : IsPrefix(r.prefix, asked)}
           Loses(r, s) == \/ Len(r.prefix) < Len(s.prefix)
                          \/ Len(r.prefix) = Len(s.prefix) /\ Earlier(s, r)
           lens == {Len(r.prefix) : r \in fit}
<1>1. PickRoute(routes, asked) = {r \in fit : \A s \in fit : ~Loses(r, s)}
  BY Zenon DEF PickRoute
<1>2. \A r \in fit : /\ r \in routes /\ r.prefix \in Seq(STRING)
                     /\ Len(r.prefix) \in Nat /\ Len(r.prefix) <= Len(asked)
  BY PrefixIs
<1>3. route \in fit
  OBVIOUS
<1>4. PICK n \in lens : \A i \in lens : i <= n
  <2>1. Len(route.prefix) \in lens
    BY <1>3
  <2>2. \A i \in lens : i \in Nat /\ i <= Len(asked)
    <3> HIDE DEF fit
    <3> QED BY <1>2
  <2>3. Len(asked) \in Nat
    OBVIOUS
  <2> HIDE DEF lens
  <2> QED BY <2>1, <2>2, <2>3, Largest
<1> DEFINE longest == {r \in fit : Len(r.prefix) = n}
<1>5. PICK r \in longest : \A s \in longest : ~Earlier(s, r)
  <2>1. longest # {}
    <3> HIDE DEF fit
    <3> QED BY <1>4
  <2>2. Placed(longest)
    BY DEF Placed
  <2> HIDE DEF longest
  <2> QED BY <2>1, <2>2, FirstThere
<1>6. r \in fit /\ Len(r.prefix) = n
  OBVIOUS
<1>7. \A s \in fit : ~Loses(r, s)
  <2> TAKE s \in fit
  <2>1. Len(s.prefix) \in lens
    <3> HIDE DEF fit
    <3> QED OBVIOUS
  <2>2. Len(s.prefix) <= n
    <3> HIDE DEF lens
    <3> QED BY <1>4, <2>1
  <2>3. Len(s.prefix) = n => s \in longest
    <3> HIDE DEF fit
    <3> QED OBVIOUS
  <2>4. Len(s.prefix) \in Nat /\ Len(r.prefix) \in Nat
    BY <1>2, <1>6
  <2> HIDE DEF longest, fit
  <2> QED BY <1>5, <1>6, <2>2, <2>3, <2>4
<1> HIDE DEF fit, Loses
<1> QED BY <1>1, <1>6, <1>7

(* Routes before they are merged, each for something that was read.        *)
StandsFor(route, rpc) ==
  /\ RouteFields \subseteq DOMAIN route
  /\ route.prefix = PrefixOf(rpc) /\ route.service = rpc.service
  /\ rpc.path \in Seq(STRING)
  /\ rpc.access # "PRIVATE" => (route.auth <=> rpc.access = "AUTH")

Table(raw) ==
  /\ Routes = Merged(raw)
  /\ Placed(raw)
  /\ \A q \in raw : \E rpc \in Meta(app).rpcs : StandsFor(q, rpc)
  /\ \A p, q \in raw : p.key = q.key => p.prefix = q.prefix

LEMMA RouteLeads ==
  ASSUME PrefixesApart, NEW raw, Table(raw),
         NEW asked \in Seq(STRING), NEW hit \in Meta(app).rpcs,
         hit.access # "PRIVATE", hit.path \in Seq(STRING), IsPrefix(PrefixOf(hit), asked),
         NEW route \in raw, route.prefix = PrefixOf(hit)
  PROVE  /\ PickRoute(Routes, asked) # {}
         /\ \A r \in PickRoute(Routes, asked) :
              r.service = hit.service /\ (r.auth <=> hit.access = "AUTH")
<1>1. \A q \in raw : RouteFields \subseteq DOMAIN q
  BY DEF Table, StandsFor
<1>2. \A r \in Routes : \E q \in raw : /\ r.key = q.key /\ r.place = q.place
                                       /\ r.prefix = q.prefix /\ r.service = q.service
                                       /\ r.auth = \E s \in raw : s.key = q.key /\ s.auth
  <2> TAKE r \in Routes
  <2>1. r \in Merged(raw)
    BY Zenon DEF Table
  <2> QED BY <1>1, <2>1, MergedIs, ZenonT(60)
<1>3. \A q \in raw : q.prefix \in Seq(STRING)
  BY LiteralIs DEF Table, StandsFor, PrefixOf
<1>4. PrefixOf(hit) \in Seq(STRING)
  BY LiteralIs DEF PrefixOf
<1>5. PickRoute(Routes, asked) # {}
  <2>1. PICK r \in Routes : r.key = route.key
    BY <1>1, MergedHas DEF Table
  <2>2. r.prefix = route.prefix
    <3>1. PICK q \in raw : q.key = r.key /\ q.prefix = r.prefix
      BY <1>2
    <3> QED BY <2>1, <3>1 DEF Table
  <2>3. Placed(Routes)
    <3>1. \A r1 \in Routes : \E q \in raw : r1.place = q.place
      BY <1>2
    <3>2. \A q \in raw : \E m \in Nat, k \in Nat, d \in Nat : q.place = <<m, k, d>>
      BY DEF Table, Placed
    <3> SUFFICES ASSUME NEW r1 \in Routes
                 PROVE  \E m \in Nat, k \in Nat, d \in Nat : r1.place = <<m, k, d>>
      BY DEF Placed
    <3>3. PICK q \in raw : r1.place = q.place
      BY <3>1
    <3> QED BY <3>2, <3>3
  <2>4. \A r1 \in Routes : r1.prefix \in Seq(STRING)
    BY <1>2, <1>3
  <2> QED BY <2>1, <2>2, <2>3, <2>4, PickedThere
<1>6. ASSUME NEW r \in PickRoute(Routes, asked)
      PROVE  r.service = hit.service /\ (r.auth <=> hit.access = "AUTH")
  <2>1. r \in Routes /\ IsPrefix(r.prefix, asked)
    BY PickedIs
  <2>2. PICK q \in raw : /\ r.key = q.key
                         /\ r.prefix = q.prefix /\ r.service = q.service
                         /\ r.auth = \E s \in raw : s.key = q.key /\ s.auth
    BY <1>2, <2>1
  <2>3. \A rpc \in Meta(app).rpcs : PrefixOf(rpc) = q.prefix =>
          /\ rpc.service = hit.service
          /\ rpc.access = "AUTH" <=> hit.access = "AUTH"
          /\ rpc.access # "PRIVATE"
    <3> TAKE rpc \in Meta(app).rpcs
    <3> HAVE PrefixOf(rpc) = q.prefix
    <3>1. IsPrefix(PrefixOf(rpc), PrefixOf(hit)) \/ IsPrefix(PrefixOf(hit), PrefixOf(rpc))
      BY <1>3, <1>4, <2>1, <2>2, PrefixesOfOne
    <3> QED BY <3>1, OneAccess
  <2>4. \A s \in raw : s.key = q.key =>
          s.service = hit.service /\ (s.auth <=> hit.access = "AUTH")
    <3> TAKE s \in raw
    <3> HAVE s.key = q.key
    <3>1. s.prefix = q.prefix
      BY DEF Table
    <3>2. PICK rpc \in Meta(app).rpcs : StandsFor(s, rpc)
      BY DEF Table
    <3> QED BY <2>3, <3>1, <3>2 DEF StandsFor
  <2> QED BY <2>2, <2>4
<1> QED BY <1>5, <1>6


(* `vignemale gateway`: a route for each endpoint that was read.           *)
BuiltRoute(svc, e) ==
  LET prefix == Literal(e.decl.path, Stops)
  IN  [key |-> prefix, place |-> e.place,
       prefix |-> prefix, service |-> svc, auth |-> e.decl.auth]

(* VIGNEMALE_ROLE=gateway: one for each exposed endpoint that is loaded.   *)
LoadedRoute(x) ==
  LET prefix == Literal(x.decl.path, Params)
      svc == ServiceOf(app, x.module)
  IN  [key |-> <<prefix, svc>>, place |-> x.place,
       prefix |-> prefix, service |-> svc, auth |-> x.decl.auth]

LEMMA ReadTyped ==
  ASSUME NEW a, Directory(a), Readable(a), NEW m \in Visible(a), NEW e \in Extract(a, m).endpoints
  PROVE  /\ Declaration(e.decl) /\ e.decl.is = "api"
         /\ \E n \in Nat, k \in Nat, d \in Nat : e.place = <<n, k, d>>
<1>1. e \in Kind(Lines(a, m, DOMAIN Inside(a[m])), "api")
  BY ExtractIs
<1>2. e.decl.is = "api" /\ e \in Lines(a, m, DOMAIN Inside(a[m]))
  BY <1>1 DEF Kind
<1>3. PICK k \in DOMAIN Inside(a[m]) : \E d \in DOMAIN Inside(a[m])[k].own : e = Line(a, m, k, d)
  BY <1>2, LineIn
<1>4. PICK d \in DOMAIN Inside(a[m])[k].own : e = Line(a, m, k, d)
  BY <1>3
<1>5. m \in DOMAIN a
  BY DEF Visible
<1>6. m \in Nat /\ k \in Nat /\ d \in Nat /\ Declaration(Inside(a[m])[k].own[d])
  BY <1>5, DirectoryIs
<1>7. e.place = <<m, k, d>> /\ e.decl = Inside(a[m])[k].own[d]
  BY <1>4, LineFields
<1> QED BY <1>2, <1>6, <1>7

LEMMA EndpointTyped ==
  ASSUME NEW decl, Declaration(decl), decl.is = "api"
  PROVE  /\ decl.path \in Seq(STRING) /\ decl.auth \in BOOLEAN /\ decl.expose \in BOOLEAN
         /\ decl.calls \in Seq(ToSet(decl.calls))
BY DEF Declaration

LEMMA StaticTable ==
  ASSUME Directory(app), Readable(app), topo.table = "static"
  PROVE  \E raw : /\ Table(raw)
                  /\ \A rpc \in Meta(app).rpcs : \E q \in raw : q.prefix = PrefixOf(rpc)
<1> DEFINE Of(x) == {BuiltRoute(x.service, e) : e \in x.endpoints}
           sets == {Of(x) : x \in Extracted(app)}
           raw == UNION sets
<1>1. Routes = Merged(raw)
  <2>1. Routes = BuildRoutes(app)
    BY DEF Routes
  <2>2. BuildRoutes(app) = Merged(raw)
    BY Zenon DEF BuildRoutes, BuiltRoute, Stops
  <2> QED BY <2>1, <2>2
<1>2. ASSUME NEW q
      PROVE  q \in raw <=> \E m \in Visible(app) : \E e \in Extract(app, m).endpoints :
                             q = BuiltRoute(Extract(app, m).service, e)
  <2>1. q \in raw <=> \E s \in sets : q \in s
    <3> HIDE DEF sets
    <3> QED BY InUnion
  <2>2. (\E s \in sets : q \in s) <=> \E x \in Extracted(app) : q \in Of(x)
    <3> HIDE DEF Of
    <3> QED OBVIOUS
  <2>3. \A x : q \in Of(x) <=> \E e \in x.endpoints : q = BuiltRoute(x.service, e)
    OBVIOUS
  <2>4. \A m \in Visible(app) : Extract(app, m).endpoints # {} => Extract(app, m) \in Extracted(app)
    BY DEF Extracted
  <2>5. \A x \in Extracted(app) : \E m \in Visible(app) : x = Extract(app, m)
    BY DEF Extracted
  <2> HIDE DEF sets, Of
  <2> QED BY <2>1, <2>2, <2>3, <2>4, <2>5
<1> HIDE DEF raw
<1>3. ASSUME NEW svc, NEW e
      PROVE  LET q == BuiltRoute(svc, e)
             IN  /\ RouteFields \subseteq DOMAIN q
                 /\ q.key = Literal(e.decl.path, Stops) /\ q.prefix = q.key
                 /\ q.place = e.place /\ q.service = svc /\ q.auth = e.decl.auth
  BY DEF BuiltRoute, RouteFields
<1>4. Placed(raw)
  <2> SUFFICES ASSUME NEW q \in raw
               PROVE  \E n \in Nat, k \in Nat, d \in Nat : q.place = <<n, k, d>>
    BY DEF Placed
  <2>1. PICK m \in Visible(app) : \E e \in Extract(app, m).endpoints :
                             q = BuiltRoute(Extract(app, m).service, e)
    BY <1>2
  <2>2. PICK e \in Extract(app, m).endpoints : q = BuiltRoute(Extract(app, m).service, e)
    BY <2>1
  <2>3. q.place = e.place
    BY <1>3, <2>2
  <2> QED BY <2>3, ReadTyped
<1>5. \A q \in raw : \E rpc \in Meta(app).rpcs : StandsFor(q, rpc)
  <2> TAKE q \in raw
  <2>1. PICK m \in Visible(app) : \E e \in Extract(app, m).endpoints :
                             q = BuiltRoute(Extract(app, m).service, e)
    BY <1>2
  <2>2. PICK e \in Extract(app, m).endpoints : q = BuiltRoute(Extract(app, m).service, e)
    BY <2>1
  <2> DEFINE rpc == Rpc(Extract(app, m).service, e.decl)
  <2>3. rpc \in Meta(app).rpcs
    BY MetaRpcs
  <2>4. /\ rpc.service = Extract(app, m).service /\ rpc.path = e.decl.path
        /\ rpc.access = IF ~e.decl.expose THEN "PRIVATE" ELSE IF e.decl.auth THEN "AUTH" ELSE "PUBLIC"
    BY RpcIs
  <2>5. Declaration(e.decl) /\ e.decl.is = "api"
    BY ReadTyped
  <2>6. e.decl.path \in Seq(STRING) /\ e.decl.auth \in BOOLEAN
    BY <2>5, EndpointTyped
  <2> HIDE DEF rpc
  <2>7. /\ RouteFields \subseteq DOMAIN q
        /\ q.prefix = PrefixOf(rpc) /\ q.service = rpc.service /\ q.auth = e.decl.auth
    BY <1>3, <2>2, <2>4 DEF PrefixOf
  <2>8. StandsFor(q, rpc)
    BY <2>4, <2>6, <2>7 DEF StandsFor
  <2> QED BY <2>3, <2>8
<1>6. \A p, q \in raw : p.key = q.key => p.prefix = q.prefix
  <2>1. \A q \in raw : q.prefix = q.key
    BY <1>2, <1>3
  <2> QED BY <2>1
<1>7. \A rpc \in Meta(app).rpcs : \E q \in raw : q.prefix = PrefixOf(rpc)
  <2> TAKE rpc \in Meta(app).rpcs
  <2>1. PICK m \in Visible(app) : \E e \in Extract(app, m).endpoints :
                             rpc = Rpc(Extract(app, m).service, e.decl)
    BY MetaRpcs
  <2>2. PICK e \in Extract(app, m).endpoints : rpc = Rpc(Extract(app, m).service, e.decl)
    BY <2>1
  <2>3. BuiltRoute(Extract(app, m).service, e) \in raw
    BY <1>2
  <2>4. BuiltRoute(Extract(app, m).service, e).prefix = PrefixOf(rpc)
    BY <1>3, <2>2, RpcIs DEF PrefixOf
  <2> QED BY <2>3, <2>4
<1>8. Table(raw)
  BY <1>1, <1>4, <1>5, <1>6 DEF Table
<1> QED BY <1>7, <1>8

LEMMA RuntimeTable ==
  ASSUME Directory(app), Deployed, PrefixesApart, topo.table = "runtime"
  PROVE  \E raw : /\ Table(raw)
                  /\ \A x \in Declared(app, "api") : x.decl.expose =>
                       \E q \in raw : q.prefix = PrefixOf(Rpc(ServiceOf(app, x.module), x.decl))
<1> DEFINE known == topo.known
           shown == {y \in Declared(app, "api") : y.decl.expose /\ ServiceOf(app, y.module) \in known}
           raw == {LoadedRoute(x) : x \in shown}
<1>1. Routes = Merged(raw)
  <2>1. Routes = GatewayRoutes(app, topo.known)
    BY DEF Routes
  <2>2. GatewayRoutes(app, topo.known) = Merged(raw)
    BY Zenon DEF GatewayRoutes, LoadedRoute
  <2> QED BY <2>1, <2>2
<1>2. OneServiceEach(app) /\ Readable(app) /\ topo.known = Containers(app)
  BY DEF Deployed
<1>3. \A x \in shown : x \in Declared(app, "api") /\ x.decl.expose
  OBVIOUS
<1>4. \A x \in Declared(app, "api") : x.decl.expose => x \in shown
  BY <1>2, ServiceDeployed
<1> HIDE DEF shown
<1>5. ASSUME NEW x
      PROVE  LET q == LoadedRoute(x)
             IN  /\ RouteFields \subseteq DOMAIN q
                 /\ q.key = <<q.prefix, q.service>> /\ q.prefix = Literal(x.decl.path, Params)
                 /\ q.place = x.place /\ q.service = ServiceOf(app, x.module)
                 /\ q.auth = x.decl.auth
  BY DEF LoadedRoute, RouteFields
<1>6. ASSUME NEW x \in shown
      PROVE  LET rpc == Rpc(ServiceOf(app, x.module), x.decl)
             IN  /\ rpc \in Meta(app).rpcs
                 /\ StandsFor(LoadedRoute(x), rpc)
                 /\ LoadedRoute(x).prefix = PrefixOf(rpc)
  <2> DEFINE rpc == Rpc(ServiceOf(app, x.module), x.decl)
             q == LoadedRoute(x)
  <2>1. rpc \in Meta(app).rpcs
    BY <1>2, <1>3, RpcRead
  <2>2. /\ rpc.service = ServiceOf(app, x.module) /\ rpc.path = x.decl.path
        /\ rpc.access = IF ~x.decl.expose THEN "PRIVATE" ELSE IF x.decl.auth THEN "AUTH" ELSE "PUBLIC"
    BY RpcIs
  <2>3. Declaration(x.decl) /\ x.decl.is = "api"
    BY <1>3, DeclaredTyped
  <2>4. x.decl.path \in Seq(STRING) /\ x.decl.auth \in BOOLEAN
    BY <2>3, EndpointTyped
  <2>5. ToSet(rpc.path) \intersect Wildcards = {}
    <3> HIDE DEF rpc
    <3> QED BY <2>1, Zenon DEF PrefixesApart
  <2>6. Literal(x.decl.path, Stops) = Literal(x.decl.path, Params)
    <3> HIDE DEF rpc
    <3> QED BY <2>2, <2>4, <2>5, LiteralOfBoth DEF Stops
  <2>7. /\ RouteFields \subseteq DOMAIN q /\ q.prefix = Literal(x.decl.path, Params)
        /\ q.service = ServiceOf(app, x.module) /\ q.auth = x.decl.auth
    BY <1>5
  <2> HIDE DEF rpc, q
  <2>8. q.prefix = PrefixOf(rpc)
    BY <2>2, <2>6, <2>7 DEF PrefixOf
  <2>9. StandsFor(q, rpc)
    BY <2>2, <2>4, <2>7, <2>8 DEF StandsFor
  <2> QED BY <2>1, <2>8, <2>9 DEF rpc, q
<1>7. Placed(raw)
  <2> SUFFICES ASSUME NEW x \in shown
               PROVE  \E n \in Nat, k \in Nat, d \in Nat : LoadedRoute(x).place = <<n, k, d>>
    BY DEF Placed
  <2>1. Placed({x})
    BY <1>3, DeclaredWithin, WithinPlaced
  <2>2. \E n \in Nat, k \in Nat, d \in Nat : x.place = <<n, k, d>>
    BY <2>1 DEF Placed
  <2> QED BY <1>5, <2>2
<1>8. \A q \in raw : \E rpc \in Meta(app).rpcs : StandsFor(q, rpc)
  BY <1>6
<1>9. \A p, q \in raw : p.key = q.key => p.prefix = q.prefix
  <2>1. \A q \in raw : q.key = <<q.prefix, q.service>>
    BY <1>5
  <2> HIDE DEF raw
  <2> QED BY <2>1
<1>10. \A x \in Declared(app, "api") : x.decl.expose =>
         \E q \in raw : q.prefix = PrefixOf(Rpc(ServiceOf(app, x.module), x.decl))
  BY <1>4, <1>6
<1>11. Table(raw)
  <2> HIDE DEF raw
  <2> QED BY <1>1, <1>7, <1>8, <1>9 DEF Table
<1> HIDE DEF raw
<1> QED BY <1>10, <1>11

LEMMA GatewayLeads ==
  ASSUME Directory(app), Deployed, PrefixesApart, topo.table \in {"static", "runtime"},
         NEW asked \in Seq(STRING), NEW h \in Declared(app, "api"),
         h.decl.expose, Matches(h.decl.path, asked)
  PROVE  /\ PickRoute(Routes, asked) # {}
         /\ \A r \in PickRoute(Routes, asked) :
              r.service = ServiceOf(app, h.module) /\ (r.auth <=> h.decl.auth)
<1> DEFINE hit == Rpc(ServiceOf(app, h.module), h.decl)
<1>1. hit \in Meta(app).rpcs
  BY RpcRead DEF Deployed
<1>2. Declaration(h.decl) /\ h.decl.is = "api"
  BY DeclaredTyped
<1>3. h.decl.path \in Seq(STRING) /\ h.decl.auth \in BOOLEAN
  BY <1>2, EndpointTyped
<1>4. /\ hit.service = ServiceOf(app, h.module) /\ hit.path = h.decl.path
      /\ hit.access = IF h.decl.auth THEN "AUTH" ELSE "PUBLIC"
  BY RpcIs
<1> HIDE DEF hit
<1>5. IsPrefix(PrefixOf(hit), asked)
  BY <1>3, <1>4, LiteralFits DEF PrefixOf, Stops
<1>6. PICK raw : Table(raw) /\ \E q \in raw : q.prefix = PrefixOf(hit)
  <2>1. CASE topo.table = "static"
    BY <1>1, <2>1, StaticTable DEF Deployed
  <2>2. CASE topo.table = "runtime"
    BY <2>2, RuntimeTable DEF hit
  <2> QED BY <2>1, <2>2
<1>7. PICK q \in raw : q.prefix = PrefixOf(hit)
  BY <1>6
<1>8. hit.access # "PRIVATE" /\ hit.path \in Seq(STRING) /\ (hit.access = "AUTH" <=> h.decl.auth)
  BY <1>3, <1>4
<1> QED BY <1>1, <1>4, <1>5, <1>6, <1>7, <1>8, RouteLeads


(* Endpoints for one path are of one service and one kind.                 *)
LEMMA MatchesAgree ==
  ASSUME Directory(app), Deployed, PrefixesApart, NEW asked \in Seq(STRING),
         NEW h \in Declared(app, "api"), Matches(h.decl.path, asked),
         NEW x \in Declared(app, "api"), Matches(x.decl.path, asked)
  PROVE  /\ ServiceOf(app, x.module) = ServiceOf(app, h.module)
         /\ h.decl.expose => (x.decl.auth <=> h.decl.auth)
<1>1. ASSUME NEW y \in Declared(app, "api"), Matches(y.decl.path, asked)
      PROVE  LET rpc == Rpc(ServiceOf(app, y.module), y.decl)
             IN  /\ rpc \in Meta(app).rpcs
                 /\ rpc.service = ServiceOf(app, y.module)
                 /\ rpc.access = "AUTH" <=> y.decl.expose /\ y.decl.auth
                 /\ rpc.access = "PRIVATE" <=> ~y.decl.expose
                 /\ PrefixOf(rpc) \in Seq(STRING) /\ IsPrefix(PrefixOf(rpc), asked)
                 /\ y.decl.auth \in BOOLEAN /\ y.decl.expose \in BOOLEAN
  <2> DEFINE rpc == Rpc(ServiceOf(app, y.module), y.decl)
  <2>1. rpc \in Meta(app).rpcs
    BY RpcRead DEF Deployed
  <2>2. Declaration(y.decl) /\ y.decl.is = "api"
    BY DeclaredTyped
  <2>3. y.decl.path \in Seq(STRING) /\ y.decl.auth \in BOOLEAN /\ y.decl.expose \in BOOLEAN
    BY <2>2, EndpointTyped
  <2>4. /\ rpc.service = ServiceOf(app, y.module) /\ rpc.path = y.decl.path
        /\ rpc.access = IF ~y.decl.expose THEN "PRIVATE" ELSE IF y.decl.auth THEN "AUTH" ELSE "PUBLIC"
    BY RpcIs
  <2> HIDE DEF rpc
  <2>5. PrefixOf(rpc) \in Seq(STRING) /\ IsPrefix(PrefixOf(rpc), asked)
    BY <1>1, <2>3, <2>4, LiteralIs, LiteralFits DEF PrefixOf, Stops
  <2>6. rpc.access = "AUTH" <=> y.decl.expose /\ y.decl.auth
    BY <2>3, <2>4
  <2>7. rpc.access = "PRIVATE" <=> ~y.decl.expose
    BY <2>3, <2>4
  <2> QED BY <2>1, <2>3, <2>4, <2>5, <2>6, <2>7 DEF rpc
<1> DEFINE r == Rpc(ServiceOf(app, x.module), x.decl)
           s == Rpc(ServiceOf(app, h.module), h.decl)
<1>2. /\ r \in Meta(app).rpcs /\ r.service = ServiceOf(app, x.module)
      /\ r.access = "AUTH" <=> x.decl.expose /\ x.decl.auth
      /\ r.access = "PRIVATE" <=> ~x.decl.expose
      /\ PrefixOf(r) \in Seq(STRING) /\ IsPrefix(PrefixOf(r), asked)
      /\ x.decl.auth \in BOOLEAN /\ x.decl.expose \in BOOLEAN
  BY <1>1
<1>3. /\ s \in Meta(app).rpcs /\ s.service = ServiceOf(app, h.module)
      /\ s.access = "AUTH" <=> h.decl.expose /\ h.decl.auth
      /\ s.access = "PRIVATE" <=> ~h.decl.expose
      /\ PrefixOf(s) \in Seq(STRING) /\ IsPrefix(PrefixOf(s), asked)
      /\ h.decl.auth \in BOOLEAN /\ h.decl.expose \in BOOLEAN
  BY <1>1
<1> HIDE DEF r, s
<1>4. IsPrefix(PrefixOf(r), PrefixOf(s)) \/ IsPrefix(PrefixOf(s), PrefixOf(r))
  BY <1>2, <1>3, PrefixesOfOne
<1>5. /\ r.service = s.service
      /\ r.access = "AUTH" <=> s.access = "AUTH"
      /\ r.access = "PRIVATE" <=> s.access = "PRIVATE"
  BY <1>2, <1>3, <1>4, OneAccess
<1> QED BY <1>2, <1>3, <1>5

LEMMA ServedIs ==
  ASSUME NEW a, Directory(a), Readable(a), OneServiceEach(a), NEW proc, NEW x
  PROVE  x \in Served(a, proc) <=>
           /\ x \in Declared(a, "api")
           /\ IsService(a, proc) => proc = ServiceOf(a, x.module)
<1>1. x \in Served(a, proc) <=> /\ x \in Declared(a, "api")
                                /\ IsService(a, proc) => InService(a, proc, x.module)
  BY Zenon DEF Served
<1> QED BY <1>1, InServiceIs

LEMMA HitIs ==
  ASSUME NEW a, NEW proc, NEW asked, NEW method,
         NEW ep \in Hit(a, proc, asked, method)
  PROVE  \E x \in Served(a, proc) : x.decl = ep /\ x.decl.expose /\ Matches(x.decl.path, asked)
<1>1. ep \in {x.decl : x \in Served(a, proc)} /\ ep.expose /\ Matches(ep.path, asked)
  BY Zenon DEF Hit, Found
<1> QED BY <1>1

(* Its container answers with the endpoint the one process answers with.   *)
LEMMA HitsAgree ==
  ASSUME Directory(app), Deployed, PrefixesApart, NEW asked \in Seq(STRING),
         NEW method,
         NEW h \in Served(app, "app"), h.decl.expose, Matches(h.decl.path, asked)
  PROVE  /\ Hit(app, ServiceOf(app, h.module), asked, method) = Hit(app, "app", asked, method)
         /\ \A ep \in Hit(app, "app", asked, method) : ep.auth <=> h.decl.auth
<1> DEFINE svc == ServiceOf(app, h.module)
           Hits(proc) == {ep \in {x.decl : x \in Served(app, proc)} :
                            ep.expose /\ Matches(ep.path, asked)}
<1>1. OneServiceEach(app) /\ Readable(app)
  BY DEF Deployed
<1>2. h \in Declared(app, "api") /\ (IsService(app, "app") => "app" = svc)
  BY <1>1, ServedIs
<1>3. ASSUME NEW x \in Declared(app, "api"), Matches(x.decl.path, asked)
      PROVE  ServiceOf(app, x.module) = svc /\ (x.decl.auth <=> h.decl.auth)
  BY <1>2, <1>3, MatchesAgree
<1>4. ASSUME NEW x, Matches(x.decl.path, asked)
      PROVE  x \in Served(app, svc) <=> x \in Served(app, "app")
  <2>1. x \in Served(app, svc) <=>
          x \in Declared(app, "api") /\ (IsService(app, svc) => svc = ServiceOf(app, x.module))
    BY <1>1, ServedIs
  <2>2. x \in Served(app, "app") <=>
          x \in Declared(app, "api") /\ (IsService(app, "app") => "app" = ServiceOf(app, x.module))
    BY <1>1, ServedIs
  <2> HIDE DEF svc
  <2> QED BY <1>2, <1>3, <1>4, <2>1, <2>2
<1>5. Hits(svc) = Hits("app")
  <2>1. ASSUME NEW ep
        PROVE  ep \in Hits(svc) <=> ep \in Hits("app")
    <3> HIDE DEF svc
    <3> QED BY <1>4
  <2> HIDE DEF Hits
  <2> QED BY <2>1
<1>6. \A proc : Found(app, proc, asked) =
        {ep \in Hits(proc) : \A other \in Hits(proc) : ~Before(other.path, ep.path)}
  BY Zenon DEF Found
<1>7. Hit(app, svc, asked, method) = Hit(app, "app", asked, method)
  <2> HIDE DEF Hits, svc
  <2>1. Found(app, svc, asked) = Found(app, "app", asked)
    BY <1>5, <1>6
  <2> QED BY <2>1, Zenon DEF Hit
<1>8. ASSUME NEW ep \in Hit(app, "app", asked, method)
      PROVE  ep.auth <=> h.decl.auth
  <2>1. PICK x \in Served(app, "app") : x.decl = ep /\ Matches(x.decl.path, asked)
    BY HitIs
  <2>2. x \in Declared(app, "api")
    BY <1>1, ServedIs
  <2> QED BY <1>3, <2>1, <2>2
<1> QED BY <1>7, <1>8

(* ---- both ways of calling find the same endpoint ---------------------- *)
Callers(a) == {x.decl : x \in Declared(a, "api") \union Declared(a, "auth_handler")}

LEMMA CallerTyped ==
  ASSUME NEW a, Directory(a), NEW ep \in Callers(a)
  PROVE  ep.calls \in Seq(ToSet(ep.calls))
<1>1. PICK x \in Declared(a, "api") \union Declared(a, "auth_handler") : ep = x.decl
  BY DEF Callers
<1>2. Declaration(x.decl) /\ x.decl.is \in {"api", "auth_handler"}
  BY DeclaredTyped
<1> QED BY <1>1, <1>2 DEF Declaration

LEMMA OneCallee ==
  ASSUME Directory(app), Deployed, CallsAlike,
         NEW caller \in Callers(app), NEW c \in ToSet(caller.calls)
  PROVE  /\ c.arg # "int" /\ c.svc \in Containers(app)
         /\ \E callee \in Callers(app) :
              /\ ~callee.stream /\ callee.auth = caller.auth /\ callee.ends.is \in {"ok", "api"}
              /\ LET fits == {x \in Served(app, c.svc) : x.decl.fn = c.fn}
                     sent == {x \in Served(app, c.svc) : x.decl.fn = c.fn /\ ~x.decl.stream}
                 IN  /\ fits # {} /\ First(fits).decl = callee
                     /\ sent # {} /\ Latest(sent).decl = callee
<1> DEFINE fits == {x \in Served(app, c.svc) : x.decl.fn = c.fn}
           sent == {x \in Served(app, c.svc) : x.decl.fn = c.fn /\ ~x.decl.stream}
           named == {y \in Declared(app, "api") : y.decl.fn = c.fn /\ InService(app, c.svc, y.module)}
<1>1. /\ c.arg # "int"
      /\ \E callee \in Callees(c) :
           /\ Callees(c) = {callee}
           /\ ~callee.stream /\ callee.auth = caller.auth /\ callee.ends.is \in {"ok", "api"}
  BY Zenon DEF CallsAlike, Callers
<1>2. PICK callee \in Callees(c) :
           /\ Callees(c) = {callee}
           /\ ~callee.stream /\ callee.auth = caller.auth /\ callee.ends.is \in {"ok", "api"}
  BY <1>1
<1>3. Callees(c) = {x.decl : x \in named}
  BY Zenon DEF Callees
<1>4. \A x \in named : x.decl = callee
  <2> HIDE DEF named
  <2> QED BY <1>2, <1>3
<1>5. PICK y \in named : y.decl = callee
  <2> HIDE DEF named
  <2> QED BY <1>2, <1>3
<1>6. OneServiceEach(app) /\ Readable(app)
  BY DEF Deployed
<1>7. y \in Declared(app, "api") /\ InService(app, c.svc, y.module)
  OBVIOUS
<1>8. c.svc \in Containers(app) /\ IsService(app, c.svc)
  <2>1. c.svc = ServiceOf(app, y.module)
    BY <1>6, <1>7, InServiceIs
  <2>2. c.svc \in Containers(app)
    BY <1>6, <1>7, <2>1, ServiceDeployed
  <2> QED BY <1>7, <2>2 DEF InService, IsService
<1>9. fits = named
  BY <1>8 DEF Served
<1>10. sent = named
  <2>1. \A x \in named : ~x.decl.stream
    BY <1>2, <1>4
  <2> QED BY <1>9, <2>1
<1>11. First(named) \in named /\ Latest(named) \in named
  <2>1. named \subseteq Declared(app, "api") /\ named # {}
    BY <1>5
  <2> HIDE DEF named
  <2>2. Within(app, named)
    BY <2>1, DeclaredWithin
  <2> QED BY <2>1, <2>2, FirstIn
<1>12. callee \in Callers(app)
  BY <1>5, <1>7 DEF Callers
<1> HIDE DEF fits, sent, named
<1>13. /\ fits # {} /\ First(fits).decl = callee
       /\ sent # {} /\ Latest(sent).decl = callee
  BY <1>4, <1>5, <1>9, <1>10, <1>11
<1> QED BY <1>1, <1>2, <1>8, <1>12, <1>13 DEF fits, sent

LEMMA HandlerIs ==
  ASSUME NEW a, Directory(a), HasHandler(a)
  PROVE  Handler(a) \in Callers(a) /\ ~Handler(a).auth
<1> DEFINE all == Declared(a, "auth_handler")
<1>1. all # {} /\ Handler(a) = First(all).decl
  BY DEF HasHandler, Handler
<1>2. First(all) \in all
  BY <1>1, DeclaredWithin, FirstIn
<1>3. Declaration(First(all).decl) /\ First(all).decl.is = "auth_handler"
  BY <1>2, DeclaredTyped
<1> QED BY <1>1, <1>2, <1>3 DEF Callers, Declaration


-----------------------------------------------------------------------------
(* Who is known on a thread: the identity of the last handler that entered *)
(* there and has not left.                                                 *)
Leaves(stack, n, t, who) ==
  \/ \E j \in 1..n : /\ stack[j].thread = t /\ stack[j].auth = who
                     /\ \A i \in (j + 1)..n : stack[i].thread # t
  \/ who = None /\ \A i \in 1..n : stack[i].thread # t

Knows(r) ==
  /\ \A t : Leaves(r.stack, Len(r.stack), t, Ctx(r, t))
  /\ \A k \in 1..Len(r.stack) :
       /\ Leaves(r.stack, k - 1, r.stack[k].thread, r.stack[k].before)
       /\ r.stack[k].via = "auth" => r.stack[k].auth = None

SameThreads(s, u, n) ==
  \A i \in 1..n : u[i].thread = s[i].thread /\ u[i].auth = s[i].auth

LEMMA LeavesSame ==
  ASSUME NEW s, NEW u, NEW n \in Nat, NEW t, NEW who, Leaves(s, n, t, who),
         SameThreads(s, u, n)
  PROVE  Leaves(u, n, t, who)
<1>1. CASE \E j \in 1..n : /\ s[j].thread = t /\ s[j].auth = who
                           /\ \A i \in (j + 1)..n : s[i].thread # t
  <2>1. PICK j \in 1..n : /\ s[j].thread = t /\ s[j].auth = who
                          /\ \A i \in (j + 1)..n : s[i].thread # t
    BY <1>1
  <2>2. \A i \in (j + 1)..n : i \in 1..n
    BY <2>1
  <2>3. u[j].thread = t /\ u[j].auth = who /\ \A i \in (j + 1)..n : u[i].thread # t
    BY <2>1, <2>2 DEF SameThreads
  <2> QED BY <2>3 DEF Leaves
<1>2. CASE who = None /\ \A i \in 1..n : s[i].thread # t
  BY <1>2 DEF Leaves, SameThreads
<1> QED BY <1>1, <1>2 DEF Leaves

LEMMA NobodyKnown ==
  ASSUME NEW r, NEW token, Held(r, token), r.stack = <<>>
  PROVE  Knows(r)
<1>1. Len(r.stack) = 0 /\ 1..0 = {}
  OBVIOUS
<1>2. \A t : Ctx(r, t) = None
  BY NobodyLeft
<1> QED BY <1>1, <1>2 DEF Knows, Leaves

LEMMA KnownOnTop ==
  ASSUME NEW r, NEW token, Held(r, token), Knows(r), r.stack # <<>>
  PROVE  Ctx(r, Last(r.stack).thread) = Last(r.stack).auth
<1> DEFINE n == Len(r.stack)
           f == r.stack[n]
<1>1. n \in Nat /\ n \in 1..n /\ Last(r.stack) = f
  BY WithoutLast, OwnElements DEF Held, Shape
<1>2. Leaves(r.stack, n, f.thread, Ctx(r, f.thread))
  BY DEF Knows
<1>3. PICK j \in 1..n : /\ r.stack[j].thread = f.thread
                        /\ r.stack[j].auth = Ctx(r, f.thread)
                        /\ \A i \in (j + 1)..n : r.stack[i].thread # f.thread
  BY <1>1, <1>2 DEF Leaves
<1>4. j = n
  BY <1>1, <1>3
<1> QED BY <1>1, <1>3, <1>4

SameKnown(r, q) ==
  /\ q.ctx = r.ctx /\ Len(q.stack) = Len(r.stack)
  /\ \A k \in 1..Len(r.stack) :
       /\ q.stack[k].via = r.stack[k].via /\ q.stack[k].thread = r.stack[k].thread
       /\ q.stack[k].auth = r.stack[k].auth /\ q.stack[k].before = r.stack[k].before

LEMMA KnowsKept ==
  ASSUME NEW r, NEW token, Held(r, token), Knows(r), NEW q, SameKnown(r, q)
  PROVE  Knows(q)
<1> DEFINE n == Len(r.stack)
<1>1. n \in Nat /\ SameThreads(r.stack, q.stack, n)
  BY OwnElements DEF Held, Shape, SameKnown, SameThreads
<1>2. \A t : Ctx(q, t) = Ctx(r, t)
  BY DEF Ctx, SameKnown
<1>3. \A t : Leaves(q.stack, n, t, Ctx(q, t))
  <2> TAKE t
  <2>1. Leaves(r.stack, n, t, Ctx(r, t))
    BY DEF Knows
  <2> QED BY <1>1, <1>2, <2>1, LeavesSame
<1>4. ASSUME NEW k \in 1..n
      PROVE  /\ Leaves(q.stack, k - 1, q.stack[k].thread, q.stack[k].before)
             /\ q.stack[k].via = "auth" => q.stack[k].auth = None
  <2>1. /\ Leaves(r.stack, k - 1, r.stack[k].thread, r.stack[k].before)
        /\ r.stack[k].via = "auth" => r.stack[k].auth = None
    BY DEF Knows
  <2>2. k - 1 \in Nat /\ SameThreads(r.stack, q.stack, k - 1)
    BY <1>1 DEF SameThreads
  <2>3. Leaves(q.stack, k - 1, r.stack[k].thread, r.stack[k].before)
    BY <2>1, <2>2, LeavesSame
  <2> QED BY <2>1, <2>3 DEF SameKnown
<1> QED BY <1>3, <1>4 DEF Knows, SameKnown

LEMMA KnowsEntered ==
  ASSUME NEW r, NEW token, Held(r, token), Knows(r), NEW q, NEW f,
         q.stack = Append(r.stack, f), f.before = Ctx(r, f.thread),
         \A t : Ctx(q, t) = IF t = f.thread THEN f.auth ELSE Ctx(r, t),
         f.via = "auth" => f.auth = None
  PROVE  Knows(q)
<1> DEFINE n == Len(r.stack)
<1>1. n \in Nat /\ Len(q.stack) = n + 1
      /\ (\A k \in 1..n : q.stack[k] = r.stack[k]) /\ q.stack[n + 1] = f
  BY Appended, OwnElements DEF Held, Shape
<1>4. SameThreads(r.stack, q.stack, n)
  BY <1>1 DEF SameThreads
<1>2. ASSUME NEW t PROVE Leaves(q.stack, n + 1, t, Ctx(q, t))
  <2>1. CASE t = f.thread
    <3>1. /\ n + 1 \in 1..(n + 1) /\ ((n + 1) + 1)..(n + 1) = {}
          /\ q.stack[n + 1].thread = t /\ q.stack[n + 1].auth = Ctx(q, t)
      BY <1>1, <2>1
    <3> QED BY <3>1 DEF Leaves
  <2>2. CASE t # f.thread
    <3>1. Ctx(q, t) = Ctx(r, t) /\ Leaves(r.stack, n, t, Ctx(r, t))
      BY <2>2 DEF Knows
    <3>2. Leaves(q.stack, n, t, Ctx(q, t))
      BY <1>1, <1>4, <3>1, LeavesSame
    <3>3. CASE \E j \in 1..n : /\ q.stack[j].thread = t /\ q.stack[j].auth = Ctx(q, t)
                               /\ \A i \in (j + 1)..n : q.stack[i].thread # t
      <4>1. PICK j \in 1..n : /\ q.stack[j].thread = t /\ q.stack[j].auth = Ctx(q, t)
                              /\ \A i \in (j + 1)..n : q.stack[i].thread # t
        BY <3>3
      <4>2. \A i \in (j + 1)..(n + 1) : q.stack[i].thread # t
        <5> TAKE i \in (j + 1)..(n + 1)
        <5>1. i = n + 1 \/ i \in (j + 1)..n
          BY <1>1
        <5> QED BY <1>1, <2>2, <4>1, <5>1
      <4>3. j \in 1..(n + 1)
        BY <1>1
      <4> QED BY <4>1, <4>2, <4>3 DEF Leaves
    <3>4. CASE Ctx(q, t) = None /\ \A i \in 1..n : q.stack[i].thread # t
      <4>1. \A i \in 1..(n + 1) : q.stack[i].thread # t
        <5> TAKE i \in 1..(n + 1)
        <5>1. i = n + 1 \/ i \in 1..n
          BY <1>1
        <5> QED BY <1>1, <2>2, <3>4, <5>1
      <4> QED BY <3>4, <4>1 DEF Leaves
    <3> QED BY <3>2, <3>3, <3>4 DEF Leaves
  <2> QED BY <2>1, <2>2
<1>3. ASSUME NEW k \in 1..(n + 1)
      PROVE  /\ Leaves(q.stack, k - 1, q.stack[k].thread, q.stack[k].before)
             /\ q.stack[k].via = "auth" => q.stack[k].auth = None
  <2>1. k - 1 \in Nat /\ SameThreads(r.stack, q.stack, k - 1)
    BY <1>1 DEF SameThreads
  <2>2. CASE k = n + 1
    <3>1. Leaves(r.stack, n, f.thread, f.before)
      BY DEF Knows
    <3>2. Leaves(q.stack, n, f.thread, f.before)
      <4> HIDE DEF n
      <4> QED BY <1>1, <1>4, <3>1, LeavesSame
    <3>3. k - 1 = n /\ q.stack[k] = f
      BY <1>1, <2>2
    <3> QED BY <3>2, <3>3
  <2>3. CASE k \in 1..n
    <3>1. /\ Leaves(r.stack, k - 1, r.stack[k].thread, r.stack[k].before)
          /\ r.stack[k].via = "auth" => r.stack[k].auth = None
      BY <2>3 DEF Knows
    <3>2. Leaves(q.stack, k - 1, r.stack[k].thread, r.stack[k].before)
      BY <2>1, <3>1, LeavesSame
    <3> QED BY <1>1, <2>3, <3>1, <3>2
  <2>4. k = n + 1 \/ k \in 1..n
    BY <1>1
  <2> QED BY <2>2, <2>3, <2>4
<1> QED BY <1>1, <1>2, <1>3 DEF Knows

LEMMA KnowsLeft ==
  ASSUME NEW r, NEW token, Held(r, token), Knows(r), r.stack # <<>>
  PROVE  Knows(Leave(r))
<1> DEFINE n == Len(r.stack)
           f == r.stack[n]
           q == Leave(r)
<1>1. /\ r.stack \in Seq(ToSet(r.stack)) /\ n \in Nat /\ n \in 1..n
      /\ Last(r.stack) = f
  BY WithoutLast, OwnElements DEF Held, Shape
<1>2. /\ q.stack = Front(r.stack)
      /\ q.ctx = IF f.via = "auth" THEN r.ctx ELSE SetCtx(r.ctx, f.thread, f.before)
      /\ Held(q, token) /\ (f.via = "auth" => q.stack = <<>>)
  <2>1. /\ q.stack = Front(r.stack)
        /\ q.ctx = IF f.via = "auth" THEN r.ctx ELSE SetCtx(r.ctx, f.thread, f.before)
    BY <1>1 DEF Leave, Held, Shape, RunFields
  <2>2. Held(q, token) /\ (f.via = "auth" => q.stack = <<>>)
    BY <1>1, LeaveHeld
  <2> QED BY <2>1, <2>2
<1> HIDE DEF q
<1>3. CASE f.via = "auth"
  BY <1>2, <1>3, NobodyKnown DEF q
<1>4. CASE f.via # "auth"
  <2>1. Len(q.stack) = n - 1 /\ \A k \in 1..(n - 1) : q.stack[k] = r.stack[k]
    BY <1>1, <1>2, WithoutLast
  <2>5. SameThreads(r.stack, q.stack, n - 1)
    BY <2>1 DEF SameThreads
  <2>2. \A t : Ctx(q, t) = IF t = f.thread THEN f.before ELSE Ctx(r, t)
    BY <1>2, <1>4 DEF Ctx, SetCtx
  <2>3. ASSUME NEW t PROVE Leaves(q.stack, n - 1, t, Ctx(q, t))
    <3>1. n - 1 \in Nat
      BY <1>1
    <3>2. CASE t = f.thread
      <4>1. Leaves(r.stack, n - 1, t, Ctx(q, t))
        BY <1>1, <2>2, <3>2 DEF Knows
      <4> QED BY <2>5, <3>1, <4>1, LeavesSame
    <3>3. CASE t # f.thread
      <4>1. Leaves(r.stack, n, t, Ctx(q, t))
        BY <2>2, <3>3 DEF Knows
      <4>2. Leaves(r.stack, n - 1, t, Ctx(q, t))
        <5>1. CASE \E j \in 1..n : /\ r.stack[j].thread = t /\ r.stack[j].auth = Ctx(q, t)
                                   /\ \A i \in (j + 1)..n : r.stack[i].thread # t
          <6>1. PICK j \in 1..n : /\ r.stack[j].thread = t /\ r.stack[j].auth = Ctx(q, t)
                                  /\ \A i \in (j + 1)..n : r.stack[i].thread # t
            BY <5>1
          <6>2. j \in 1..(n - 1)
            BY <1>1, <3>3, <6>1
          <6>3. \A i \in (j + 1)..(n - 1) : r.stack[i].thread # t
            BY <1>1, <6>1
          <6> QED BY <6>1, <6>2, <6>3 DEF Leaves
        <5>2. CASE Ctx(q, t) = None /\ \A i \in 1..n : r.stack[i].thread # t
          <6>1. \A i \in 1..(n - 1) : r.stack[i].thread # t
            BY <1>1, <5>2
          <6> QED BY <5>2, <6>1 DEF Leaves
        <5> QED BY <4>1, <5>1, <5>2 DEF Leaves
      <4> QED BY <2>5, <3>1, <4>2, LeavesSame
    <3> QED BY <3>2, <3>3
  <2>4. ASSUME NEW k \in 1..(n - 1)
        PROVE  /\ Leaves(q.stack, k - 1, q.stack[k].thread, q.stack[k].before)
               /\ q.stack[k].via = "auth" => q.stack[k].auth = None
    <3>1. /\ k \in 1..n /\ q.stack[k] = r.stack[k] /\ k - 1 \in Nat
      BY <1>1, <2>1
    <3>4. SameThreads(r.stack, q.stack, k - 1)
      <4>1. \A i \in 1..(k - 1) : i \in 1..(n - 1)
        BY <1>1
      <4> QED BY <2>1, <4>1 DEF SameThreads
    <3>2. /\ Leaves(r.stack, k - 1, r.stack[k].thread, r.stack[k].before)
          /\ r.stack[k].via = "auth" => r.stack[k].auth = None
      BY <3>1 DEF Knows
    <3>3. Leaves(q.stack, k - 1, r.stack[k].thread, r.stack[k].before)
      BY <3>1, <3>2, <3>4, LeavesSame
    <3> QED BY <3>1, <3>2, <3>3
  <2> QED BY <2>1, <2>3, <2>4 DEF Knows, q
<1> QED BY <1>3, <1>4


-----------------------------------------------------------------------------
(* What the helpers of a handler's life do to a run.                       *)
Goes(f, outcome) == outcome.is = "ok" \/ (f.ep.catches /\ outcome.is # "crash")

LEMMA ResumeIs ==
  ASSUME NEW r, NEW token, NEW outcome, Held(r, token), r.stack # <<>>
  PROVE  LET q == Resume(r, outcome)
             top == Len(r.stack)
             f == r.stack[top]
             g == q.stack[top]
         IN  /\ q.at = r.at /\ q.ctx = r.ctx /\ q.seen = r.seen /\ q.answer = r.answer
             /\ top \in Nat /\ top \in 1..top /\ Len(q.stack) = top
             /\ \A k \in 1..top : k # top => q.stack[k] = r.stack[k]
             /\ g.via = f.via /\ g.ep = f.ep /\ g.auth = f.auth
             /\ g.before = f.before /\ g.thread = f.thread
             /\ g.todo = IF Goes(f, outcome) THEN Tail(f.todo) ELSE <<>>
             /\ g.ends = IF Goes(f, outcome) THEN f.ends ELSE outcome
<1> DEFINE q == Resume(r, outcome)
           top == Len(r.stack)
           todo == IF Goes(r.stack[top], outcome) THEN Tail(r.stack[top].todo) ELSE <<>>
           ends == IF Goes(r.stack[top], outcome) THEN r.stack[top].ends ELSE outcome
           f == [r.stack[top] EXCEPT !.todo = todo, !.ends = ends]
<1>0. top \in Nat /\ top \in 1..top /\ r.stack \in Seq(ToSet(r.stack))
  BY OwnElements DEF Held, Shape
<1>1. q = [r EXCEPT !.stack = [r.stack EXCEPT ![top] = f]]
  BY <1>0 DEF Resume, Goes, Held, Shape, FrameFields, RunFields
<1> HIDE DEF todo, ends
<1>2. /\ f.via = r.stack[top].via /\ f.ep = r.stack[top].ep
      /\ f.auth = r.stack[top].auth /\ f.before = r.stack[top].before
      /\ f.thread = r.stack[top].thread /\ f.todo = todo /\ f.ends = ends
  BY <1>0 DEF FrameFields, Held, Shape
<1> HIDE DEF f
<1>3. /\ q.stack = [r.stack EXCEPT ![top] = f] /\ q.at = r.at /\ q.ctx = r.ctx
      /\ q.seen = r.seen /\ q.answer = r.answer
  BY <1>1 DEF Held, Shape, RunFields
<1> HIDE DEF q
<1>4. Len(q.stack) = top /\ \A k \in 1..top : q.stack[k] = IF k = top THEN f ELSE r.stack[k]
  BY <1>0, <1>3, Replaced
<1> QED BY <1>0, <1>2, <1>3, <1>4 DEF q, todo, ends

Enters(r, q, via, thread, ep, auth, arg) ==
  LET n == Len(r.stack)
      f == q.stack[n + 1]
  IN  /\ q.at = "running" /\ q.answer = r.answer
      /\ q.seen = Append(r.seen, [fn |-> ep.fn, auth |-> auth, arg |-> arg])
      /\ \A t : Ctx(q, t) = IF t = thread THEN auth ELSE Ctx(r, t)
      /\ n \in Nat /\ q.stack = Append(r.stack, f) /\ Len(q.stack) = n + 1
      /\ \A k \in 1..n : q.stack[k] = r.stack[k]
      /\ f.via = via /\ f.thread = thread /\ f.ep = ep /\ f.auth = auth
      /\ f.before = Ctx(r, thread) /\ f.todo = ep.calls /\ f.ends = ep.ends

LEMMA EnterIs ==
  ASSUME NEW r, NEW token, Held(r, token), NEW via, NEW proc, NEW thread, NEW ep,
         NEW auth, NEW arg, arg # "refused"
  PROVE  Enters(r, Enter(r, via, proc, thread, ep, auth, arg), via, thread, ep, auth, arg)
<1> DEFINE f == Frame(r, via, proc, thread, ep, auth)
           x == [fn |-> ep.fn, auth |-> auth, arg |-> arg]
           q == [r EXCEPT !.at = "running", !.stack = Append(@, f),
                          !.ctx = SetCtx(@, thread, auth), !.seen = Append(@, x)]
<1>1. Enter(r, via, proc, thread, ep, auth, arg) = q
  BY DEF Enter
<1>2. /\ q.at = "running" /\ q.stack = Append(r.stack, f) /\ q.answer = r.answer
      /\ q.ctx = SetCtx(r.ctx, thread, auth) /\ q.seen = Append(r.seen, x)
  BY DEF Held, Shape, RunFields
<1> HIDE DEF q
<1>3. /\ f.via = via /\ f.thread = thread /\ f.ep = ep /\ f.auth = auth
      /\ f.before = Ctx(r, thread) /\ f.todo = ep.calls /\ f.ends = ep.ends
  BY DEF Frame
<1> HIDE DEF f
<1>4. /\ Len(r.stack) \in Nat /\ Len(q.stack) = Len(r.stack) + 1
      /\ \A k \in 1..Len(r.stack) : q.stack[k] = r.stack[k]
      /\ q.stack[Len(r.stack) + 1] = f
  BY <1>2, Appended, OwnElements DEF Held, Shape
<1>5. \A t : Ctx(q, t) = IF t = thread THEN auth ELSE Ctx(r, t)
  BY <1>2 DEF Ctx, SetCtx
<1> QED BY <1>1, <1>2, <1>3, <1>4, <1>5 DEF Enters

LEMMA EnterKnown ==
  ASSUME NEW r, NEW token, Held(r, token), Knows(r), NEW q, NEW via, NEW thread, NEW ep,
         NEW auth, NEW arg, Enters(r, q, via, thread, ep, auth, arg), via # "auth"
  PROVE  Knows(q)
<1> DEFINE f == q.stack[Len(r.stack) + 1]
<1>1. /\ q.stack = Append(r.stack, f) /\ f.before = Ctx(r, f.thread)
      /\ \A t : Ctx(q, t) = IF t = f.thread THEN f.auth ELSE Ctx(r, t)
      /\ f.via # "auth"
  BY DEF Enters
<1> HIDE DEF f
<1> QED BY <1>1, KnowsEntered

LEMMA LeaveIs ==
  ASSUME NEW r, NEW token, Held(r, token), r.stack # <<>>
  PROVE  LET q == Leave(r)
             n == Len(r.stack)
         IN  /\ q.at = r.at /\ q.seen = r.seen /\ q.answer = r.answer
             /\ n \in Nat /\ n \in 1..n /\ Len(q.stack) = n - 1
             /\ \A k \in 1..(n - 1) : q.stack[k] = r.stack[k]
             /\ Last(r.stack) = r.stack[n]
<1> DEFINE q == Leave(r)
           n == Len(r.stack)
<1>1. /\ r.stack \in Seq(ToSet(r.stack)) /\ n \in Nat /\ n \in 1..n
      /\ Last(r.stack) = r.stack[n]
  BY WithoutLast, OwnElements DEF Held, Shape
<1>2. /\ q.at = r.at /\ q.seen = r.seen /\ q.answer = r.answer /\ q.stack = Front(r.stack)
  BY <1>1 DEF Leave, Held, Shape, RunFields
<1> HIDE DEF q
<1>3. Len(q.stack) = n - 1 /\ \A k \in 1..(n - 1) : q.stack[k] = r.stack[k]
  BY <1>1, <1>2, WithoutLast
<1> QED BY <1>1, <1>2, <1>3 DEF q

-----------------------------------------------------------------------------
(* The two worlds step by step.  What is the same in both: who runs, for   *)
(* whom, what is left to call and how it will end.  Every handler that     *)
(* waits for a call has one to wait for, is protected exactly if it has an *)
(* identity, and one that was called ends in a way that the wire keeps;    *)
(* the auth handler runs only where the endpoint asked for is protected.   *)
Work(a, guarded, r) ==
  \A k \in 1..Len(r.stack) :
    /\ r.stack[k].ep \in Callers(a)
    /\ r.stack[k].todo \in Seq(ToSet(r.stack[k].ep.calls))
    /\ k < Len(r.stack) => r.stack[k].todo # <<>>
    /\ r.stack[k].auth = None <=> ~r.stack[k].ep.auth
    /\ k > 1 => r.stack[k].ends.is \in {"ok", "api"}
    /\ r.stack[k].via = "auth" => guarded

Alike(m, s) ==
  /\ m.at = s.at /\ m.answer = s.answer /\ m.seen = s.seen
  /\ Len(m.stack) = Len(s.stack)
  /\ \A k \in 1..Len(m.stack) :
       /\ m.stack[k].via = IF k = 1 THEN s.stack[k].via ELSE "local"
       /\ m.stack[k].ep = s.stack[k].ep /\ m.stack[k].auth = s.stack[k].auth
       /\ m.stack[k].todo = s.stack[k].todo /\ m.stack[k].ends = s.stack[k].ends

Waits(r) == r.stack # <<>> => r.stack[Len(r.stack)].todo # <<>>

Twins(a, guarded, token, m, s) ==
  /\ Held(m, token) /\ Held(s, token)
  /\ Knows(m) /\ Knows(s)
  /\ Work(a, guarded, s) /\ Alike(m, s)

LEMMA TailIn ==
  ASSUME NEW S, NEW s \in Seq(S), s # <<>>
  PROVE  Tail(s) \in Seq(S) /\ Head(s) \in S /\ <<>> \in Seq(S)
OBVIOUS

LEMMA TwinsEmpty ==
  ASSUME NEW a, NEW guarded, NEW token, NEW m, NEW s, Twins(a, guarded, token, m, s)
  PROVE  /\ m.stack = <<>> <=> s.stack = <<>>
         /\ Len(m.stack) \in Nat /\ Len(s.stack) = Len(m.stack)
         /\ m.stack = <<>> <=> Len(m.stack) = 0
BY OwnElements DEF Twins, Alike, Held, Shape

LEMMA TwinsDone ==
  ASSUME NEW a, NEW guarded, NEW token, NEW m, NEW s,
         Twins(a, guarded, token, m, s), m.stack = <<>>, NEW status
  PROVE  Twins(a, guarded, token, Done(m, status), Done(s, status))
<1> DEFINE p == Done(m, status)
           q == Done(s, status)
<1>1. s.stack = <<>> /\ Len(m.stack) = 0 /\ Len(s.stack) = 0
  BY TwinsEmpty
<1>2. /\ p.at = "done" /\ p.stack = m.stack /\ p.seen = m.seen /\ p.answer = status
      /\ q.at = "done" /\ q.stack = s.stack /\ q.seen = s.seen /\ q.answer = status
  BY DEF Done, Twins, Held, Shape, RunFields
<1>3. Held(p, token) /\ Held(q, token)
  BY <1>1, DoneSound DEF Twins, Sound
<1> HIDE DEF p, q
<1>4. Knows(p) /\ Knows(q)
  BY <1>1, <1>2, <1>3, NobodyKnown
<1>5. Work(a, guarded, q) /\ Alike(p, q)
  BY <1>1, <1>2 DEF Work, Alike, Twins
<1> QED BY <1>3, <1>4, <1>5 DEF Twins, p, q

LEMMA TwinsResume ==
  ASSUME NEW a, NEW guarded, NEW token, NEW m, NEW s,
         Twins(a, guarded, token, m, s), m.stack # <<>>,
         m.at = "running", Waits(s), NEW outcome, outcome.is \in {"ok", "api"}
  PROVE  Twins(a, guarded, token, Resume(m, outcome), Resume(s, outcome))
<1> DEFINE p == Resume(m, outcome)
           q == Resume(s, outcome)
           n == Len(s.stack)
           f == s.stack[n]
<1>1. s.stack # <<>> /\ s.at = "running" /\ Len(m.stack) = n
  BY TwinsEmpty DEF Twins, Alike
<1>2. Held(m, token) /\ Held(s, token)
  BY DEF Twins
<1>3. Held(p, token) /\ Held(q, token)
  BY <1>1, <1>2, ResumeSound DEF Sound
<1>4. /\ p.at = m.at /\ p.ctx = m.ctx /\ p.seen = m.seen /\ p.answer = m.answer
      /\ n \in Nat /\ n \in 1..n /\ Len(p.stack) = n
      /\ \A k \in 1..n : k # n => p.stack[k] = m.stack[k]
      /\ p.stack[n].via = m.stack[n].via /\ p.stack[n].ep = m.stack[n].ep
      /\ p.stack[n].auth = m.stack[n].auth /\ p.stack[n].before = m.stack[n].before
      /\ p.stack[n].thread = m.stack[n].thread
      /\ p.stack[n].todo = IF Goes(m.stack[n], outcome) THEN Tail(m.stack[n].todo) ELSE <<>>
      /\ p.stack[n].ends = IF Goes(m.stack[n], outcome) THEN m.stack[n].ends ELSE outcome
  BY <1>1, <1>2, ResumeIs
<1>5. /\ q.at = s.at /\ q.ctx = s.ctx /\ q.seen = s.seen /\ q.answer = s.answer
      /\ Len(q.stack) = n
      /\ \A k \in 1..n : k # n => q.stack[k] = s.stack[k]
      /\ q.stack[n].via = f.via /\ q.stack[n].ep = f.ep
      /\ q.stack[n].auth = f.auth /\ q.stack[n].before = f.before
      /\ q.stack[n].thread = f.thread
      /\ q.stack[n].todo = IF Goes(f, outcome) THEN Tail(f.todo) ELSE <<>>
      /\ q.stack[n].ends = IF Goes(f, outcome) THEN f.ends ELSE outcome
  BY <1>1, <1>2, ResumeIs
<1> HIDE DEF p, q
<1>6. SameKnown(m, p) /\ SameKnown(s, q)
  BY <1>1, <1>4, <1>5 DEF SameKnown
<1>7. Knows(p) /\ Knows(q)
  BY <1>2, <1>6, KnowsKept DEF Twins
<1>8. /\ m.stack[n].via = IF n = 1 THEN f.via ELSE "local"
      /\ m.stack[n].ep = f.ep /\ m.stack[n].auth = f.auth
      /\ m.stack[n].todo = f.todo /\ m.stack[n].ends = f.ends
      /\ m.at = s.at /\ m.answer = s.answer /\ m.seen = s.seen
  BY <1>1, <1>4 DEF Twins, Alike
<1>9. Alike(p, q)
  <2>1. Goes(m.stack[n], outcome) = Goes(f, outcome)
    BY <1>8 DEF Goes
  <2>2. /\ p.stack[n].via = IF n = 1 THEN q.stack[n].via ELSE "local"
        /\ p.stack[n].ep = q.stack[n].ep /\ p.stack[n].auth = q.stack[n].auth
        /\ p.stack[n].todo = q.stack[n].todo /\ p.stack[n].ends = q.stack[n].ends
    BY <1>4, <1>5, <1>8, <2>1
  <2>3. ASSUME NEW k \in 1..n, k # n
        PROVE  /\ p.stack[k].via = IF k = 1 THEN q.stack[k].via ELSE "local"
               /\ p.stack[k].ep = q.stack[k].ep /\ p.stack[k].auth = q.stack[k].auth
               /\ p.stack[k].todo = q.stack[k].todo /\ p.stack[k].ends = q.stack[k].ends
    <3>1. p.stack[k] = m.stack[k] /\ q.stack[k] = s.stack[k] /\ k \in 1..Len(m.stack)
      BY <1>1, <1>4, <1>5, <2>3
    <3> QED BY <3>1 DEF Twins, Alike
  <2>4. p.at = q.at /\ p.answer = q.answer /\ p.seen = q.seen /\ Len(p.stack) = Len(q.stack)
    BY <1>4, <1>5, <1>8
  <2>5. ASSUME NEW k \in 1..n
        PROVE  /\ p.stack[k].via = IF k = 1 THEN q.stack[k].via ELSE "local"
               /\ p.stack[k].ep = q.stack[k].ep /\ p.stack[k].auth = q.stack[k].auth
               /\ p.stack[k].todo = q.stack[k].todo /\ p.stack[k].ends = q.stack[k].ends
    BY <2>2, <2>3
  <2> QED BY <1>4, <2>4, <2>5 DEF Alike
<1>10. Work(a, guarded, q)
  <2>1. /\ f.ep \in Callers(a) /\ f.todo \in Seq(ToSet(f.ep.calls)) /\ f.todo # <<>>
        /\ f.auth = None <=> ~f.ep.auth
        /\ n > 1 => f.ends.is \in {"ok", "api"}
        /\ f.via = "auth" => guarded
    BY <1>1, <1>4 DEF Twins, Work, Waits
  <2>2. Tail(f.todo) \in Seq(ToSet(f.ep.calls)) /\ <<>> \in Seq(ToSet(f.ep.calls))
    BY <2>1, TailIn
  <2>3. /\ q.stack[n].ep \in Callers(a)
        /\ q.stack[n].todo \in Seq(ToSet(q.stack[n].ep.calls))
        /\ q.stack[n].auth = None <=> ~q.stack[n].ep.auth
        /\ n > 1 => q.stack[n].ends.is \in {"ok", "api"}
        /\ q.stack[n].via = "auth" => guarded
    BY <1>5, <2>1, <2>2
  <2>4. ASSUME NEW k \in 1..n, k # n
        PROVE  /\ q.stack[k].ep \in Callers(a)
               /\ q.stack[k].todo \in Seq(ToSet(q.stack[k].ep.calls))
               /\ q.stack[k].todo # <<>>
               /\ q.stack[k].auth = None <=> ~q.stack[k].ep.auth
               /\ k > 1 => q.stack[k].ends.is \in {"ok", "api"}
               /\ q.stack[k].via = "auth" => guarded
    <3>1. q.stack[k] = s.stack[k] /\ k < n
      BY <1>4, <1>5, <2>4
    <3> QED BY <3>1 DEF Twins, Work
  <2>5. ~(n < n)
    BY <1>4
  <2> QED BY <1>5, <2>3, <2>4, <2>5 DEF Work
<1> QED BY <1>3, <1>7, <1>9, <1>10 DEF Twins, p, q


LEMMA TwinsEnter ==
  ASSUME NEW a, Directory(a), NEW guarded, NEW token, NEW m, NEW s, Twins(a, guarded, token, m, s),
         NEW ep \in Callers(a), NEW auth \in {None, token}, auth = None <=> ~ep.auth,
         NEW arg, arg # "refused",
         NEW mvia, NEW mproc, NEW mthread, NEW svia, NEW sproc, NEW sthread,
         IF m.stack = <<>>
         THEN /\ mvia = "edge" /\ svia = "edge"
              /\ ep.expose /\ (ep.auth => auth \in Users)
         ELSE /\ mvia = "local" /\ svia \in {"local", "http"} /\ m.at = "running"
              /\ Waits(s) /\ ep.ends.is \in {"ok", "api"}
  PROVE  Twins(a, guarded, token, Enter(m, mvia, mproc, mthread, ep, auth, arg),
                         Enter(s, svia, sproc, sthread, ep, auth, arg))
<1> DEFINE p == Enter(m, mvia, mproc, mthread, ep, auth, arg)
           q == Enter(s, svia, sproc, sthread, ep, auth, arg)
           n == Len(s.stack)
<1>1. /\ m.stack = <<>> <=> s.stack = <<>>
      /\ n \in Nat /\ Len(m.stack) = n /\ (m.stack = <<>> <=> n = 0)
      /\ Held(m, token) /\ Held(s, token)
  BY TwinsEmpty DEF Twins
<1>2. m.at = s.at /\ m.answer = s.answer /\ m.seen = s.seen
  BY DEF Twins, Alike
<1>3. Held(p, token)
  BY <1>1, EnterSound DEF Sound
<1>4. Held(q, token)
  <2>1. /\ IF s.stack = <<>> THEN svia = "edge" ELSE svia \in {"local", "http"}
        /\ s.stack # <<>> => s.at = "running"
        /\ svia = "edge" => ep.expose /\ (ep.auth => auth \in Users)
    BY <1>1, <1>2
  <2> QED BY <1>1, <2>1, EnterSound DEF Sound
<1>5. Enters(m, p, mvia, mthread, ep, auth, arg) /\ Enters(s, q, svia, sthread, ep, auth, arg)
  BY <1>1, EnterIs
<1> HIDE DEF p, q
<1>6. /\ p.at = "running" /\ p.answer = m.answer
      /\ p.seen = Append(m.seen, [fn |-> ep.fn, auth |-> auth, arg |-> arg])
      /\ Len(p.stack) = n + 1 /\ \A k \in 1..n : p.stack[k] = m.stack[k]
      /\ p.stack[n + 1].via = mvia
      /\ p.stack[n + 1].ep = ep /\ p.stack[n + 1].auth = auth
      /\ p.stack[n + 1].todo = ep.calls /\ p.stack[n + 1].ends = ep.ends
  BY <1>1, <1>5 DEF Enters
<1>7. /\ q.at = "running" /\ q.answer = s.answer
      /\ q.seen = Append(s.seen, [fn |-> ep.fn, auth |-> auth, arg |-> arg])
      /\ Len(q.stack) = n + 1 /\ \A k \in 1..n : q.stack[k] = s.stack[k]
      /\ q.stack[n + 1].via = svia
      /\ q.stack[n + 1].ep = ep /\ q.stack[n + 1].auth = auth
      /\ q.stack[n + 1].todo = ep.calls /\ q.stack[n + 1].ends = ep.ends
  BY <1>5 DEF Enters
<1>8. mvia # "auth" /\ svia # "auth"
  OBVIOUS
<1>9. Knows(p) /\ Knows(q)
  BY <1>1, <1>5, <1>8, EnterKnown DEF Twins
<1>10. \A k \in 1..(n + 1) : k = n + 1 \/ (k \in 1..n /\ k < n + 1)
  BY <1>1
<1>11. Work(a, guarded, q)
  <2>1. ep.calls \in Seq(ToSet(ep.calls))
    BY CallerTyped
  <2>2. n + 1 > 1 => ep.ends.is \in {"ok", "api"}
    BY <1>1
  <2>3. /\ q.stack[n + 1].ep \in Callers(a)
        /\ q.stack[n + 1].todo \in Seq(ToSet(q.stack[n + 1].ep.calls))
        /\ q.stack[n + 1].auth = None <=> ~q.stack[n + 1].ep.auth
        /\ n + 1 > 1 => q.stack[n + 1].ends.is \in {"ok", "api"}
        /\ q.stack[n + 1].via # "auth"
    BY <1>7, <1>8, <2>1, <2>2
  <2>4. ASSUME NEW k \in 1..n
        PROVE  /\ q.stack[k].ep \in Callers(a)
               /\ q.stack[k].todo \in Seq(ToSet(q.stack[k].ep.calls))
               /\ q.stack[k].todo # <<>>
               /\ q.stack[k].auth = None <=> ~q.stack[k].ep.auth
               /\ k > 1 => q.stack[k].ends.is \in {"ok", "api"}
               /\ q.stack[k].via = "auth" => guarded
    <3>1. q.stack[k] = s.stack[k]
      BY <1>7
    <3>2. k = n \/ k < n
      BY <1>1
    <3>3. m.stack # <<>> /\ s.stack # <<>>
      BY <1>1
    <3>4. s.stack[k].todo # <<>>
      BY <3>2, <3>3 DEF Twins, Work, Waits
    <3> QED BY <3>1, <3>4 DEF Twins, Work
  <2>5. ASSUME NEW k \in 1..(n + 1)
        PROVE  /\ q.stack[k].ep \in Callers(a)
               /\ q.stack[k].todo \in Seq(ToSet(q.stack[k].ep.calls))
               /\ k < n + 1 => q.stack[k].todo # <<>>
               /\ q.stack[k].auth = None <=> ~q.stack[k].ep.auth
               /\ k > 1 => q.stack[k].ends.is \in {"ok", "api"}
               /\ q.stack[k].via = "auth" => guarded
    <3>1. CASE k = n + 1
      <4>1. ~(n + 1 < n + 1)
        BY <1>1
      <4> QED BY <2>3, <3>1, <4>1
    <3>2. CASE k \in 1..n
      BY <2>4, <3>2
    <3> QED BY <1>10, <3>1, <3>2
  <2> QED BY <1>7, <2>5 DEF Work
<1>12. Alike(p, q)
  <2>1. /\ p.stack[n + 1].via = IF n + 1 = 1 THEN q.stack[n + 1].via ELSE "local"
        /\ p.stack[n + 1].ep = q.stack[n + 1].ep /\ p.stack[n + 1].auth = q.stack[n + 1].auth
        /\ p.stack[n + 1].todo = q.stack[n + 1].todo /\ p.stack[n + 1].ends = q.stack[n + 1].ends
    BY <1>1, <1>6, <1>7
  <2>2. ASSUME NEW k \in 1..n
        PROVE  /\ p.stack[k].via = IF k = 1 THEN q.stack[k].via ELSE "local"
               /\ p.stack[k].ep = q.stack[k].ep /\ p.stack[k].auth = q.stack[k].auth
               /\ p.stack[k].todo = q.stack[k].todo /\ p.stack[k].ends = q.stack[k].ends
    <3>1. p.stack[k] = m.stack[k] /\ q.stack[k] = s.stack[k] /\ k \in 1..Len(m.stack)
      BY <1>1, <1>6, <1>7
    <3> QED BY <3>1 DEF Twins, Alike
  <2>3. p.at = q.at /\ p.answer = q.answer /\ p.seen = q.seen
        /\ Len(p.stack) = n + 1 /\ Len(q.stack) = n + 1
    BY <1>2, <1>6, <1>7
  <2> QED BY <1>10, <2>1, <2>2, <2>3 DEF Alike
<1> QED BY <1>3, <1>4, <1>9, <1>11, <1>12 DEF Twins, p, q

(* Who called is then on top in both, and waits for that call.             *)
LEMMA TwinsLeave ==
  ASSUME NEW a, NEW guarded, NEW token, NEW m, NEW s, Twins(a, guarded, token, m, s), m.stack # <<>>
  PROVE  Twins(a, guarded, token, Leave(m), Leave(s)) /\ Waits(Leave(s))
<1> DEFINE p == Leave(m)
           q == Leave(s)
           n == Len(s.stack)
<1>1. s.stack # <<>> /\ Len(m.stack) = n /\ Held(m, token) /\ Held(s, token)
  BY TwinsEmpty DEF Twins
<1>2. Held(p, token) /\ Held(q, token)
  BY <1>1, LeaveHeld
<1>3. Knows(p) /\ Knows(q)
  BY <1>1, KnowsLeft DEF Twins
<1>4. /\ p.at = m.at /\ p.seen = m.seen /\ p.answer = m.answer
      /\ n \in Nat /\ n \in 1..n /\ Len(p.stack) = n - 1
      /\ \A k \in 1..(n - 1) : p.stack[k] = m.stack[k]
  BY <1>1, LeaveIs
<1>5. /\ q.at = s.at /\ q.seen = s.seen /\ q.answer = s.answer /\ Len(q.stack) = n - 1
      /\ \A k \in 1..(n - 1) : q.stack[k] = s.stack[k]
  BY <1>1, LeaveIs
<1> HIDE DEF p, q
<1>6. ASSUME NEW k \in 1..(n - 1)
      PROVE  /\ k \in 1..n /\ k \in 1..Len(m.stack) /\ k < n
             /\ p.stack[k] = m.stack[k] /\ q.stack[k] = s.stack[k]
  BY <1>1, <1>4, <1>5
<1>7. Alike(p, q)
  <2>1. p.at = q.at /\ p.answer = q.answer /\ p.seen = q.seen
    BY <1>4, <1>5 DEF Twins, Alike
  <2>2. ASSUME NEW k \in 1..(n - 1)
        PROVE  /\ p.stack[k].via = IF k = 1 THEN q.stack[k].via ELSE "local"
               /\ p.stack[k].ep = q.stack[k].ep /\ p.stack[k].auth = q.stack[k].auth
               /\ p.stack[k].todo = q.stack[k].todo /\ p.stack[k].ends = q.stack[k].ends
    <3>1. k \in 1..Len(m.stack) /\ p.stack[k] = m.stack[k] /\ q.stack[k] = s.stack[k]
      BY <1>6
    <3> QED BY <3>1 DEF Twins, Alike
  <2> QED BY <1>4, <1>5, <2>1, <2>2 DEF Alike
<1>8. ASSUME NEW k \in 1..(n - 1)
      PROVE  /\ q.stack[k].ep \in Callers(a)
             /\ q.stack[k].todo \in Seq(ToSet(q.stack[k].ep.calls))
             /\ q.stack[k].todo # <<>>
             /\ q.stack[k].auth = None <=> ~q.stack[k].ep.auth
             /\ k > 1 => q.stack[k].ends.is \in {"ok", "api"}
             /\ q.stack[k].via = "auth" => guarded
  BY <1>6 DEF Twins, Work
<1>9. Work(a, guarded, q)
  BY <1>5, <1>8 DEF Work
<1>10. Waits(q)
  <2>1. q.stack # <<>> => n - 1 \in 1..(n - 1)
    BY <1>2, <1>4, <1>5, OwnElements DEF Held, Shape
  <2> QED BY <1>5, <1>8, <2>1 DEF Waits
<1> QED BY <1>2, <1>3, <1>7, <1>9, <1>10 DEF Twins, p, q

LEMMA AuthenticateIs ==
  ASSUME NEW r, Held(r, req.token), r.stack = <<>>, NEW proc,
         HasHandler(app), req.token # None
  PROVE  LET q == Authenticate(r, proc)
             f == q.stack[1]
         IN  /\ q.at = "running" /\ q.ctx = r.ctx /\ q.seen = r.seen /\ q.answer = r.answer
             /\ q.stack = Append(r.stack, f) /\ Len(q.stack) = 1
             /\ f.via = "auth" /\ f.ep = Handler(app) /\ f.auth = None
             /\ f.before = Ctx(r, f.thread)
             /\ f.todo = Handler(app).calls /\ f.ends = Handler(app).ends
<1> DEFINE thread == Thread(r, proc)
           f == Frame(r, "auth", proc, thread, Handler(app), None)
           q == [r EXCEPT !.at = "running", !.stack = <<f>>]
<1>1. Authenticate(r, proc) = q
  BY DEF Authenticate
<1>2. /\ q.at = "running" /\ q.stack = <<f>> /\ q.ctx = r.ctx /\ q.seen = r.seen
      /\ q.answer = r.answer
  BY DEF Held, Shape, RunFields
<1> HIDE DEF q, thread
<1>3. /\ f.via = "auth" /\ f.ep = Handler(app) /\ f.auth = None
      /\ f.before = Ctx(r, f.thread)
      /\ f.todo = Handler(app).calls /\ f.ends = Handler(app).ends
  BY DEF Frame
<1> HIDE DEF f
<1>4. q.stack[1] = f /\ Len(q.stack) = 1 /\ q.stack = Append(r.stack, f)
  BY <1>2
<1> QED BY <1>1, <1>2, <1>3, <1>4

LEMMA TwinsAuth ==
  ASSUME Directory(app), NEW guarded, guarded, NEW m, NEW s,
         Twins(app, guarded, req.token, m, s), m.stack = <<>>, NEW mproc, NEW sproc
  PROVE  Twins(app, guarded, req.token, Authenticate(m, mproc), Authenticate(s, sproc))
<1> DEFINE p == Authenticate(m, mproc)
           q == Authenticate(s, sproc)
<1>1. s.stack = <<>> /\ Held(m, req.token) /\ Held(s, req.token)
  BY TwinsEmpty DEF Twins
<1>2. CASE ~HasHandler(app) \/ req.token = None
  <2>1. \E status : p = Done(m, status) /\ q = Done(s, status)
    BY <1>2 DEF Authenticate
  <2> QED BY <2>1, TwinsDone
<1>3. CASE HasHandler(app) /\ req.token # None
  <2>1. /\ p.at = "running" /\ p.ctx = m.ctx /\ p.seen = m.seen /\ p.answer = m.answer
        /\ p.stack = Append(m.stack, p.stack[1]) /\ Len(p.stack) = 1
        /\ p.stack[1].via = "auth" /\ p.stack[1].ep = Handler(app) /\ p.stack[1].auth = None
        /\ p.stack[1].before = Ctx(m, p.stack[1].thread)
        /\ p.stack[1].todo = Handler(app).calls /\ p.stack[1].ends = Handler(app).ends
    BY <1>1, <1>3, AuthenticateIs
  <2>2. /\ q.at = "running" /\ q.ctx = s.ctx /\ q.seen = s.seen /\ q.answer = s.answer
        /\ q.stack = Append(s.stack, q.stack[1]) /\ Len(q.stack) = 1
        /\ q.stack[1].via = "auth" /\ q.stack[1].ep = Handler(app) /\ q.stack[1].auth = None
        /\ q.stack[1].before = Ctx(s, q.stack[1].thread)
        /\ q.stack[1].todo = Handler(app).calls /\ q.stack[1].ends = Handler(app).ends
    BY <1>1, <1>3, AuthenticateIs
  <2>3. Held(p, req.token) /\ Held(q, req.token)
    BY <1>1, AuthenticateSound DEF Sound
  <2> HIDE DEF p, q
  <2>4. /\ \A t : Ctx(p, t) = IF t = p.stack[1].thread THEN None ELSE Ctx(m, t)
        /\ \A t : Ctx(q, t) = IF t = q.stack[1].thread THEN None ELSE Ctx(s, t)
    BY <1>1, <2>1, <2>2, NobodyLeft DEF Ctx
  <2>5. Knows(p)
    <3> DEFINE f == p.stack[1]
    <3>1. /\ p.stack = Append(m.stack, f) /\ f.before = Ctx(m, f.thread)
          /\ \A t : Ctx(p, t) = IF t = f.thread THEN f.auth ELSE Ctx(m, t)
          /\ f.via = "auth" => f.auth = None
      BY <2>1, <2>4
    <3> HIDE DEF f
    <3> QED BY <1>1, <3>1, KnowsEntered DEF Twins
  <2>6. Knows(q)
    <3> DEFINE f == q.stack[1]
    <3>1. /\ q.stack = Append(s.stack, f) /\ f.before = Ctx(s, f.thread)
          /\ \A t : Ctx(q, t) = IF t = f.thread THEN f.auth ELSE Ctx(s, t)
          /\ f.via = "auth" => f.auth = None
      BY <2>2, <2>4
    <3> HIDE DEF f
    <3> QED BY <1>1, <3>1, KnowsEntered DEF Twins
  <2>7. Handler(app) \in Callers(app) /\ ~Handler(app).auth
    BY <1>3, HandlerIs
  <2>8. Handler(app).calls \in Seq(ToSet(Handler(app).calls))
    BY <2>7, CallerTyped
  <2>9. Work(app, guarded, q)
    BY <2>2, <2>7, <2>8 DEF Work
  <2>10. Alike(p, q)
    BY <2>1, <2>2 DEF Twins, Alike
  <2> QED BY <2>3, <2>5, <2>6, <2>9, <2>10 DEF Twins, p, q
<1> QED BY <1>2, <1>3

-----------------------------------------------------------------------------
(* Step for step, for a request that both worlds serve under the           *)
(* conditions of SameAnswers.                                              *)
Comparable ==
  /\ Directory(app) /\ topo.table \in {"static", "runtime"} /\ req.path \in Paths
  /\ Hit(app, "app", req.path, req.method) # {}
  /\ Deployed /\ PrefixesApart /\ CallsAlike

(* The gateway knows the endpoint, what guards it and where it is.         *)
LEMMA RoutedAlike ==
  ASSUME Comparable
  PROVE  /\ PickRoute(Routes, req.path) # {}
         /\ (\E route \in PickRoute(Routes, req.path) : route.auth) <=> Guarded
         /\ Hit(app, Upstream, req.path, req.method) = Hit(app, "app", req.path, req.method)
         /\ \A ep \in Hit(app, "app", req.path, req.method) :
              ep \in Callers(app) /\ ep.expose /\ (ep.auth <=> Guarded)
<1> DEFINE hits == Hit(app, "app", req.path, req.method)
           picked == PickRoute(Routes, req.path)
<1>1. req.path \in Seq(STRING)
  BY AppAssumption DEF Comparable
<1>2. ASSUME NEW ep \in hits
      PROVE  \E x \in Served(app, "app") : x.decl = ep /\ x.decl.expose /\ Matches(x.decl.path, req.path)
  BY HitIs
<1>3. PICK h \in Served(app, "app") : h.decl.expose /\ Matches(h.decl.path, req.path)
  BY <1>2 DEF Comparable
<1>4. \A x \in Served(app, "app") : x \in Declared(app, "api")
  BY ServedIs DEF Comparable, Deployed
<1>5. /\ picked # {}
      /\ \A r \in picked : r.service = ServiceOf(app, h.module) /\ (r.auth <=> h.decl.auth)
  BY <1>1, <1>3, <1>4, GatewayLeads DEF Comparable
<1>6. /\ Hit(app, ServiceOf(app, h.module), req.path, req.method) = hits
      /\ \A ep \in hits : ep.auth <=> h.decl.auth
  BY <1>1, <1>3, HitsAgree DEF Comparable
<1>7. Upstream = ServiceOf(app, h.module)
  <2>1. Upstream = (CHOOSE route \in picked : TRUE).service
    BY Zenon DEF Upstream
  <2> HIDE DEF picked
  <2>2. (CHOOSE route \in picked : TRUE) \in picked
    BY <1>5
  <2> QED BY <1>5, <2>1, <2>2
<1>8. Guarded <=> \E ep \in hits : ep.auth
  BY Zenon DEF Guarded
<1>9. hits # {}
  BY DEF Comparable
<1>10. ASSUME NEW ep \in hits PROVE ep \in Callers(app) /\ ep.expose
  BY <1>2, <1>4 DEF Callers
<1> HIDE DEF hits, picked
<1>11. Guarded <=> h.decl.auth
  BY <1>6, <1>8, <1>9
<1>12. (\E route \in picked : route.auth) <=> h.decl.auth
  BY <1>5
<1> QED BY <1>5, <1>6, <1>7, <1>10, <1>11, <1>12 DEF hits, picked

LEMMA TwinsAdmit ==
  ASSUME Comparable, NEW m, NEW s, Twins(app, Guarded, req.token, m, s), m.stack = <<>>,
         NEW identity \in {None, req.token}, identity \in Users \/ identity = None,
         identity # None => Guarded
  PROVE  Twins(app, Guarded, req.token, Admit(m, "app", identity),
                                        Admit(s, Upstream, identity))
<1> DEFINE hits == Hit(app, "app", req.path, req.method)
           ep   == CHOOSE e \in hits : TRUE
           Entered(r, proc) == Enter(r, "edge", proc, Thread(r, proc), ep, identity, req.arg)
           status == IF ep.stream THEN 200 ELSE 400
           missed   == IF Found(app, "app", req.path) = {} THEN 404 ELSE 405
           unserved == IF Found(app, Upstream, req.path) = {} THEN 404 ELSE 405
<1>1. Hit(app, Upstream, req.path, req.method) = hits /\ hits # {}
  BY RoutedAlike DEF Comparable
<1>2. ep \in hits
  BY <1>1
<1>3. ep \in Callers(app) /\ ep.expose /\ (ep.auth <=> Guarded)
  BY <1>2, RoutedAlike
<1>4. /\ Admit(m, "app", identity) =
           CASE hits = {} -> Done(m, missed)
             [] hits # {} /\ ep.auth /\ identity = None -> Done(m, 401)
             [] OTHER -> Entered(m, "app")
      /\ Admit(s, Upstream, identity) =
           CASE hits = {} -> Done(s, unserved)
             [] hits # {} /\ ep.auth /\ identity = None -> Done(s, 401)
             [] OTHER -> Entered(s, Upstream)
  <2>1. /\ Admit(m, "app", identity) =
             LET all == Hit(app, "app", req.path, req.method)
                 one == CHOOSE e \in all : TRUE
             IN  CASE all = {} -> Done(m, missed)
                   [] all # {} /\ one.auth /\ identity = None -> Done(m, 401)
                   [] OTHER -> Enter(m, "edge", "app", Thread(m, "app"), one, identity, req.arg)
        /\ Admit(s, Upstream, identity) =
             LET all == Hit(app, Upstream, req.path, req.method)
                 one == CHOOSE e \in all : TRUE
             IN  CASE all = {} -> Done(s, unserved)
                   [] all # {} /\ one.auth /\ identity = None -> Done(s, 401)
                   [] OTHER -> Enter(s, "edge", Upstream, Thread(s, Upstream), one, identity, req.arg)
    BY Zenon DEF Admit
  <2> QED BY <1>1, <2>1
<1> HIDE DEF hits, ep
<1>5. CASE ep.auth /\ identity = None
  <2>1. Admit(m, "app", identity) = Done(m, 401) /\ Admit(s, Upstream, identity) = Done(s, 401)
    BY <1>1, <1>4, <1>5
  <2> QED BY <2>1, TwinsDone
<1>6. CASE ~(ep.auth /\ identity = None)
  <2>1. Admit(m, "app", identity) = Entered(m, "app")
        /\ Admit(s, Upstream, identity) = Entered(s, Upstream)
    BY <1>1, <1>4, <1>6
  <2>2. CASE req.arg = "refused"
    <3>1. Entered(m, "app") = Done(m, status) /\ Entered(s, Upstream) = Done(s, status)
      BY <2>2 DEF Enter
    <3> HIDE DEF Entered, status
    <3> QED BY <2>1, <3>1, TwinsDone
  <2>3. CASE req.arg # "refused"
    <3>1. identity = None <=> ~ep.auth
      BY <1>3, <1>6
    <3>2. ep.auth => identity \in Users
      BY <3>1
    <3>3. Directory(app)
      BY DEF Comparable
    <3>4. Twins(app, Guarded, req.token, Entered(m, "app"), Entered(s, Upstream))
      BY <1>3, <2>3, <3>1, <3>2, <3>3, TwinsEnter
    <3> QED BY <2>1, <3>4
  <2> QED BY <2>2, <2>3
<1> QED BY <1>5, <1>6

LEMMA TwinsEdge ==
  ASSUME Comparable, NEW m, NEW s, Twins(app, Guarded, req.token, m, s), m.stack = <<>>
  PROVE  Twins(app, Guarded, req.token, Edge("mono", m), Edge("services", s))
<1> DEFINE picked == PickRoute(Routes, req.path)
           protected == \E route \in picked : route.auth
<1>1. Edge("mono", m) = IF Guarded THEN Authenticate(m, "app") ELSE Admit(m, "app", None)
  BY Zenon DEF Edge
<1>2. Edge("services", s) = CASE picked = {} -> Done(s, 404)
                             [] protected -> Authenticate(s, "gateway")
                             [] OTHER -> Admit(s, Upstream, None)
  <2>1. "services" # "mono"
    OBVIOUS
  <2> QED BY <2>1, Zenon DEF Edge
<1>3. picked # {} /\ (protected <=> Guarded) /\ Directory(app)
  BY RoutedAlike DEF Comparable
<1> HIDE DEF picked, protected
<1>4. CASE Guarded
  <2>1. Edge("mono", m) = Authenticate(m, "app") /\ Edge("services", s) = Authenticate(s, "gateway")
    BY <1>1, <1>2, <1>3, <1>4
  <2> QED BY <1>3, <1>4, <2>1, TwinsAuth
<1>5. CASE ~Guarded
  <2>1. Edge("mono", m) = Admit(m, "app", None) /\ Edge("services", s) = Admit(s, Upstream, None)
    BY <1>1, <1>2, <1>3, <1>5
  <2> QED BY <2>1, TwinsAdmit
<1> QED BY <1>4, <1>5

(* The frames on top.                                                      *)
LEMMA TwinsTop ==
  ASSUME NEW a, NEW guarded, NEW token, NEW m, NEW s, Twins(a, guarded, token, m, s),
         m.stack # <<>>
  PROVE  LET f == Last(m.stack)
             g == Last(s.stack)
             n == Len(s.stack)
         IN  /\ n \in Nat /\ n \in 1..n /\ g = s.stack[n] /\ f = m.stack[n]
             /\ s.stack # <<>> /\ Held(m, token) /\ Held(s, token)
             /\ f.via = IF n = 1 THEN g.via ELSE "local"
             /\ f.ep = g.ep /\ f.auth = g.auth /\ f.todo = g.todo /\ f.ends = g.ends
             /\ g.via \in IF n = 1 THEN {"auth", "edge"} ELSE {"local", "http"}
             /\ g.ep \in Callers(a) /\ g.todo \in Seq(ToSet(g.ep.calls))
             /\ g.auth = None <=> ~g.ep.auth
             /\ n > 1 => g.ends.is \in {"ok", "api"}
             /\ g.via = "auth" => guarded
             /\ Ctx(m, f.thread) = g.auth /\ Ctx(s, g.thread) = g.auth
<1> DEFINE n == Len(s.stack)
<1>1. s.stack # <<>> /\ Len(m.stack) = n /\ Held(m, token) /\ Held(s, token)
  BY TwinsEmpty DEF Twins
<1>2. n \in Nat /\ n \in 1..n /\ Last(s.stack) = s.stack[n] /\ Last(m.stack) = m.stack[n]
  BY <1>1, LeaveIs
<1>3. Ctx(m, m.stack[n].thread) = m.stack[n].auth /\ Ctx(s, s.stack[n].thread) = s.stack[n].auth
  BY <1>1, <1>2, KnownOnTop DEF Twins
<1>4. /\ m.stack[n].via = IF n = 1 THEN s.stack[n].via ELSE "local"
      /\ m.stack[n].ep = s.stack[n].ep /\ m.stack[n].auth = s.stack[n].auth
      /\ m.stack[n].todo = s.stack[n].todo /\ m.stack[n].ends = s.stack[n].ends
  BY <1>1, <1>2 DEF Twins, Alike
<1>5. s.stack[n].via \in IF n = 1 THEN {"auth", "edge"} ELSE {"local", "http"}
  BY <1>1, <1>2 DEF Held, Entry
<1>6. /\ s.stack[n].ep \in Callers(a) /\ s.stack[n].todo \in Seq(ToSet(s.stack[n].ep.calls))
      /\ s.stack[n].auth = None <=> ~s.stack[n].ep.auth
      /\ n > 1 => s.stack[n].ends.is \in {"ok", "api"}
      /\ s.stack[n].via = "auth" => guarded
  BY <1>2 DEF Twins, Work
<1> QED BY <1>1, <1>2, <1>3, <1>4, <1>5, <1>6

LEMMA TwinsCall ==
  ASSUME Comparable, NEW m, NEW s, Twins(app, Guarded, req.token, m, s),
         m.stack # <<>>, m.at = "running", Last(m.stack).todo # <<>>
  PROVE  Twins(app, Guarded, req.token, Called("mono", m), Called("services", s))
<1> DEFINE f == Last(m.stack)
           g == Last(s.stack)
           c == Head(g.todo)
           n == Len(s.stack)
<1>1. /\ n \in Nat /\ n \in 1..n /\ g = s.stack[n] /\ s.stack # <<>>
      /\ f.todo = g.todo
      /\ g.ep \in Callers(app) /\ g.todo \in Seq(ToSet(g.ep.calls))
      /\ g.auth = None <=> ~g.ep.auth
      /\ Ctx(m, f.thread) = g.auth /\ Ctx(s, g.thread) = g.auth
  BY TwinsTop
<1>2. g.auth \in {None, req.token}
  BY <1>1 DEF Twins, Held, Identity
<1>3. Waits(s)
  BY <1>1 DEF Waits
<1>4. c \in ToSet(g.ep.calls)
  <2> HIDE DEF g
  <2> QED BY <1>1, TailIn
<1>5. /\ c.arg # "int" /\ c.svc \in Containers(app)
      /\ \E callee \in Callers(app) :
           /\ ~callee.stream /\ callee.auth = g.ep.auth /\ callee.ends.is \in {"ok", "api"}
           /\ LET fits == {x \in Served(app, c.svc) : x.decl.fn = c.fn}
                  sent == {x \in Served(app, c.svc) : x.decl.fn = c.fn /\ ~x.decl.stream}
              IN  /\ fits # {} /\ First(fits).decl = callee
                  /\ sent # {} /\ Latest(sent).decl = callee
  <2> HIDE DEF c, g
  <2> QED BY <1>1, <1>4, OneCallee DEF Comparable
<1>6. Called("mono", m) = CallLocal(m, f, c)
  <2>1. "mono" # "services"
    OBVIOUS
  <2>2. Called("mono", m) = CallLocal(m, f, Head(f.todo))
    BY <2>1, Zenon DEF Called
  <2> HIDE DEF f, g
  <2> QED BY <1>1, <2>2
<1>7. Called("services", s) = CallHttp(s, g, c)
  <2>1. c.svc \in topo.known
    BY <1>5 DEF Comparable, Deployed
  <2> QED BY <2>1, Zenon DEF Called
<1> HIDE DEF f, g, c
<1> DEFINE fits == {x \in Served(app, c.svc) : x.decl.fn = c.fn}
           sent == {x \in Served(app, c.svc) : x.decl.fn = c.fn /\ ~x.decl.stream}
<1>8. PICK callee \in Callers(app) :
           /\ ~callee.stream /\ callee.auth = g.ep.auth /\ callee.ends.is \in {"ok", "api"}
           /\ fits # {} /\ First(fits).decl = callee
           /\ sent # {} /\ Latest(sent).decl = callee
  BY <1>5
<1>9. CallLocal(m, f, c) =
        CASE fits = {} -> Resume(m, APIError(404))
          [] fits # {} /\ First(fits).decl.stream -> Resume(m, APIError(501))
          [] OTHER -> Enter(m, "local", f.proc, f.thread, First(fits).decl, Ctx(m, f.thread), c.arg)
  BY Zenon DEF CallLocal
<1>10. CallHttp(s, g, c) =
        CASE sent = {} -> Resume(s, APIError(404))
          [] sent # {} /\ Latest(sent).decl.auth /\ Ctx(s, g.thread) = None -> Resume(s, APIError(401))
          [] OTHER -> Enter(s, "http", c.svc, Thread(s, c.svc), Latest(sent).decl,
                            IF Latest(sent).decl.auth THEN Ctx(s, g.thread) ELSE None, Sent(c.arg))
  BY Zenon DEF CallHttp
<1> HIDE DEF fits, sent
<1>11. g.auth = None <=> ~callee.auth
  BY <1>1, <1>8
<1>12. CallLocal(m, f, c) = Enter(m, "local", f.proc, f.thread, callee, g.auth, c.arg)
  BY <1>1, <1>8, <1>9
<1>13. CallHttp(s, g, c) = Enter(s, "http", c.svc, Thread(s, c.svc), callee, g.auth, c.arg)
  <2>1. Sent(c.arg) = c.arg
    BY <1>5 DEF Sent
  <2>2. (IF callee.auth THEN g.auth ELSE None) = g.auth
    BY <1>11
  <2>3. ~(callee.auth /\ g.auth = None)
    BY <1>11
  <2> QED BY <1>1, <1>8, <1>10, <2>1, <2>2, <2>3
<1>14. CASE c.arg = "refused"
  <2>1. Enter(m, "local", f.proc, f.thread, callee, g.auth, c.arg) = Resume(m, APIError(400))
    BY <1>14, Zenon DEF Enter
  <2>2. Enter(s, "http", c.svc, Thread(s, c.svc), callee, g.auth, c.arg) = Resume(s, APIError(400))
    BY <1>14, Zenon DEF Enter
  <2>3. APIError(400).is \in {"ok", "api"}
    BY DEF APIError
  <2>4. Twins(app, Guarded, req.token, Resume(m, APIError(400)), Resume(s, APIError(400)))
    BY <1>3, <2>3, TwinsResume
  <2> QED BY <1>6, <1>7, <1>12, <1>13, <2>1, <2>2, <2>4
<1>15. CASE c.arg # "refused"
  <2>1. Directory(app)
    BY DEF Comparable
  <2>2. Twins(app, Guarded, req.token,
              Enter(m, "local", f.proc, f.thread, callee, g.auth, c.arg),
              Enter(s, "http", c.svc, Thread(s, c.svc), callee, g.auth, c.arg))
    BY <1>2, <1>3, <1>8, <1>11, <1>15, <2>1, TwinsEnter
  <2> QED BY <1>6, <1>7, <1>12, <1>13, <2>2
<1> QED BY <1>14, <1>15

LEMMA TwinsReturn ==
  ASSUME Comparable, NEW m, NEW s, Twins(app, Guarded, req.token, m, s),
         m.stack # <<>>, m.at = "running", Last(m.stack).todo = <<>>
  PROVE  Twins(app, Guarded, req.token, Returned("mono", m), Returned("services", s))
<1> DEFINE f == Last(m.stack)
           g == Last(s.stack)
           p == Leave(m)
           q == Leave(s)
           n == Len(s.stack)
<1>1. /\ n \in Nat /\ s.stack # <<>>
      /\ Held(m, req.token) /\ Held(s, req.token)
      /\ f.via = IF n = 1 THEN g.via ELSE "local"
      /\ f.ep = g.ep /\ f.ends = g.ends
      /\ g.via \in IF n = 1 THEN {"auth", "edge"} ELSE {"local", "http"}
      /\ n > 1 => g.ends.is \in {"ok", "api"}
      /\ g.via = "auth" => Guarded
      /\ n \in 1..n
  BY TwinsTop
<1>2. Twins(app, Guarded, req.token, p, q) /\ Waits(q)
  BY TwinsLeave
<1>3. /\ p.at = "running"
      /\ f.via \in {"auth", "edge"} => p.stack = <<>>
      /\ f.via \in {"local", "http"} => p.stack # <<>>
  BY <1>1, LeaveHeld
<1> DEFINE Then(v, left, top) ==
             CASE top.via \in {"local", "http"} -> Resume(left, Received(top.via, top.ends))
               [] top.via = "edge" -> Done(left, IF top.ep.stream THEN 200 ELSE top.ends.status)
               [] top.via = "auth" /\ top.ends # Ok -> Done(left, top.ends.status)
               [] top.via = "auth" /\ top.ends = Ok /\ req.token \notin Users -> Done(left, 401)
               [] OTHER -> Admit(left, v, req.token)
<1>4. Returned("mono", m) = Then("app", p, f)
  BY Zenon DEF Returned
<1>5. Returned("services", s) = Then(Upstream, q, g)
  <2>1. "services" # "mono"
    OBVIOUS
  <2> QED BY <2>1, Zenon DEF Returned
<1> HIDE DEF f, g, p, q, n
<1>8. n = 1 \/ (n > 1 /\ n # 1)
  BY <1>1
<1>6. CASE n > 1
  <2>1. f.via = "local" /\ g.via \in {"local", "http"} /\ g.ends.is \in {"ok", "api"}
    BY <1>1, <1>6, <1>8
  <2>2. Received(f.via, f.ends) = g.ends /\ Received(g.via, g.ends) = g.ends
    BY <1>1, <2>1 DEF Received
  <2>3. Then("app", p, f) = Resume(p, g.ends)
        /\ Then(Upstream, q, g) = Resume(q, g.ends)
    BY <2>1, <2>2
  <2>4. Twins(app, Guarded, req.token, Resume(p, g.ends), Resume(q, g.ends))
    BY <1>2, <1>3, <2>1, TwinsResume
  <2> QED BY <1>4, <1>5, <2>3, <2>4
<1>7. CASE n = 1
  <2>1. f.via = g.via /\ g.via \in {"auth", "edge"} /\ p.stack = <<>>
    BY <1>1, <1>3, <1>7
  <2>2. CASE ~(g.via = "auth" /\ g.ends = Ok /\ req.token \in Users)
    <3>1. \E status : /\ Then("app", p, f) = Done(p, status)
                      /\ Then(Upstream, q, g) = Done(q, status)
      BY <1>1, <2>1, <2>2
    <3> HIDE DEF Then
    <3> QED BY <1>2, <1>4, <1>5, <2>1, <3>1, TwinsDone
  <2>3. CASE g.via = "auth" /\ g.ends = Ok /\ req.token \in Users
    <3>1. /\ Then("app", p, f) = Admit(p, "app", req.token)
          /\ Then(Upstream, q, g) = Admit(q, Upstream, req.token)
      BY <1>1, <2>1, <2>3
    <3>2. Guarded
      BY <1>1, <2>3
    <3>3. Twins(app, Guarded, req.token, Admit(p, "app", req.token), Admit(q, Upstream, req.token))
      BY <1>2, <2>1, <2>3, <3>2, TwinsAdmit
    <3> QED BY <1>4, <1>5, <3>1, <3>3
  <2> QED BY <2>2, <2>3
<1> QED BY <1>6, <1>7, <1>8

(* Both worlds take the same step.                                         *)
LEMMA TwinsAfter ==
  ASSUME Comparable, NEW m, NEW s, Twins(app, Guarded, req.token, m, s),
         Sound(m, req.token), m.at \in {"edge", "running"}
  PROVE  Twins(app, Guarded, req.token, After("mono", m), After("services", s))
<1>1. s.at = m.at /\ (m.stack = <<>> <=> m.at = "edge")
  BY DEF Twins, Alike, Sound
<1>2. CASE m.at = "edge"
  <2>1. After("mono", m) = Edge("mono", m) /\ After("services", s) = Edge("services", s)
    BY <1>1, <1>2 DEF After
  <2> QED BY <1>1, <1>2, <2>1, TwinsEdge
<1>3. CASE m.at = "running"
  <2>1. Last(s.stack).todo = Last(m.stack).todo
    BY <1>1, <1>3, TwinsTop
  <2>2. CASE Last(m.stack).todo # <<>>
    <3>1. After("mono", m) = Called("mono", m) /\ After("services", s) = Called("services", s)
      BY <1>1, <1>3, <2>1, <2>2 DEF After
    <3> QED BY <1>1, <1>3, <2>2, <3>1, TwinsCall
  <2>3. CASE Last(m.stack).todo = <<>>
    <3>1. After("mono", m) = Returned("mono", m) /\ After("services", s) = Returned("services", s)
      BY <1>1, <1>3, <2>1, <2>3 DEF After
    <3> QED BY <1>1, <1>3, <2>3, <3>1, TwinsReturn
  <2> QED BY <2>2, <2>3
<1> QED BY <1>2, <1>3

-----------------------------------------------------------------------------
(* What a step does depends on the application, the topology and the       *)
(* request, and while a request is served none of them changes.            *)
LEMMA RoutesStay ==
  ASSUME UNCHANGED <<app, topo, req>>
  PROVE  Routes' = Routes /\ Upstream' = Upstream /\ (Guarded' <=> Guarded)
<1>1. Routes' = Routes
  BY DEF Routes
<1>2. Upstream' = Upstream
  BY <1>1, Zenon DEF Upstream
<1>3. Guarded' <=> Guarded
  BY DEF Guarded
<1> QED BY <1>1, <1>2, <1>3

LEMMA AfterStays ==
  ASSUME UNCHANGED <<app, topo, req>>, NEW CONSTANT w, NEW CONSTANT r
  PROVE  After(w, r)' = After(w, r)
<1>1. app' = app /\ topo' = topo /\ req' = req /\ Routes' = Routes /\ Upstream' = Upstream
      /\ (Guarded' <=> Guarded)
  BY RoutesStay
<1>2. ASSUME NEW CONSTANT q, NEW CONSTANT proc
      PROVE  Authenticate(q, proc)' = Authenticate(q, proc)
  BY <1>1 DEF Authenticate
<1>3. ASSUME NEW CONSTANT q, NEW CONSTANT proc, NEW CONSTANT identity
      PROVE  Admit(q, proc, identity)' = Admit(q, proc, identity)
  BY <1>1 DEF Admit
<1>4. ASSUME NEW CONSTANT q, NEW CONSTANT f, NEW CONSTANT c
      PROVE  CallLocal(q, f, c)' = CallLocal(q, f, c)
  BY <1>1 DEF CallLocal
<1>5. ASSUME NEW CONSTANT q, NEW CONSTANT f, NEW CONSTANT c
      PROVE  CallHttp(q, f, c)' = CallHttp(q, f, c)
  BY <1>1 DEF CallHttp
<1>6. Edge(w, r)' = Edge(w, r)
  BY <1>1, <1>2, <1>3 DEF Edge
<1>7. Called(w, r)' = Called(w, r)
  BY <1>1, <1>4, <1>5 DEF Called
<1>8. Returned(w, r)' = Returned(w, r)
  BY <1>1, <1>3 DEF Returned
<1> QED BY <1>6, <1>7, <1>8 DEF After

LEMMA ComparableStays ==
  ASSUME UNCHANGED <<app, topo, req>>
  PROVE  Comparable' <=> Comparable
<1>1. app' = app /\ topo' = topo /\ req' = req
  OBVIOUS
<1>2. Deployed' <=> Deployed
  BY <1>1 DEF Deployed
<1>3. PrefixesApart' <=> PrefixesApart
  BY <1>1 DEF PrefixesApart
<1>4. CallsAlike' <=> CallsAlike
  BY <1>1 DEF CallsAlike, Callees
<1> QED BY <1>1, <1>2, <1>3, <1>4 DEF Comparable

-----------------------------------------------------------------------------
(* The containers repeat what the one process has done.  Its past is not   *)
(* in the state, but m is in it if where the process is now follows from m *)
(* by its own steps: it is in every set with m that those steps do not     *)
(* leave.  The steps are a function, so the state after m is also one from *)
(* which it follows, unless the process is still at m.                     *)
Under(r) == r.at \in {"edge", "running"}

Closed(R) == \A r \in R : Under(r) => After("mono", r) \in R

Leads(m, z) == \A R : m \in R /\ Closed(R) => z \in R

LEMMA LeadsFurther ==
  ASSUME NEW m, NEW z, Leads(m, z), Under(z)
  PROVE  Leads(m, After("mono", z))
BY DEF Leads, Closed

LEMMA LeadsFrom ==
  ASSUME NEW m, NEW z, Leads(m, z), m # z
  PROVE  Under(m) /\ Leads(After("mono", m), z)
<1>1. Under(m)
  <2>1. SUFFICES ASSUME ~Under(m) PROVE z \in {m}
    BY Zenon
  <2>2. Closed({m})
    BY <2>1 DEF Closed
  <2> QED BY <2>2 DEF Leads
<1>2. ASSUME NEW R, After("mono", m) \in R, Closed(R) PROVE z \in R
  <2>1. Closed(R \union {m})
    BY <1>2 DEF Closed
  <2>2. z \in R \union {m}
    BY <2>1 DEF Leads
  <2> QED BY <2>2
<1> QED BY <1>1, <1>2 DEF Leads

LEMMA LeadsStays ==
  ASSUME UNCHANGED <<app, topo, req>>, NEW CONSTANT m, NEW CONSTANT z
  PROVE  Leads(m, z)' <=> Leads(m, z)
<1>1. ASSUME NEW CONSTANT r PROVE After("mono", r)' = After("mono", r)
  BY AfterStays
<1>2. ASSUME NEW CONSTANT R PROVE Closed(R)' <=> Closed(R)
  BY <1>1 DEF Closed
<1> QED BY <1>2 DEF Leads

(* The inductive invariant.                                                *)
Followed ==
  Comparable =>
    \E m : /\ Twins(app, Guarded, req.token, m, run["services"])
           /\ Sound(m, req.token) /\ Leads(m, run["mono"])

SameInv ==
  /\ CallsInv /\ AppInv /\ topo.table \in {"static", "runtime"}
  /\ run["mono"].at = "idle" \/ req.path \in Paths
  /\ Followed

(* Nobody runs yet.                                                        *)
LEMMA TwinsStart ==
  ASSUME NEW a, NEW guarded, NEW token, NEW m, NEW s,
         Sound(m, token), Sound(s, token), m.stack = <<>>, s.stack = <<>>,
         m.at = s.at, m.answer = s.answer, m.seen = s.seen
  PROVE  Twins(a, guarded, token, m, s)
<1>1. Held(m, token) /\ Held(s, token)
  BY DEF Sound
<1>2. Knows(m) /\ Knows(s)
  BY <1>1, NobodyKnown
<1>3. Len(m.stack) = 0 /\ Len(s.stack) = 0
  OBVIOUS
<1>4. Work(a, guarded, s) /\ Alike(m, s)
  BY <1>3 DEF Work, Alike
<1> QED BY <1>1, <1>2, <1>4 DEF Twins

LEMMA SameInit == Init => SameInv
<1> SUFFICES ASSUME Init PROVE SameInv
  OBVIOUS
<1>1. CallsInv
  BY CallsInit
<1>2. AppInv
  BY DEF Init, AppInv
<1>3. topo.table \in {"static", "runtime"}
  BY DEF Init, Topologies
<1>4. run["mono"] = Idle /\ run["services"] = Idle
  <2>1. run = [w \in Worlds |-> Idle]
    BY Zenon DEF Init
  <2> QED BY <2>1 DEF Worlds
<1>5. Sound(Idle, req.token)
  BY <1>1, <1>4 DEF CallsInv, Worlds
<1>6. Twins(app, Guarded, req.token, Idle, Idle)
  <2>1. Idle.stack = <<>>
    BY DEF Idle
  <2> QED BY <1>5, <2>1, TwinsStart
<1>7. Followed
  <2>1. Leads(Idle, Idle)
    BY DEF Leads
  <2> QED BY <1>4, <1>5, <1>6, <2>1 DEF Followed
<1>8. run["mono"].at = "idle"
  BY <1>4 DEF Idle
<1> QED BY <1>1, <1>2, <1>3, <1>7, <1>8 DEF SameInv

LEMMA SameArrive ==
  ASSUME SameInv, NEW path, NEW method, NEW token, NEW arg,
         Arrive(path, method, token, arg)
  PROVE  Followed'
<1>1. run' = [w \in Worlds |-> [Idle EXCEPT !.at = "edge", !.ctx = run[w].ctx]]
  BY Zenon DEF Arrive
<1>2. CallsInv'
  BY ArriveKeeps DEF SameInv
<1>3. "mono" \in Worlds /\ "services" \in Worlds
  BY DEF Worlds
<1>4. PICK m : m = run'["mono"]
  OBVIOUS
<1>5. PICK s : s = run'["services"]
  OBVIOUS
<1>6. Sound(m, req'.token) /\ Sound(s, req'.token)
  BY <1>2, <1>3, <1>4, <1>5 DEF CallsInv
<1>7. /\ m.at = "edge" /\ m.stack = <<>> /\ m.seen = <<>> /\ m.answer = 0
      /\ s.at = "edge" /\ s.stack = <<>> /\ s.seen = <<>> /\ s.answer = 0
  BY <1>1, <1>3, <1>4, <1>5 DEF Idle
<1>8. Twins(app', Guarded', req'.token, m, s)
  BY <1>6, <1>7, TwinsStart
<1>9. Leads(m, m)'
  BY DEF Leads
<1> QED BY <1>4, <1>5, <1>6, <1>8, <1>9 DEF Followed

LEMMA SameStep ==
  ASSUME SameInv, Steps("mono") \/ (run["mono"].at = "done" /\ Steps("services"))
  PROVE  Followed' /\ UNCHANGED <<app, topo, req>>
<1>0. "mono" \in Worlds /\ "services" \in Worlds /\ DOMAIN run = Worlds
  BY DEF Worlds, SameInv, CallsInv
<1>1. PICK w \in Worlds : /\ Under(run[w]) /\ Set(w, After(w, run[w]))
                          /\ w = "mono" \/ (w = "services" /\ run["mono"].at = "done")
  BY <1>0, StepIs DEF Under
<1>2. run' = [run EXCEPT ![w] = After(w, run[w])] /\ UNCHANGED <<app, topo, req>>
  BY <1>1, Zenon DEF Set
<1>3. ASSUME Comparable'
      PROVE  \E m : /\ Twins(app, Guarded, req.token, m, run'["services"])
                    /\ Sound(m, req.token) /\ Leads(m, run'["mono"])
  <2>1. Comparable
    BY <1>2, <1>3, ComparableStays
  <2>2. PICK m : /\ Twins(app, Guarded, req.token, m, run["services"])
                 /\ Sound(m, req.token) /\ Leads(m, run["mono"])
    BY <2>1 DEF SameInv, Followed
  <2>3. CASE w = "mono"
    <3>1. run'["services"] = run["services"] /\ run'["mono"] = After("mono", run["mono"])
      BY <1>0, <1>2, <2>3
    <3>2. Leads(m, run'["mono"])
      BY <1>1, <2>2, <2>3, <3>1, LeadsFurther
    <3> QED BY <2>2, <3>1, <3>2
  <2>4. CASE w = "services" /\ run["mono"].at = "done"
    <3>1. /\ run'["mono"] = run["mono"]
          /\ run'["services"] = After("services", run["services"])
      BY <1>0, <1>2, <2>4
    <3>2. m.at = run["services"].at
      BY <2>2 DEF Twins, Alike
    <3>3. m # run["mono"] /\ m.at \in {"edge", "running"}
      BY <1>1, <2>4, <3>2 DEF Under
    <3>4. Leads(After("mono", m), run["mono"])
      BY <2>2, <3>3, LeadsFrom
    <3>5. Twins(app, Guarded, req.token, After("mono", m), After("services", run["services"]))
      BY <2>1, <2>2, <3>3, TwinsAfter
    <3>6. Sound(After("mono", m), req.token)
      BY <2>2, <3>3, AfterSound
    <3> QED BY <3>1, <3>4, <3>5, <3>6
  <2> QED BY <1>1, <2>3, <2>4
<1>4. Followed'
  <2>1. SUFFICES ASSUME Comparable'
                 PROVE  \E m : /\ Twins(app', Guarded', req'.token, m, run'["services"])
                               /\ Sound(m, req'.token) /\ Leads(m, run["mono"])'
    BY DEF Followed
  <2>2. PICK m : /\ Twins(app, Guarded, req.token, m, run'["services"])
                 /\ Sound(m, req.token) /\ Leads(m, run'["mono"])
    BY <1>3, <2>1
  <2>3. Guarded' <=> Guarded
    BY <1>2, RoutesStay
  <2>4. PICK z : z = run'["mono"]
    OBVIOUS
  <2>5. Leads(m, z)'
    BY <1>2, <2>2, <2>4, LeadsStays
  <2> QED BY <1>2, <2>2, <2>3, <2>4, <2>5
<1> QED BY <1>2, <1>4

LEMMA SameInductive == SameInv /\ [Next]_vars => SameInv'
<1> SUFFICES ASSUME SameInv, [Next]_vars PROVE SameInv'
  OBVIOUS
<1>1. CallsInv'
  BY CallsInductive DEF SameInv
<1>2. CASE \E path \in Paths, method \in Methods, token \in Users \union {Forged, None},
              arg \in {"str", "refused"} : Arrive(path, method, token, arg)
  <2>1. PICK path \in Paths, method \in Methods, token \in Users \union {Forged, None}, arg \in {"str", "refused"} :
             Arrive(path, method, token, arg)
    BY <1>2
  <2>2. req' = [path |-> path, method |-> method, token |-> token, arg |-> arg] /\ UNCHANGED <<app, topo>>
    BY <2>1, Zenon DEF Arrive
  <2>3. Followed'
    BY <2>1, SameArrive
  <2> QED BY <1>1, <2>2, <2>3 DEF SameInv, AppInv
<1>3. CASE Steps("mono") \/ (run["mono"].at = "done" /\ Steps("services"))
  <2>1. Followed' /\ UNCHANGED <<app, topo, req>>
    BY <1>3, SameStep
  <2>2. run["mono"].at # "idle"
    BY <1>3, StepIs DEF Worlds
  <2> QED BY <1>1, <2>1, <2>2 DEF SameInv, AppInv
<1>4. CASE UNCHANGED vars
  <2>1. UNCHANGED <<app, topo, req>> /\ run' = run
    BY <1>4 DEF vars
  <2>2. Followed'
    <3>1. SUFFICES ASSUME Comparable'
                   PROVE  \E m : /\ Twins(app', Guarded', req'.token, m, run'["services"])
                                 /\ Sound(m, req'.token) /\ Leads(m, run["mono"])'
      BY DEF Followed
    <3>2. Comparable
      BY <2>1, <3>1, ComparableStays
    <3>3. PICK m : /\ Twins(app, Guarded, req.token, m, run["services"])
                   /\ Sound(m, req.token) /\ Leads(m, run["mono"])
      BY <3>2 DEF SameInv, Followed
    <3>4. Guarded' <=> Guarded
      BY <2>1, RoutesStay
    <3>5. PICK z : z = run["mono"]
      OBVIOUS
    <3>6. Leads(m, z)'
      BY <2>1, <3>3, <3>5, LeadsStays
    <3> QED BY <2>1, <3>3, <3>4, <3>5, <3>6
  <2> QED BY <1>1, <2>1, <2>2 DEF SameInv, AppInv
<1> QED BY <1>2, <1>3, <1>4, NextIs

LEMMA SameEnds == SameInv => SameAnswers
<1> SUFFICES ASSUME SameInv, Answered, Hit(app, "app", req.path, req.method) # {},
                    Deployed, PrefixesApart, CallsAlike
             PROVE  Same
  BY DEF SameAnswers
<1>1. run["mono"].at = "done" /\ run["services"].at = "done"
  BY DEF Answered, Worlds
<1>2. Comparable
  BY <1>1, CallsAssumption DEF SameInv, AppInv, Comparable
<1>3. PICK m : /\ Twins(app, Guarded, req.token, m, run["services"])
               /\ Sound(m, req.token) /\ Leads(m, run["mono"])
  BY <1>2 DEF SameInv, Followed
<1>4. /\ m.at = "done" /\ m.answer = run["services"].answer
      /\ m.seen = run["services"].seen
  BY <1>1, <1>3 DEF Twins, Alike
<1>5. ~Under(m)
  BY <1>4 DEF Under
<1>6. m = run["mono"]
  BY <1>3, <1>5, LeadsFrom
<1> QED BY <1>4, <1>6 DEF Same

(* The same code in both worlds (call.py:3), whatever the application: a   *)
(* request for an endpoint gets the same answer behind the gateway, over   *)
(* its own routes and the signed internal route, as from one process that  *)
(* holds every service; and the same handlers run for it, in the same      *)
(* order, for the same users, with the same arguments.                     *)
THEOREM SameCode == Spec => []SameAnswers
<1>1. Init => SameInv
  BY SameInit
<1>2. SameInv /\ [Next]_vars => SameInv'
  BY SameInductive
<1>3. SameInv => SameAnswers
  BY SameEnds
<1> QED BY <1>1, <1>2, <1>3, PTL DEF Spec


(* What both tables of the gateway do with a request for an endpoint.      *)
Routed ==
  Deployed /\ PrefixesApart =>
    \A path \in Paths : \A method \in Methods : \A ep \in Hit(app, "app", path, method) :
      /\ PickRoute(Routes, path) # {}
      /\ \A route \in PickRoute(Routes, path) :
           /\ Hit(app, route.service, path, method) = Hit(app, "app", path, method)
           /\ route.auth <=> ep.auth

(* Where a module is one service and no prefix is shared by two kinds of   *)
(* endpoints, both tables of the gateway (gateway.py's build_routes and    *)
(* the routes VIGNEMALE_ROLE=gateway derives) lead a request for an        *)
(* endpoint to a service whose container answers with the same endpoint,   *)
(* and the gateway authenticates it exactly if that is protected.          *)
THEOREM RequestsAreRouted == Spec => []Routed
<1>1. Init => SameInv
  BY SameInit
<1>2. SameInv /\ [Next]_vars => SameInv'
  BY SameInductive
<1>3. SameInv => Routed
  <2>1. SUFFICES ASSUME SameInv, Deployed, PrefixesApart,
                        NEW path \in Paths, NEW method \in Methods,
                        NEW ep \in Hit(app, "app", path, method)
                 PROVE  /\ PickRoute(Routes, path) # {}
                        /\ \A route \in PickRoute(Routes, path) :
                             /\ Hit(app, route.service, path, method) = Hit(app, "app", path, method)
                             /\ route.auth <=> ep.auth
    BY Zenon DEF Routed
  <2>2. Directory(app) /\ topo.table \in {"static", "runtime"} /\ path \in Seq(STRING)
    BY <2>1, CallsAssumption, AppAssumption DEF SameInv, AppInv
  <2>3. PICK h \in Served(app, "app") :
               h.decl = ep /\ h.decl.expose /\ Matches(h.decl.path, path)
    BY HitIs
  <2>4. h \in Declared(app, "api")
    BY <2>1, <2>2, ServedIs DEF Deployed
  <2>5. /\ PickRoute(Routes, path) # {}
        /\ \A r \in PickRoute(Routes, path) :
             r.service = ServiceOf(app, h.module) /\ (r.auth <=> h.decl.auth)
    BY <2>1, <2>2, <2>3, <2>4, GatewayLeads
  <2>6. Hit(app, ServiceOf(app, h.module), path, method) = Hit(app, "app", path, method)
    BY <2>1, <2>2, <2>3, HitsAgree
  <2> QED BY <2>3, <2>5, <2>6
<1> QED BY <1>1, <1>2, <1>3, PTL DEF Spec
=============================================================================
