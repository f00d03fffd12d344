---------------------------- MODULE StreamProofs ----------------------------
(***************************************************************************)
(* What the client of a stream gets, for any number of threads that write, *)
(* any capacity and any number of chunks.                                  *)
(***************************************************************************)
EXTENDS Stream, FiniteSetTheorems, SequenceTheorems, TLAPS

(* The client has the first of the accepted chunks, and the channel the    *)
(* others, as long as the client is there.                                 *)
Pipe ==
  /\ Len(received) <= Len(accepted)
  /\ \A i \in 1..Len(received) : received[i] = accepted[i]
  /\ client # "gone" =>
       /\ Len(accepted) = Len(received) + Len(buf)
       /\ \A i \in 1..Len(buf) : accepted[Len(received) + i] = buf[i]

(* After the end nobody can write any more.                                *)
EndIsEnd == client = "ended" => ~open /\ waiting = <<>> /\ permits = {} /\ buf = <<>>

(* A thread makes one write at a time.                                     *)
OneWrite ==
  /\ \A i, j \in 1..Len(waiting) : waiting[i] = waiting[j] => i = j
  /\ \A i \in 1..Len(waiting) : waiting[i] \notin permits
  /\ \A w \in Blocked : calls[w] >= 1

(* Those whose chunks can still be accepted.                               *)
Live(w) == w \in permits \/ (client # "gone" /\ (open \/ w \in Blocked))

(* The writes of such a thread before the one it is at, if any.            *)
Past(w) == IF w \in Blocked THEN calls[w] - 1 ELSE calls[w]

Accepted(c) == \E i \in 1..Len(accepted) : accepted[i] = c

PastAccepted ==
  \A w \in Writers : Live(w) => \A n \in 1..MaxWrites : Accepted(<<w, n>>) <=> n <= Past(w)

(* The inductive invariant.                                                *)
IInv ==
  /\ TypeOK
  /\ Pipe
  /\ EndIsEnd
  /\ OneWrite
  /\ PastAccepted
  /\ InTurn(accepted)

-----------------------------------------------------------------------------
(* One more chunk keeps a sequence in turn if it is new and the one before *)
(* it is there.                                                            *)
LEMMA AppendInTurn ==
  ASSUME NEW s \in Seq(Chunks), NEW w \in Writers, NEW n \in 1..MaxWrites, InTurn(s),
         \A i \in 1..Len(s) : s[i] # <<w, n>>,
         n > 1 => \E i \in 1..Len(s) : s[i] = <<w, n - 1>>
  PROVE  InTurn(Append(s, <<w, n>>))
<1> DEFINE t == Append(s, <<w, n>>)
<1>1. /\ Len(s) \in Nat /\ DOMAIN s = 1..Len(s)
      /\ Len(t) = Len(s) + 1 /\ DOMAIN t = 1..(Len(s) + 1)
      /\ t[Len(s) + 1] = <<w, n>>
      /\ \A i \in 1..Len(s) : t[i] = s[i]
  OBVIOUS
<1> HIDE DEF t
<1>2. ASSUME NEW i \in DOMAIN t, t[i][2] > 1
      PROVE  \E j \in 1..(i - 1) : t[j] = <<t[i][1], t[i][2] - 1>>
  <2>1. CASE i \in 1..Len(s)
    <3>1. \E j \in 1..(i - 1) : s[j] = <<s[i][1], s[i][2] - 1>>
      BY <1>1, <1>2, <2>1 DEF InTurn
    <3> QED BY <1>1, <2>1, <3>1
  <2>2. CASE i = Len(s) + 1
    <3>1. t[i][1] = w /\ t[i][2] = n
      BY <1>1, <2>2
    <3>2. \E j \in 1..Len(s) : s[j] = <<w, n - 1>>
      BY <1>2, <3>1
    <3> QED BY <1>1, <2>2, <3>1, <3>2
  <2> QED BY <1>1, <2>1, <2>2
<1>3. ASSUME NEW i \in DOMAIN t, NEW j \in DOMAIN t, t[i] = t[j]
      PROVE  i = j
  BY <1>1, <1>3 DEF InTurn
<1> QED BY <1>2, <1>3 DEF InTurn, t

(* The first chunks of a sequence in turn are in turn.                     *)
LEMMA PrefixInTurn ==
  ASSUME NEW s \in Seq(Chunks), NEW t \in Seq(Chunks), InTurn(s), Len(t) <= Len(s),
         \A i \in 1..Len(t) : t[i] = s[i]
  PROVE  InTurn(t)
<1>1. /\ DOMAIN s = 1..Len(s) /\ DOMAIN t = 1..Len(t)
      /\ Len(s) \in Nat /\ Len(t) \in Nat
  OBVIOUS
<1>2. ASSUME NEW i \in DOMAIN t, t[i][2] > 1
      PROVE  \E j \in 1..(i - 1) : t[j] = <<t[i][1], t[i][2] - 1>>
  <2>1. i \in DOMAIN s /\ t[i] = s[i]
    BY <1>1
  <2>2. PICK j \in 1..(i - 1) : s[j] = <<s[i][1], s[i][2] - 1>>
    BY <1>2, <2>1 DEF InTurn
  <2>3. t[j] = s[j]
    BY <1>1, <2>2
  <2> QED BY <2>1, <2>2, <2>3
<1>3. ASSUME NEW i \in DOMAIN t, NEW j \in DOMAIN t, t[i] = t[j]
      PROVE  i = j
  BY <1>1, <1>3 DEF InTurn
<1> QED BY <1>2, <1>3 DEF InTurn

(* A queue that somebody leaves.                                           *)
LEMMA RemoveAtProperties ==
  ASSUME NEW S, NEW s \in Seq(S), NEW i \in 1..Len(s)
  PROVE  LET t == RemoveAt(s, i)
         IN  /\ t \in Seq(S) /\ Len(s) \in Nat /\ Len(t) = Len(s) - 1
             /\ \A j \in 1..Len(t) : t[j] = s[IF j < i THEN j ELSE j + 1]
<1> DEFINE front == SubSeq(s, 1, i - 1)
           back  == SubSeq(s, i + 1, Len(s))
           t     == front \o back
<1>1. Len(s) \in Nat
  OBVIOUS
<1>2. /\ front \in Seq(S) /\ Len(front) = i - 1
      /\ \A j \in 1..(i - 1) : front[j] = s[j]
  BY <1>1
<1>3. /\ back \in Seq(S) /\ Len(back) = Len(s) - i
      /\ \A j \in 1..(Len(s) - i) : back[j] = s[i + j]
  BY <1>1
<1> HIDE DEF front, back
<1>4. /\ t \in Seq(S) /\ Len(t) = Len(front) + Len(back)
      /\ \A j \in 1..Len(t) : t[j] = IF j <= Len(front) THEN front[j] ELSE back[j - Len(front)]
  <2>1. front \in Seq(S) /\ back \in Seq(S)
    BY <1>2, <1>3
  <2> QED BY <2>1, ConcatProperties
<1> HIDE DEF t
<1>5. ASSUME NEW j \in 1..Len(t)
      PROVE  t[j] = s[IF j < i THEN j ELSE j + 1]
  <2>1. CASE j < i
    BY <1>1, <1>2, <1>3, <1>4, <2>1
  <2>2. CASE ~(j < i)
    <3>1. j - (i - 1) \in 1..(Len(s) - i) /\ i + (j - (i - 1)) = j + 1
      BY <1>1, <1>2, <1>3, <1>4, <2>2
    <3> QED BY <1>2, <1>3, <1>4, <2>2, <3>1
  <2> QED BY <2>1, <2>2
<1>6. Len(t) = Len(s) - 1
  BY <1>1, <1>2, <1>3, <1>4
<1> QED BY <1>1, <1>4, <1>5, <1>6 DEF t, front, back, RemoveAt

(* Who is in the queue, when one joins it, leads it or leaves it.          *)
LEMMA InRange ==
  ASSUME NEW S, NEW s \in Seq(S), NEW x
  PROVE  x \in Range(s) <=> \E i \in 1..Len(s) : s[i] = x
<1>1. DOMAIN s = 1..Len(s)
  OBVIOUS
<1> QED BY <1>1 DEF Range

LEMMA EmptyRange ==
  ASSUME NEW S, NEW s \in Seq(S), Range(s) = {}
  PROVE  s = <<>>
<1>1. ~ \E i \in 1..Len(s) : s[i] = s[i]
  BY InRange
<1>2. Len(s) \in Nat /\ Len(s) = 0
  BY <1>1
<1> QED BY <1>2

LEMMA AppendRange ==
  ASSUME NEW S, NEW s \in Seq(S), NEW x \in S
  PROVE  Range(Append(s, x)) = Range(s) \union {x}
<1> DEFINE t == Append(s, x)
<1>1. /\ t \in Seq(S) /\ Len(s) \in Nat /\ Len(t) = Len(s) + 1
      /\ t[Len(s) + 1] = x /\ \A i \in 1..Len(s) : t[i] = s[i]
  OBVIOUS
<1> HIDE DEF t
<1>2. ASSUME NEW y
      PROVE  y \in Range(t) <=> y \in Range(s) \union {x}
  <2>1. (\E i \in 1..Len(t) : t[i] = y) <=> ((\E i \in 1..Len(s) : s[i] = y) \/ y = x)
    BY <1>1
  <2> QED BY <1>1, <2>1, InRange
<1>3. Range(t) = Range(s) \union {x}
  BY <1>2
<1> QED BY <1>3 DEF t

LEMMA HeadTailRange ==
  ASSUME NEW S, NEW s \in Seq(S), s # <<>>
  PROVE  Range(s) = Range(Tail(s)) \union {Head(s)}
<1> DEFINE t == Tail(s)
<1>1. /\ t \in Seq(S) /\ Len(s) \in Nat /\ Len(s) >= 1 /\ Len(t) = Len(s) - 1
      /\ Head(s) = s[1] /\ \A i \in 1..Len(t) : t[i] = s[i + 1]
  OBVIOUS
<1> HIDE DEF t
<1>2. ASSUME NEW y
      PROVE  y \in Range(s) <=> y \in Range(t) \union {Head(s)}
  <2>1. ASSUME NEW i \in 1..Len(s), s[i] = y
        PROVE  y = s[1] \/ \E j \in 1..Len(t) : t[j] = y
    <3>1. CASE i = 1
      BY <2>1, <3>1
    <3>2. CASE i # 1
      <4>1. i - 1 \in 1..Len(t) /\ t[i - 1] = y
        BY <1>1, <2>1, <3>2
      <4> QED BY <4>1
    <3> QED BY <3>1, <3>2
  <2>2. ASSUME NEW j \in 1..Len(t), t[j] = y
        PROVE  \E i \in 1..Len(s) : s[i] = y
    BY <1>1, <2>2
  <2>3. 1 \in 1..Len(s)
    BY <1>1
  <2> QED BY <1>1, <2>1, <2>2, <2>3, InRange
<1>3. Range(s) = Range(t) \union {Head(s)}
  BY <1>2
<1> QED BY <1>3 DEF t

LEMMA PermitsFinite ==
  ASSUME permits \subseteq Writers
  PROVE  IsFiniteSet(permits) /\ Cardinality(permits) \in Nat
BY StreamAssumption, FS_Subset, FS_CardinalityType

LEMMA InitHolds == Init => IInv
<1> SUFFICES ASSUME Init PROVE IInv
  OBVIOUS
<1> USE DEF Init
<1>1. Cardinality(permits) = 0 /\ Len(buf) = 0
  BY FS_EmptySet
<1>2. TypeOK
  BY <1>1, StreamAssumption DEF TypeOK, Used
<1>3. Pipe /\ EndIsEnd /\ InTurn(accepted)
  BY DEF Pipe, EndIsEnd, InTurn
<1>4. Blocked = {}
  BY DEF Blocked, Range
<1>5. OneWrite /\ PastAccepted
  BY <1>4 DEF OneWrite, PastAccepted, Past, Accepted
<1> QED BY <1>2, <1>3, <1>5 DEF IInv

-----------------------------------------------------------------------------
(* Steps that touch neither the writes nor the chunks.                     *)
LEMMA OutsideKeeps ==
  ASSUME IInv, Start \/ HandlerEnds \/ End \/ Stall \/ Resume
  PROVE  IInv'
<1> USE DEF IInv, writerVars, chunkVars
<1>1. UNCHANGED <<calls, waiting, permits, buf, accepted, received>>
  BY DEF Start, HandlerEnds, End, Stall, Resume
<1>2. TypeOK' /\ OneWrite' /\ InTurn(accepted)'
  BY <1>1 DEF TypeOK, Used, OneWrite, Blocked, Start, HandlerEnds, End, Stall, Resume, InTurn
<1>3. Pipe'
  BY <1>1 DEF Pipe, Start, HandlerEnds, End, Stall, Resume
<1>4. EndIsEnd'
  <2>1. Closed => ~open /\ waiting = <<>> /\ permits = {}
    BY EmptyRange DEF Closed, Blocked, TypeOK
  <2> QED BY <1>1, <2>1 DEF EndIsEnd, Start, HandlerEnds, End, Stall, Resume
<1>5. PastAccepted'
  <2>1. \A w \in Writers : Live(w)' => Live(w)
    BY <1>1 DEF Live, Blocked, Start, HandlerEnds, End, Stall, Resume
  <2> QED BY <1>1, <2>1 DEF PastAccepted, Past, Accepted, Blocked
<1> QED BY <1>2, <1>3, <1>4, <1>5

LEMMA CallWriteKeeps ==
  ASSUME IInv, NEW w \in Writers, CallWrite(w)
  PROVE  IInv'
<1> USE StreamAssumption DEF IInv, chunkVars
<1>1. /\ UNCHANGED <<job, open, permits, client, buf, accepted, received>>
      /\ calls' = [calls EXCEPT ![w] = @ + 1]
      /\ w \notin Blocked /\ calls[w] < MaxWrites /\ calls[w] \in 0..MaxWrites
  BY DEF CallWrite, TypeOK
<1>2. Pipe' /\ InTurn(accepted)'
  BY <1>1 DEF Pipe, InTurn
<1>3. CASE open
  <2>1. waiting' = Append(waiting, w) /\ waiting' \in Seq(Writers)
    BY <1>3 DEF CallWrite, TypeOK
  <2>2. /\ Len(waiting) \in Nat /\ Len(waiting') = Len(waiting) + 1
        /\ waiting'[Len(waiting) + 1] = w
        /\ \A i \in 1..Len(waiting) : waiting'[i] = waiting[i]
    BY <2>1 DEF TypeOK
  <2>3. Blocked' = Blocked \union {w}
    <3>1. Range(waiting)' = Range(waiting) \union {w}
      BY <2>1, AppendRange DEF TypeOK
    <3> QED BY <1>1, <3>1 DEF Blocked
  <2>4. TypeOK'
    BY <1>1, <2>1 DEF TypeOK, Used
  <2>5. EndIsEnd'
    BY <1>1, <1>3 DEF EndIsEnd
  <2>6. \A i \in 1..Len(waiting) : waiting[i] \in Blocked
    BY DEF Blocked, Range, TypeOK
  <2>7. \A x \in Blocked : x \in Writers /\ x # w
    BY <1>1 DEF Blocked, Range, TypeOK
  <2>8. OneWrite'
    <3>1. \A x \in Blocked' : calls'[x] >= 1
      BY <1>1, <2>3, <2>7 DEF OneWrite, TypeOK
    <3>2. /\ \A i, j \in 1..Len(waiting') : waiting'[i] = waiting'[j] => i = j
          /\ \A i \in 1..Len(waiting') : waiting'[i] \notin permits'
      BY <1>1, <2>2, <2>6, SMTT(30) DEF OneWrite, Blocked
    <3> QED BY <3>1, <3>2 DEF OneWrite
  <2>9. PastAccepted'
    <3> SUFFICES ASSUME NEW x \in Writers, Live(x)'
                 PROVE  Live(x) /\ Past(x)' = Past(x)
      BY <1>1 DEF PastAccepted, Accepted
    <3> QED BY <1>1, <1>3, <2>3 DEF Live, Past, TypeOK
  <2> QED BY <1>2, <2>4, <2>5, <2>8, <2>9
<1>4. CASE ~open
  <2>1. waiting' = waiting /\ Blocked' = Blocked
    BY <1>1, <1>4 DEF CallWrite, Blocked
  <2>2. TypeOK' /\ EndIsEnd'
    BY <1>1, <2>1 DEF TypeOK, Used, EndIsEnd
  <2>3. \A x \in Blocked : x \in Writers /\ x # w
    BY <1>1 DEF Blocked, Range, TypeOK
  <2>4. OneWrite'
    BY <1>1, <2>1, <2>3 DEF OneWrite, TypeOK
  <2>5. PastAccepted'
    <3> SUFFICES ASSUME NEW x \in Writers, Live(x)'
                 PROVE  Live(x) /\ Past(x)' = Past(x)
      BY <1>1 DEF PastAccepted, Accepted
    <3>1. Live(x) /\ x # w
      BY <1>1, <1>4, <2>1 DEF Live, Blocked
    <3> QED BY <1>1, <2>1, <3>1 DEF Past, TypeOK
  <2> QED BY <1>2, <2>2, <2>4, <2>5
<1> QED BY <1>3, <1>4

LEMMA GetPermitKeeps ==
  ASSUME IInv, GetPermit
  PROVE  IInv'
<1> USE StreamAssumption DEF IInv, chunkVars
<1> DEFINE w == Head(waiting)
<1>1. /\ UNCHANGED <<job, open, calls, client, buf, accepted, received>>
      /\ permits' = permits \union {w} /\ waiting' = Tail(waiting)
      /\ client # "gone" /\ waiting # <<>> /\ waiting \in Seq(Writers)
  BY DEF GetPermit, TypeOK
<1>2. /\ w \in Writers /\ w = waiting[1] /\ waiting' \in Seq(Writers)
      /\ Len(waiting) \in Nat /\ Len(waiting) >= 1 /\ Len(waiting') = Len(waiting) - 1
      /\ \A i \in 1..Len(waiting') : waiting'[i] = waiting[i + 1]
  BY <1>1
<1>3. Range(waiting) = Range(waiting') \union {w}
  BY <1>1, HeadTailRange
<1>4. Blocked' = Blocked
  BY <1>1, <1>3 DEF Blocked
<1>5. TypeOK'
  <2>1. IsFiniteSet(permits) /\ Cardinality(permits) \in Nat /\ Len(buf) \in Nat
    BY PermitsFinite DEF TypeOK
  <2>2. w \notin permits
    BY <1>2 DEF OneWrite
  <2>3. Cardinality(permits') = Cardinality(permits) + 1
    BY <1>1, <2>1, <2>2, FS_AddElement
  <2>4. Used' <= Cap
    BY <1>1, <2>1, <2>3 DEF GetPermit, Used
  <2> QED BY <1>1, <1>2, <2>4 DEF TypeOK
<1>6. Pipe' /\ InTurn(accepted)' /\ EndIsEnd'
  BY <1>1 DEF Pipe, InTurn, EndIsEnd
<1>7. OneWrite'
  <2>1. \A i \in 1..Len(waiting') : waiting'[i] \notin permits \union {w}
    BY <1>2 DEF OneWrite
  <2>2. \A i, j \in 1..Len(waiting') : waiting'[i] = waiting'[j] => i = j
    BY SMTT(60), <1>2 DEF OneWrite
  <2> QED BY <1>1, <1>4, <2>1, <2>2 DEF OneWrite
<1>8. PastAccepted'
  <2>1. \A x \in Writers : Live(x)' => Live(x) /\ Past(x)' = Past(x)
    <3>1. w \in Blocked
      BY <1>3 DEF Blocked
    <3> QED BY <1>1, <1>4, <3>1 DEF Live, Past
  <2> QED BY <1>1, <2>1 DEF PastAccepted, Accepted
<1> QED BY <1>5, <1>6, <1>7, <1>8

LEMMA WriteFailsKeeps ==
  ASSUME IInv, NEW w \in Writers, WriteFails(w)
  PROVE  IInv'
<1> USE StreamAssumption DEF IInv, chunkVars
<1>1. /\ UNCHANGED <<job, open, calls, permits, client, buf, accepted, received>>
      /\ client = "gone"
  BY DEF WriteFails
<1>2. PICK i \in 1..Len(waiting) : waiting' = RemoveAt(waiting, i)
  BY DEF WriteFails, TypeOK
<1>3. /\ waiting' \in Seq(Writers) /\ Len(waiting) \in Nat /\ Len(waiting') = Len(waiting) - 1
      /\ \A j \in 1..Len(waiting') : waiting'[j] = waiting[IF j < i THEN j ELSE j + 1]
  BY <1>2, RemoveAtProperties DEF TypeOK
<1>4. Blocked' \subseteq Blocked
  <2>1. ASSUME NEW x \in Range(waiting')
        PROVE  x \in Range(waiting)
    <3>1. PICK j \in 1..Len(waiting') : waiting'[j] = x
      BY <1>3, InRange
    <3>2. \E k \in 1..Len(waiting) : waiting[k] = x
      BY <1>3, <3>1
    <3> QED BY <3>2, InRange DEF TypeOK
  <2> QED BY <1>1, <2>1 DEF Blocked
<1>5. TypeOK' /\ Pipe' /\ EndIsEnd' /\ InTurn(accepted)'
  BY <1>1, <1>3 DEF TypeOK, Used, Pipe, EndIsEnd, InTurn
<1>6. OneWrite'
  <2>1. ASSUME NEW j \in 1..Len(waiting'), NEW k \in 1..Len(waiting'), waiting'[j] = waiting'[k]
        PROVE  j = k
    <3> DEFINE old(n) == IF n < i THEN n ELSE n + 1
    <3>1. /\ waiting[old(j)] = waiting[old(k)]
          /\ old(j) \in 1..Len(waiting) /\ old(k) \in 1..Len(waiting)
      BY <1>3, <2>1
    <3>2. old(j) = old(k)
      BY <3>1 DEF OneWrite
    <3> QED BY <1>3, <3>2
  <2>2. ASSUME NEW j \in 1..Len(waiting')
        PROVE  waiting'[j] \notin permits
    BY <1>3 DEF OneWrite
  <2> QED BY <1>1, <1>4, <2>1, <2>2 DEF OneWrite
<1>7. PastAccepted'
  <2>1. ASSUME NEW x \in Writers, Live(x)'
        PROVE  Live(x) /\ Past(x)' = Past(x)
    <3>1. x \in permits /\ x \in Blocked /\ x \in Blocked'
      BY <1>1, <2>1 DEF Live, Blocked
    <3> QED BY <1>1, <3>1 DEF Live, Past
  <2> QED BY <1>1, <2>1 DEF PastAccepted, Accepted
<1> QED BY <1>5, <1>6, <1>7

LEMMA PushKeeps ==
  ASSUME IInv, NEW w \in Writers, Push(w)
  PROVE  IInv'
<1> USE StreamAssumption DEF IInv
<1> DEFINE c == <<w, calls[w]>>
<1>1. /\ UNCHANGED <<job, open, calls, waiting, client, received>>
      /\ w \in permits /\ permits' = permits \ {w}
      /\ accepted' = Append(accepted, c)
      /\ buf' = IF client = "gone" THEN buf ELSE Append(buf, c)
      /\ accepted \in Seq(Chunks) /\ buf \in Seq(Chunks)
  BY DEF Push, TypeOK
<1>2. w \in Blocked /\ calls[w] \in 1..MaxWrites /\ c \in Chunks
  BY <1>1 DEF Blocked, OneWrite, TypeOK, Chunks
<1>3. /\ accepted' \in Seq(Chunks) /\ Len(accepted) \in Nat
      /\ Len(accepted') = Len(accepted) + 1 /\ accepted'[Len(accepted) + 1] = c
      /\ \A i \in 1..Len(accepted) : accepted'[i] = accepted[i]
  BY <1>1, <1>2
<1>4. /\ buf' \in Seq(Chunks) /\ Len(buf) \in Nat
      /\ client # "gone" => /\ Len(buf') = Len(buf) + 1 /\ buf'[Len(buf) + 1] = c
                            /\ \A i \in 1..Len(buf) : buf'[i] = buf[i]
      /\ client = "gone" => buf' = buf
  BY <1>1, <1>2
<1>5. Past(w) = calls[w] - 1 /\ \A n \in 1..MaxWrites : Accepted(<<w, n>>) <=> n <= calls[w] - 1
  BY <1>1, <1>2 DEF Past, Live, PastAccepted
<1> HIDE DEF c
<1>6. TypeOK'
  <2>1. IsFiniteSet(permits) /\ Cardinality(permits) \in Nat
    BY PermitsFinite DEF TypeOK
  <2>2. Cardinality(permits') = Cardinality(permits) - 1
    BY <1>1, <2>1, FS_RemoveElement
  <2>3. Used' <= Cap
    <3>1. Len(buf') <= Len(buf) + 1 /\ Len(buf') \in Nat
      BY <1>4 DEF TypeOK
    <3> QED BY SMTT(60), <1>4, <2>1, <2>2, <3>1 DEF TypeOK, Used
  <2> QED BY <1>1, <1>3, <1>4, <2>3 DEF TypeOK
<1>7. Pipe'
  <2>1. received' = received /\ client' = client /\ Len(received) \in Nat
    BY <1>1 DEF TypeOK
  <2>2. Len(received) <= Len(accepted') /\ \A i \in 1..Len(received) : received[i] = accepted'[i]
    BY <1>3, <2>1 DEF Pipe
  <2>3. ASSUME client # "gone"
        PROVE  /\ Len(accepted') = Len(received) + Len(buf')
               /\ \A i \in 1..Len(buf') : accepted'[Len(received) + i] = buf'[i]
    <3>1. Len(accepted) = Len(received) + Len(buf)
      BY <2>3 DEF Pipe
    <3>2. ASSUME NEW i \in 1..Len(buf')
          PROVE  accepted'[Len(received) + i] = buf'[i]
      <4>1. CASE i = Len(buf) + 1
        <5>1. Len(received) + i = Len(accepted) + 1
          BY <1>3, <1>4, <2>1, <3>1, <4>1
        <5> QED BY <1>3, <1>4, <2>3, <4>1, <5>1
      <4>2. CASE i # Len(buf) + 1
        <5>1. i \in 1..Len(buf) /\ Len(received) + i \in 1..Len(accepted)
          BY <1>3, <1>4, <2>1, <2>3, <3>1, <4>2
        <5> QED BY <1>3, <1>4, <2>3, <5>1 DEF Pipe
      <4> QED BY <4>1, <4>2
    <3>3. Len(accepted') = Len(received) + Len(buf')
      <4>1. Len(buf') = Len(buf) + 1
        BY <1>4, <2>3
      <4>2. Len(accepted') = Len(accepted) + 1
        BY <1>3
      <4> QED BY <1>4, <2>1, <3>1, <4>1, <4>2
    <3> QED BY <3>2, <3>3
  <2> QED BY <2>1, <2>2, <2>3 DEF Pipe
<1>8. EndIsEnd'
  BY <1>1 DEF EndIsEnd
<1>9. Blocked' = Blocked \ {w}
  <2>1. w \notin Range(waiting)
    <3>1. waiting \in Seq(Writers)
      BY DEF TypeOK
    <3>2. \A i \in 1..Len(waiting) : waiting[i] \notin permits
      BY DEF OneWrite
    <3>3. \A i \in 1..Len(waiting) : waiting[i] # w
      BY <1>1, <3>2
    <3> QED BY <3>1, <3>3, InRange
  <2> QED BY <1>1, <2>1 DEF Blocked
<1>10. OneWrite'
  BY <1>1, <1>9 DEF OneWrite
<1>11. InTurn(accepted)'
  <2>1. \A i \in 1..Len(accepted) : accepted[i] # <<w, calls[w]>>
    <3>1. ~Accepted(<<w, calls[w]>>)
      BY <1>2, <1>5
    <3> QED BY <3>1 DEF Accepted
  <2>2. ASSUME calls[w] > 1
        PROVE  \E i \in 1..Len(accepted) : accepted[i] = <<w, calls[w] - 1>>
    <3>1. calls[w] - 1 \in 1..MaxWrites
      BY <1>2, <2>2
    <3>2. Accepted(<<w, calls[w] - 1>>)
      BY <1>5, <3>1
    <3> QED BY <3>2 DEF Accepted
  <2> QED BY <1>1, <1>2, <2>1, <2>2, AppendInTurn DEF c
<1>12. PastAccepted'
  <2>1. \A d : Accepted(d)' <=> (Accepted(d) \/ d = c)
    BY <1>3 DEF Accepted
  <2> SUFFICES ASSUME NEW x \in Writers, Live(x)', NEW n \in 1..MaxWrites
               PROVE  Accepted(<<x, n>>)' <=> n <= Past(x)'
    BY DEF PastAccepted
  <2>2. CASE x = w
    <3>1. Past(x)' = calls[w]
      BY <1>1, <1>9, <2>2 DEF Past
    <3>2. Accepted(<<x, n>>)' <=> (n <= calls[w] - 1 \/ n = calls[w])
      BY <1>5, <2>1, <2>2 DEF c
    <3> QED BY <1>2, <3>1, <3>2
  <2>3. CASE x # w
    <3>1. Live(x) /\ Past(x)' = Past(x)
      BY <1>1, <1>9, <2>3 DEF Live, Past
    <3>2. Accepted(<<x, n>>)' <=> Accepted(<<x, n>>)
      BY <2>1, <2>3 DEF c
    <3> QED BY <3>1, <3>2 DEF PastAccepted
  <2> QED BY <2>2, <2>3
<1> QED BY <1>6, <1>7, <1>8, <1>10, <1>11, <1>12

LEMMA DeliverKeeps ==
  ASSUME IInv, Deliver
  PROVE  IInv'
<1> USE StreamAssumption DEF IInv, writerVars
<1>1. /\ UNCHANGED <<job, open, calls, waiting, permits, client, accepted>>
      /\ client = "reading" /\ buf # <<>>
      /\ received' = Append(received, Head(buf)) /\ buf' = Tail(buf)
      /\ received \in Seq(Chunks) /\ buf \in Seq(Chunks) /\ accepted \in Seq(Chunks)
  BY DEF Deliver, TypeOK
<1>2. /\ Len(buf) \in Nat /\ Len(buf) >= 1 /\ Head(buf) = buf[1] /\ Head(buf) \in Chunks
      /\ buf' \in Seq(Chunks) /\ Len(buf') = Len(buf) - 1
      /\ \A i \in 1..Len(buf') : buf'[i] = buf[i + 1]
  BY <1>1
<1>3. /\ received' \in Seq(Chunks) /\ Len(received) \in Nat
      /\ Len(received') = Len(received) + 1 /\ received'[Len(received) + 1] = buf[1]
      /\ \A i \in 1..Len(received) : received'[i] = received[i]
  BY <1>1, <1>2
<1>4. TypeOK'
  <2>1. Cardinality(permits) \in Nat
    BY PermitsFinite DEF TypeOK
  <2> QED BY <1>1, <1>2, <1>3, <2>1 DEF TypeOK, Used
<1>5. Pipe'
  <2>1. /\ Len(accepted) = Len(received) + Len(buf)
        /\ \A i \in 1..Len(buf) : accepted[Len(received) + i] = buf[i]
    BY <1>1 DEF Pipe
  <2>2. \A i \in 1..Len(received') : received'[i] = accepted[i]
    BY SMTT(60), <1>2, <1>3, <2>1 DEF Pipe
  <2>3. \A i \in 1..Len(buf') : accepted[Len(received') + i] = buf'[i]
    <3> SUFFICES ASSUME NEW i \in 1..Len(buf')
                 PROVE  accepted[Len(received') + i] = buf'[i]
      OBVIOUS
    <3>1. i + 1 \in 1..Len(buf) /\ Len(received') + i = Len(received) + (i + 1)
      BY <1>2, <1>3
    <3> QED BY <1>2, <2>1, <3>1
  <2> QED BY SMTT(60), <1>1, <1>2, <1>3, <2>1, <2>2, <2>3 DEF Pipe
<1>6. EndIsEnd' /\ OneWrite' /\ InTurn(accepted)'
  BY <1>1 DEF EndIsEnd, OneWrite, Blocked, InTurn
<1>7. PastAccepted'
  BY <1>1 DEF PastAccepted, Live, Past, Accepted, Blocked
<1> QED BY <1>4, <1>5, <1>6, <1>7

LEMMA LeaveKeeps ==
  ASSUME IInv, Leave
  PROVE  IInv'
<1> USE StreamAssumption DEF IInv, writerVars
<1>1. /\ UNCHANGED <<job, open, calls, waiting, permits, accepted, received>>
      /\ client' = "gone" /\ client # "gone" /\ buf' = <<>>
  BY DEF Leave
<1>2. TypeOK'
  <2>1. Cardinality(permits) \in Nat /\ Len(buf) \in Nat /\ Len(buf') = 0
    BY <1>1, PermitsFinite DEF TypeOK
  <2> QED BY <1>1, <2>1 DEF TypeOK, Used
<1>3. Pipe' /\ EndIsEnd' /\ OneWrite' /\ InTurn(accepted)'
  <2>1. Pipe' /\ EndIsEnd'
    BY <1>1 DEF Pipe, EndIsEnd
  <2>2. OneWrite' /\ InTurn(accepted)'
    BY <1>1 DEF OneWrite, Blocked, InTurn
  <2> QED BY <2>1, <2>2
<1>4. PastAccepted'
  <2>1. \A x \in Writers : Live(x)' => Live(x) /\ Past(x)' = Past(x)
    BY <1>1 DEF Live, Past, Blocked
  <2> QED BY <1>1, <2>1 DEF PastAccepted, Accepted
<1> QED BY <1>2, <1>3, <1>4

LEMMA StutterKeeps == ASSUME IInv, UNCHANGED vars PROVE IInv'
<1> USE DEF vars, IInv
<1>1. TypeOK' /\ EndIsEnd'
  BY DEF TypeOK, Used, EndIsEnd
<1>2. Pipe' /\ InTurn(accepted)'
  BY DEF Pipe, InTurn
<1>3. OneWrite' /\ PastAccepted'
  BY DEF OneWrite, Blocked, PastAccepted, Live, Past, Accepted
<1> QED BY <1>1, <1>2, <1>3

LEMMA StreamInductive == Spec => []IInv
<1>1. ASSUME IInv, [Next]_vars
      PROVE  IInv'
  BY <1>1, OutsideKeeps, CallWriteKeeps, GetPermitKeeps, WriteFailsKeeps, PushKeeps,
     DeliverKeeps, LeaveKeeps, StutterKeeps DEF Next
<1> QED BY <1>1, InitHolds, PTL DEF Spec

(* The variables stay in their types; above all, the channel never holds   *)
(* more than its capacity, the places promised to writers included.        *)
THEOREM StreamTypeCorrect == Spec => []TypeOK
BY StreamInductive, PTL DEF IInv

(* A client that is told of the end has every chunk whose write returned   *)
(* True, and none can follow.                                              *)
THEOREM NothingAfterEnd == Spec => []EndIsLast
<1>1. IInv => EndIsLast
  <2> SUFFICES ASSUME IInv, client = "ended"
               PROVE  received = accepted
    BY DEF EndIsLast
  <2>1. received \in Seq(Chunks) /\ accepted \in Seq(Chunks) /\ Len(buf) = 0
    BY DEF IInv, TypeOK, EndIsEnd
  <2>2. Len(received) = Len(accepted) /\ \A i \in 1..Len(received) : received[i] = accepted[i]
    BY <2>1 DEF IInv, Pipe
  <2> QED BY <2>1, <2>2, SeqEqual
<1> QED BY <1>1, StreamInductive, PTL

(* The chunks of each thread reach the client in order, once and without a *)
(* gap, up to where the stream was cut.                                    *)
THEOREM ChunksInOrder == Spec => []NoGaps
<1>1. IInv => NoGaps
  BY PrefixInTurn DEF IInv, TypeOK, Pipe, NoGaps
<1> QED BY <1>1, StreamInductive, PTL
=============================================================================
