--------------------------- MODULE ErasureProofs ---------------------------
(***************************************************************************)
(* Module Erasure, for any number of officers, requests, people and        *)
(* faults: tables are up to date before they are queried, the agent never  *)
(* remembers a turn of which the messages are gone, and an erasure or an   *)
(* export that nobody overlaps is complete.                                *)
(***************************************************************************)
EXTENDS Erasure, FiniteSetTheorems, TLAPS

-----------------------------------------------------------------------------
(* The schema.  A table only ever gains columns, so what a process found   *)
(* of it stays true whatever the others do.                                *)
SchemaType ==
  /\ schema \in [Range(Tables) -> {"absent", "old", "full"}]
  /\ ensured \in [Procs -> [Range(Tables) -> {"no", "created", "adding", "yes"}]]

SchemaInv == SchemaType /\ SchemaReady

LEMMA SchemaInit == Init => SchemaInv
<1> SUFFICES ASSUME Init PROVE SchemaInv
  OBVIOUS
<1>1. PICK s \in {"absent", "old"} : schema = [t \in Range(Tables) |-> s]
  BY Zenon DEF Init
<1>2. ensured = [p \in Procs |-> [t \in Range(Tables) |-> "no"]]
  BY Zenon DEF Init
<1> QED BY <1>1, <1>2 DEF SchemaInv, SchemaType, SchemaReady

LEMMA EnsureKeepsSchema ==
  ASSUME SchemaInv, NEW p \in Procs, Ensure(p) \/ Fails(p)
  PROVE  SchemaInv'
<1> DEFINE t == Wants(p)
<1> USE DEF SchemaInv, SchemaType, SchemaReady, Mark, State
<1>1. CASE EnsureCreate(p)
  <2> HIDE DEF Wants
  <2>1. \/ UNCHANGED ensured
        \/ ensured' = [ensured EXCEPT ![p][t] = "created"]
    BY <1>1 DEF EnsureCreate
  <2>2. /\ schema' = [schema EXCEPT ![t] = IF @ = "absent" THEN "full" ELSE @]
    BY <1>1 DEF EnsureCreate
  <2> HIDE DEF t
  <2>3. SchemaType'
    <3>1. schema' \in [Range(Tables) -> {"absent", "old", "full"}]
      BY <2>2
    <3>2. ensured' \in [Procs -> [Range(Tables) -> {"no", "created", "adding", "yes"}]]
      <4>1. [ensured[p] EXCEPT ![t] = "created"] \in
              [Range(Tables) -> {"no", "created", "adding", "yes"}]
        OBVIOUS
      <4> QED BY <2>1, <4>1
    <3> QED BY <3>1, <3>2
  <2>4. \A q \in Procs, u \in Range(Tables) :
          /\ ensured'[q][u] = "yes" => ensured[q][u] = "yes"
          /\ schema[u] = "full" => schema'[u] = "full"
    BY <2>1, <2>2
  <2> QED BY <2>3, <2>4
<1>2. CASE EnsureLook(p)
  BY <1>2 DEF EnsureLook
<1>3. CASE EnsureAdd(p)
  BY <1>3, SMTT(30) DEF EnsureAdd
<1>4. CASE Fails(p)
  BY <1>4 DEF Fails
<1> QED BY <1>1, <1>2, <1>3, <1>4 DEF Ensure

LEMMA SchemaInductive == SchemaInv /\ [Next]_vars => SchemaInv'
<1> SUFFICES ASSUME SchemaInv, [Next]_vars PROVE SchemaInv'
  OBVIOUS
<1> DEFINE Same == UNCHANGED <<schema, ensured>>
<1>1. Same => SchemaInv'
  BY DEF SchemaInv, SchemaType, SchemaReady
<1>2. ASSUME NEW p \in Procs, Ensure(p) \/ Fails(p)
      PROVE  SchemaInv'
  BY <1>2, EnsureKeepsSchema
<1>3. ASSUME NEW f \in Officers, Officer(f)
      PROVE  SchemaInv'
  <2>1. CASE Begin(f)
    BY <2>1 DEF Begin, SchemaInv, SchemaType, SchemaReady, Procs
  <2>2. CASE Count(f) \/ Erase(f) \/ Find(f)
    BY <2>2, <1>1 DEF Count, Erase, Find, dbVars
  <2> QED BY <1>3, <2>1, <2>2 DEF Officer
<1>4. ASSUME NEW h \in Handlers, Arrive(h) \/ Handler(h)
      PROVE  SchemaInv'
  <2>1. Same
    BY <1>4 DEF Arrive, Handler, CreateConversation, LoadConversation, RunAgent,
       StoreQuestion, StoreAnswer, Say, SaveMemory, dbVars
  <2> QED BY <2>1, <1>1
<1>5. CASE UNCHANGED vars
  BY <1>5, <1>1 DEF vars, dbVars
<1> QED BY <1>2, <1>3, <1>4, <1>5 DEF Next

(* A process that has marked a table as ensured only queries one that has  *)
(* every column (_ensure in datamodel.py), whichever process added them.   *)
THEOREM EnsuredIsReady == Spec => []SchemaReady
<1>1. SchemaInv => SchemaReady
  BY DEF SchemaInv
<1> QED BY SchemaInit, SchemaInductive, <1>1, PTL DEF Spec

-----------------------------------------------------------------------------
(* The agent's memory.  A row of a conversation may be old: a handler has  *)
(* read it and will write it back whole.  So what MemoryBacked says of the *)
(* rows must hold of the copies in the handlers too, all through a turn,   *)
(* and no message may go, which is what anonymizing them is for.           *)
MessagesStay == OnForget["chat_messages"] = "anonymize"

Roles == {"", "user", "assistant"}
Texts == {"title", "said", Redacted}
Steps == {"idle", "count", "erase", "find", "insert", "get", "agent", "question",
          "answer", "save", "done", "failed"}

Rows == [conv : Nat, user : Users, role : Roles, text : Texts,
         turns : Seq(Handlers \union {"before"})]

MemoryType ==
  /\ db \in [Range(Tables) -> SUBSET Rows]
  /\ lastId \in Nat
  /\ request \in Requests
  /\ pc \in [Procs -> Steps]
  /\ conv \in [Handlers -> Rows]

(* In the tables d, a message of turn n in conversation k; a conversation  *)
(* all of whose turns have both messages; and tables e that have every     *)
(* message of d, redacted or not.                                          *)
Message(d, k, role, n) ==
  \E m \in d["chat_messages"] : m.conv = k /\ m.role = role /\ m.turns = <<n>>

Backed(d, r) ==
  \A n \in DOMAIN r.turns : \A role \in {"user", "assistant"} :
    Message(d, r.conv, role, r.turns[n])

Kept(d, e) ==
  \A m \in d["chat_messages"] : \E o \in e["chat_messages"] :
    o.conv = m.conv /\ o.role = m.role /\ o.turns = m.turns

InTurn == {"agent", "question", "answer", "save"}

CopiesBacked ==
  \A h \in Handlers :
    /\ pc[h] \in InTurn => Backed(db, conv[h])
    /\ pc[h] \in {"answer", "save"} => Message(db, conv[h].conv, "user", h)
    /\ pc[h] = "save" => Message(db, conv[h].conv, "assistant", h)

(* The inductive invariant.                                                *)
MemoryInv == MemoryType /\ MemoryBacked /\ CopiesBacked

LEMMA TablesOfRag ==
  /\ "conversations" \in Range(Tables)
  /\ "chat_messages" \in Range(Tables)
BY ErasureAssumption

LEMMA RowType ==
  ASSUME NEW k \in Nat, NEW u \in Users, NEW role \in Roles, NEW text \in Texts,
         NEW turns \in Seq(Handlers \union {"before"})
  PROVE  /\ Row(k, u, role, text, turns) \in Rows
         /\ Row(k, u, role, text, turns).conv = k
         /\ Row(k, u, role, text, turns).user = u
         /\ Row(k, u, role, text, turns).role = role
         /\ Row(k, u, role, text, turns).turns = turns
BY DEF Row, Rows

LEMMA KeptBacked ==
  ASSUME NEW d, NEW e, Kept(d, e)
  PROVE  /\ \A k, role, n : Message(d, k, role, n) => Message(e, k, role, n)
         /\ \A r : Backed(d, r) => Backed(e, r)
<1>1. \A k, role, n : Message(d, k, role, n) => Message(e, k, role, n)
  BY DEF Kept, Message
<1> QED BY <1>1 DEF Backed

LEMMA MemoryIs ==
  /\ MemoryBacked <=> \A r \in db["conversations"] : Backed(db, r)
  /\ MemoryBacked' <=> \A r \in db'["conversations"] : Backed(db', r)
BY DEF MemoryBacked, Backed, Message

LEMMA CopiesAre ==
  ASSUME \A h \in Handlers :
           /\ pc'[h] \in InTurn => Backed(db', conv'[h])
           /\ pc'[h] \in {"answer", "save"} => Message(db', conv'[h].conv, "user", h)
           /\ pc'[h] = "save" => Message(db', conv'[h].conv, "assistant", h)
  PROVE  CopiesBacked'
BY DEF CopiesBacked, Backed, Message, InTurn

(* The persons in a sequence, as Init numbers their conversations.         *)
LEMMA PersonsInOrder ==
  /\ Cardinality(Users) \in Nat
  /\ SetToSeq(Users) \in [1..Cardinality(Users) -> Users]
<1>1. Cardinality(Users) \in Nat /\ ExistsBijection(1..Cardinality(Users), Users)
  BY FS_CardinalityType, ErasureAssumption
<1>2. \E f \in [1..Cardinality(Users) -> Users] : IsInjective(f)
  BY <1>1 DEF ExistsBijection, Bijection, Injection
<1> QED BY <1>1, <1>2 DEF SetToSeq

LEMMA MemoryInit == Init => MemoryInv
<1> SUFFICES ASSUME Init PROVE MemoryInv
  OBVIOUS
<1> DEFINE id   == SetToSeq(Users)
           past == [n \in DOMAIN id |-> Past(n, id[n])]
           said == UNION {Said(n, id[n]) : n \in DOMAIN id}
<1>1. /\ pc = [p \in Procs |-> "idle"]
      /\ conv = [h \in Handlers |-> NoConv]
      /\ request \in Requests
  BY Zenon DEF Init
<1>2. \/ db = [t \in Range(Tables) |-> {}] /\ lastId = 0
      \/ /\ db = [t \in Range(Tables) |->
                    IF t = "conversations" THEN Range(past) ELSE said]
         /\ lastId = Len(id)
  BY Zenon DEF Init
<1>3. id \in Seq(Users) /\ \A n \in DOMAIN id : n \in Nat /\ id[n] \in Users
  BY PersonsInOrder
<1>4. <<"before">> \in Seq(Handlers \union {"before"})
  OBVIOUS
<1>5. \A n \in DOMAIN id : Past(n, id[n]) \in Rows /\ Said(n, id[n]) \subseteq Rows
  <2> SUFFICES ASSUME NEW n \in DOMAIN id
               PROVE  Past(n, id[n]) \in Rows /\ Said(n, id[n]) \subseteq Rows
    OBVIOUS
  <2>1. n \in Nat /\ id[n] \in Users
    BY <1>3
  <2> HIDE DEF id
  <2>2. Past(n, id[n]) \in Rows
    BY <2>1, <1>4, RowType DEF Past, Roles, Texts
  <2>3. ASSUME NEW role \in {"user", "assistant"}
        PROVE  Row(n, id[n], role, "said", <<"before">>) \in Rows
    <3>1. role \in Roles /\ "said" \in Texts
      BY DEF Roles, Texts
    <3> QED BY <3>1, <2>1, <1>4, RowType
  <2> QED BY <2>2, <2>3 DEF Said
<1>6. Range(past) \subseteq Rows /\ said \subseteq Rows
  BY <1>5 DEF Range
<1>7. db \in [Range(Tables) -> SUBSET Rows] /\ lastId \in Nat
  <2>1. Len(id) \in Nat
    BY <1>3
  <2> HIDE DEF past, said, id
  <2> QED BY <1>2, <1>6, <2>1
<1>8. NoConv \in Rows
  <2>1. <<>> \in Seq(Handlers \union {"before"}) /\ 0 \in Nat
    OBVIOUS
  <2>2. "" \in Roles /\ Redacted \in Texts
    BY DEF Roles, Texts
  <2> QED BY <2>1, <2>2, RowType, ErasureAssumption DEF NoConv
<1>9. MemoryType
  BY <1>1, <1>7, <1>8 DEF MemoryType, Steps
<1>10. CopiesBacked
  BY <1>1 DEF CopiesBacked, InTurn, Procs
<1>11. ASSUME NEW r \in db["conversations"]
       PROVE  Backed(db, r)
  <2>1. db["conversations"] = Range(past) /\ db["chat_messages"] = said
    BY <1>2, <1>11, TablesOfRag
  <2>2. PICK n \in DOMAIN id : r = Past(n, id[n])
    BY <2>1, <1>11 DEF Range
  <2>3. r.conv = n /\ r.turns = <<"before">>
    BY <2>2 DEF Past, Row
  <2>4. ASSUME NEW role \in {"user", "assistant"}
        PROVE  Message(db, n, role, "before")
    <3>1. Row(n, id[n], role, "said", <<"before">>) \in said
      BY DEF Said
    <3> QED BY <3>1, <2>1 DEF Message, Row
  <2> QED BY <2>3, <2>4 DEF Backed
<1> QED BY <1>9, <1>10, <1>11, MemoryIs DEF MemoryInv

(* A step that keeps the messages and the copies, starts no turn and       *)
(* leaves in the conversations only turns that were there.                 *)
LEMMA Aside ==
  ASSUME MemoryInv, Kept(db, db'), UNCHANGED conv,
         \A h \in Handlers : pc'[h] \in InTurn => pc'[h] = pc[h],
         \A r \in db'["conversations"] :
           \/ r.turns = <<>>
           \/ \E q \in db["conversations"] : r.conv = q.conv /\ r.turns = q.turns
  PROVE  MemoryBacked' /\ CopiesBacked'
<1>1. ASSUME NEW r \in db'["conversations"]
      PROVE  Backed(db', r)
  <2>1. CASE r.turns = <<>>
    BY <2>1 DEF Backed
  <2>2. ASSUME NEW q \in db["conversations"], r.conv = q.conv, r.turns = q.turns
        PROVE  Backed(db', r)
    <3>1. Backed(db', q)
      BY KeptBacked, MemoryIs DEF MemoryInv
    <3> QED BY <2>2, <3>1 DEF Backed
  <2> QED BY <2>1, <2>2
<1>2. MemoryBacked'
  BY <1>1, MemoryIs
<1>3. ASSUME NEW h \in Handlers
      PROVE  /\ pc'[h] \in InTurn => Backed(db', conv'[h])
             /\ pc'[h] \in {"answer", "save"} => Message(db', conv'[h].conv, "user", h)
             /\ pc'[h] = "save" => Message(db', conv'[h].conv, "assistant", h)
  BY KeptBacked DEF MemoryInv, CopiesBacked, InTurn
<1>4. CopiesBacked'
  BY <1>3, CopiesAre
<1> QED BY <1>2, <1>4

(* Steps that change neither rows nor copies.                              *)
LEMMA Elsewhere ==
  ASSUME MemoryInv, MemoryType', UNCHANGED <<db, conv>>,
         \A h \in Handlers : pc'[h] \in InTurn => pc'[h] = pc[h]
  PROVE  MemoryInv'
<1>1. Kept(db, db')
  BY DEF Kept
<1> QED BY <1>1, Aside DEF MemoryInv

-----------------------------------------------------------------------------
(* The steps, first those that change no row.                              *)
LEMMA GotoType ==
  ASSUME MemoryType, NEW p, NEW step \in Steps, Goto(p, step)
  PROVE  /\ pc' \in [Procs -> Steps]
         /\ \A q \in Procs : pc'[q] = IF q = p THEN step ELSE pc[q]
BY DEF MemoryType, Goto

LEMMA EndsType ==
  ASSUME MemoryType, NEW p \in Procs, NEW step \in Steps, Ends(p, step)
  PROVE  /\ pc' \in [Procs -> Steps]
         /\ pc'[p] \in {step, "failed"} /\ \A q \in Procs \ {p} : pc'[q] = pc[q]
<1>1. PICK s \in {step, "failed"} : Goto(p, s)
  BY DEF Ends, Raises
<1>2. s \in Steps
  BY DEF Steps
<1> QED BY <1>1, <1>2, GotoType

LEMMA EnsureKeeps ==
  ASSUME MemoryInv, NEW p \in Procs, Ensure(p) \/ Fails(p)
  PROVE  MemoryInv'
<1>1. UNCHANGED <<db, lastId, request, conv>>
  BY DEF Ensure, EnsureCreate, EnsureLook, EnsureAdd, Fails
<1>2. UNCHANGED pc \/ Goto(p, "failed")
  BY DEF Ensure, EnsureCreate, EnsureLook, EnsureAdd, Fails, Raises
<1>3. "failed" \in Steps
  BY DEF Steps
<1>4. /\ pc' \in [Procs -> Steps]
      /\ \A q \in Procs : pc'[q] \in {pc[q], "failed"}
  BY <1>2, <1>3, GotoType DEF MemoryInv, MemoryType
<1>5. MemoryType'
  BY <1>1, <1>4 DEF MemoryInv, MemoryType
<1> QED BY <1>1, <1>4, <1>5, Elsewhere DEF InTurn, Procs

LEMMA OfficerLooks ==
  ASSUME MemoryInv, NEW f \in Officers, Begin(f) \/ Count(f) \/ Find(f)
  PROVE  MemoryInv'
<1>1. UNCHANGED <<db, lastId, request, conv>>
  BY DEF Begin, Count, Find, dbVars
<1>2. \E step \in {"find", "count", "erase", "done"} : Goto(f, step)
  BY DEF Begin, Count, Find, NextTable
<1>3. PICK step \in {"find", "count", "erase", "done"} : Goto(f, step)
  BY <1>2
<1>4. step \in Steps /\ step \notin InTurn
  BY DEF Steps, InTurn
<1>5. /\ pc' \in [Procs -> Steps]
      /\ \A q \in Procs : pc'[q] \in {pc[q], step}
  BY <1>3, <1>4, GotoType DEF MemoryInv
<1>6. MemoryType'
  BY <1>1, <1>5 DEF MemoryInv, MemoryType
<1> QED BY <1>1, <1>4, <1>5, <1>6, Elsewhere DEF Procs

LEMMA HandlerWaits ==
  ASSUME MemoryInv, NEW h \in Handlers, Arrive(h)
  PROVE  MemoryInv'
<1>1. UNCHANGED <<db, lastId, request, conv>>
  BY DEF Arrive, dbVars
<1>2. PICK step \in {"insert", "get"} : Goto(h, step)
  BY DEF Arrive
<1>3. step \in Steps /\ step \notin InTurn
  BY DEF Steps, InTurn
<1>4. /\ pc' \in [Procs -> Steps]
      /\ \A q \in Procs : pc'[q] \in {pc[q], step}
  BY <1>2, <1>3, GotoType DEF MemoryInv
<1>5. MemoryType'
  BY <1>1, <1>4 DEF MemoryInv, MemoryType
<1> QED BY <1>1, <1>3, <1>4, <1>5, Elsewhere DEF Procs

LEMMA LoadKeeps ==
  ASSUME MemoryInv, NEW h \in Handlers, LoadConversation(h)
  PROVE  MemoryInv'
<1>0. UNCHANGED <<db, lastId, request>>
  BY DEF LoadConversation, dbVars
<1>1. CASE Goto(h, "failed") /\ UNCHANGED conv
  <2>1. /\ pc' \in [Procs -> Steps]
        /\ \A q \in Procs : pc'[q] \in {pc[q], "failed"}
    BY <1>1, GotoType DEF MemoryInv, Steps
  <2>2. MemoryType'
    BY <1>0, <1>1, <2>1 DEF MemoryInv, MemoryType
  <2> QED BY <1>0, <1>1, <2>1, <2>2, Elsewhere DEF Procs, InTurn
<1>2. ASSUME NEW r \in db["conversations"],
             conv' = [conv EXCEPT ![h] = r], Goto(h, "agent")
      PROVE  MemoryInv'
  <2>1. /\ pc' \in [Procs -> Steps]
        /\ \A q \in Procs : pc'[q] = IF q = h THEN "agent" ELSE pc[q]
    BY <1>2, GotoType DEF MemoryInv, Steps
  <2>2. r \in Rows /\ Backed(db, r)
    BY MemoryIs, TablesOfRag DEF MemoryInv, MemoryType
  <2>3. \A g \in Handlers : conv'[g] = IF g = h THEN r ELSE conv[g]
    BY <1>2 DEF MemoryInv, MemoryType
  <2>4. MemoryType'
    BY <1>0, <1>2, <2>1, <2>2 DEF MemoryInv, MemoryType
  <2>5. MemoryBacked'
    BY <1>0, MemoryIs DEF MemoryInv
  <2>6. ASSUME NEW g \in Handlers
        PROVE  /\ pc'[g] \in InTurn => Backed(db', conv'[g])
               /\ pc'[g] \in {"answer", "save"} => Message(db', conv'[g].conv, "user", g)
               /\ pc'[g] = "save" => Message(db', conv'[g].conv, "assistant", g)
    BY <1>0, <2>1, <2>2, <2>3 DEF MemoryInv, CopiesBacked, Procs
  <2>7. CopiesBacked'
    BY <2>6, CopiesAre
  <2> QED BY <2>4, <2>5, <2>7 DEF MemoryInv
<1> QED BY <1>1, <1>2 DEF LoadConversation

LEMMA RunAgentKeeps ==
  ASSUME MemoryInv, NEW h \in Handlers, RunAgent(h)
  PROVE  MemoryInv'
<1>1. UNCHANGED <<db, lastId, request, conv>>
  BY DEF RunAgent, dbVars
<1>2. PICK step \in {"question", "failed"} : Goto(h, step)
  BY DEF RunAgent
<1>3. /\ pc' \in [Procs -> Steps]
      /\ \A q \in Procs : pc'[q] = IF q = h THEN step ELSE pc[q]
  BY <1>2, GotoType DEF MemoryInv, Steps
<1>4. pc[h] = "agent"
  BY DEF RunAgent
<1>5. MemoryType'
  BY <1>1, <1>3 DEF MemoryInv, MemoryType
<1>6. MemoryBacked'
  BY <1>1, MemoryIs DEF MemoryInv
<1>7. ASSUME NEW g \in Handlers
      PROVE  /\ pc'[g] \in InTurn => Backed(db', conv'[g])
             /\ pc'[g] \in {"answer", "save"} => Message(db', conv'[g].conv, "user", g)
             /\ pc'[g] = "save" => Message(db', conv'[g].conv, "assistant", g)
  BY <1>1, <1>3, <1>4 DEF MemoryInv, CopiesBacked, InTurn, Procs
<1>8. CopiesBacked'
  BY <1>7, CopiesAre
<1> QED BY <1>5, <1>6, <1>8 DEF MemoryInv

-----------------------------------------------------------------------------
(* The steps that change rows.                                             *)
LEMMA RedactedRow ==
  ASSUME NEW r \in Rows
  PROVE  /\ [r EXCEPT !.text = Redacted] \in Rows
         /\ [r EXCEPT !.text = Redacted].conv = r.conv
         /\ [r EXCEPT !.text = Redacted].user = r.user
         /\ [r EXCEPT !.text = Redacted].text = Redacted
         /\ [r EXCEPT !.text = Redacted].role = r.role
         /\ [r EXCEPT !.text = Redacted].turns = r.turns
BY DEF Rows, Texts

LEMMA EraseShape ==
  ASSUME MemoryType, NEW f \in Officers, Erase(f)
  PROVE  /\ MemoryType' /\ UNCHANGED <<lastId, request, conv>>
         /\ \A p \in Procs : pc'[p] \in {pc[p], "count", "done", "failed"}
         /\ \A t \in Range(Tables) : t # Wants(f) => db'[t] = db[t]
         /\ Wants(f) \in Range(Tables) =>
              LET t == Wants(f)
                  left == db[t] \ Of(t, Subject)
                  redacted == {[r EXCEPT !.text = Redacted] : r \in Of(t, Subject)}
              IN  db'[t] = IF OnForget[t] = "anonymize" THEN left \union redacted
                                                        ELSE left
<1> DEFINE t == Wants(f)
           left == db[t] \ Of(t, Subject)
           redacted == {[r EXCEPT !.text = Redacted] : r \in Of(t, Subject)}
<1>1. UNCHANGED <<lastId, request, conv>>
  BY DEF Erase
<1>2. PICK step \in {"count", "done", "failed"} : Goto(f, step)
  BY DEF Erase, NextTable, Raises
<1>3. /\ pc' \in [Procs -> Steps]
      /\ \A p \in Procs : pc'[p] \in {pc[p], "count", "done", "failed"}
  BY <1>2, GotoType DEF Steps
<1>4. \/ OnForget[t] = "anonymize" /\ db' = [db EXCEPT ![t] = left \union redacted]
      \/ OnForget[t] # "anonymize" /\ db' = [db EXCEPT ![t] = left]
  BY DEF Erase, Anonymize, DeleteWhere
<1>5. db \in [Range(Tables) -> SUBSET Rows]
  BY DEF MemoryType
<1>6. CASE t \notin Range(Tables)
  <2>1. db' = db
    BY <1>4, <1>5, <1>6
  <2> QED BY <1>1, <1>3, <1>6, <2>1 DEF MemoryType
<1>7. CASE t \in Range(Tables)
  <2>1. left \subseteq Rows /\ redacted \subseteq Rows
    BY <1>5, <1>7, RedactedRow DEF Of
  <2>2. /\ db' \in [Range(Tables) -> SUBSET Rows]
        /\ db'[t] = IF OnForget[t] = "anonymize" THEN left \union redacted ELSE left
        /\ \A s \in Range(Tables) : s # t => db'[s] = db[s]
    <3> HIDE DEF t, left, redacted
    <3> QED BY <1>4, <1>5, <1>7, <2>1
  <2> QED BY <1>1, <1>3, <2>2 DEF MemoryType
<1> QED BY <1>6, <1>7

LEMMA EraseKeeps ==
  ASSUME MemoryInv, MessagesStay, NEW f \in Officers, Erase(f)
  PROVE  MemoryInv'
<1> DEFINE t == Wants(f)
           left == db[t] \ Of(t, Subject)
           redacted == {[r EXCEPT !.text = Redacted] : r \in Of(t, Subject)}
<1>1. /\ MemoryType' /\ UNCHANGED conv
      /\ \A p \in Procs : pc'[p] \in {pc[p], "count", "done", "failed"}
      /\ \A s \in Range(Tables) : s # t => db'[s] = db[s]
      /\ t \in Range(Tables) =>
           db'[t] = IF OnForget[t] = "anonymize" THEN left \union redacted ELSE left
  BY EraseShape DEF MemoryInv
<1>2. \A g \in Handlers : pc'[g] \in InTurn => pc'[g] = pc[g]
  BY <1>1 DEF Procs, InTurn
<1>3. t \in Range(Tables) => Of(t, Subject) \subseteq Rows
  BY DEF Of, MemoryInv, MemoryType
<1>4. ASSUME NEW m \in db["chat_messages"]
      PROVE  \E o \in db'["chat_messages"] :
               o.conv = m.conv /\ o.role = m.role /\ o.turns = m.turns
  <2>1. CASE t # "chat_messages"
    BY <2>1, <1>1, TablesOfRag
  <2>2. CASE t = "chat_messages" /\ m \notin Of(t, Subject)
    BY <2>2, <1>1, TablesOfRag DEF MessagesStay
  <2>3. CASE t = "chat_messages" /\ m \in Of(t, Subject)
    <3>1. [m EXCEPT !.text = Redacted] \in db'["chat_messages"]
      BY <2>3, <1>1, TablesOfRag DEF MessagesStay
    <3> QED BY <2>3, <3>1, <1>3, RedactedRow, TablesOfRag
  <2> QED BY <2>1, <2>2, <2>3
<1>5. ASSUME NEW r \in db'["conversations"]
      PROVE  \E q \in db["conversations"] : r.conv = q.conv /\ r.turns = q.turns
  <2>1. CASE t # "conversations" \/ r \in left
    BY <2>1, <1>1, TablesOfRag
  <2>2. CASE t = "conversations" /\ r \in redacted
    <3>1. PICK q \in Of(t, Subject) : r = [q EXCEPT !.text = Redacted]
      BY <2>2
    <3> QED BY <2>2, <3>1, <1>3, RedactedRow, TablesOfRag DEF Of
  <2> QED BY <2>1, <2>2, <1>1, TablesOfRag
<1> QED BY <1>1, <1>2, <1>4, <1>5, Aside DEF Kept, MemoryInv

LEMMA CreateShape ==
  ASSUME MemoryType, NEW h \in Handlers, CreateConversation(h)
  PROVE  /\ MemoryType' /\ UNCHANGED <<request, conv>> /\ lastId' = lastId + 1
         /\ pc[h] = "insert"
         /\ pc'[h] \in {"done", "failed"} /\ \A p \in Procs \ {h} : pc'[p] = pc[p]
         /\ db'["chat_messages"] = db["chat_messages"]
         /\ \E new \in Rows :
              /\ new.conv = lastId + 1 /\ new.user = request[h].user /\ new.turns = <<>>
              /\ db'["conversations"] = db["conversations"] \union {new}
<1> DEFINE new == Row(lastId + 1, request[h].user, "", "title", <<>>)
<1>1. /\ UNCHANGED <<request, conv>>
      /\ lastId' = lastId + 1
      /\ db' = [db EXCEPT !["conversations"] = @ \union {new}]
      /\ pc[h] = "insert" /\ Ends(h, "done")
  BY DEF CreateConversation, Insert, Call
<1>2. /\ pc' \in [Procs -> Steps]
      /\ pc'[h] \in {"done", "failed"} /\ \A q \in Procs \ {h} : pc'[q] = pc[q]
  BY <1>1, EndsType DEF Steps, Procs
<1>3. request[h].user \in Users /\ lastId \in Nat /\ lastId + 1 \in Nat
  BY ErasureAssumption DEF MemoryType
<1>4. /\ new \in Rows /\ new.turns = <<>>
      /\ new.conv = lastId + 1 /\ new.user = request[h].user
  <2>1. <<>> \in Seq(Handlers \union {"before"}) /\ "" \in Roles /\ "title" \in Texts
    BY DEF Roles, Texts
  <2>2. ASSUME NEW k \in Nat, NEW u \in Users
        PROVE  LET r == Row(k, u, "", "title", <<>>)
               IN  r \in Rows /\ r.conv = k /\ r.user = u /\ r.turns = <<>>
    BY <2>1 DEF Row, Rows
  <2> QED BY <1>3, <2>2
<1>5. /\ db' \in [Range(Tables) -> SUBSET Rows]
      /\ db'["conversations"] = db["conversations"] \union {new}
      /\ db'["chat_messages"] = db["chat_messages"]
  <2> HIDE DEF new
  <2> QED BY <1>1, <1>4, TablesOfRag DEF MemoryType
<1>6. MemoryType'
  BY <1>1, <1>2, <1>3, <1>5 DEF MemoryType
<1> HIDE DEF new
<1> QED BY <1>1, <1>2, <1>4, <1>5, <1>6

LEMMA CreateKeeps ==
  ASSUME MemoryInv, NEW h \in Handlers, CreateConversation(h)
  PROVE  MemoryInv'
<1>1. PICK new \in Rows :
        /\ MemoryType' /\ UNCHANGED conv
        /\ pc'[h] \in {"done", "failed"} /\ \A p \in Procs \ {h} : pc'[p] = pc[p]
        /\ db'["chat_messages"] = db["chat_messages"]
        /\ db'["conversations"] = db["conversations"] \union {new}
        /\ new.turns = <<>>
  BY CreateShape DEF MemoryInv
<1>2. Kept(db, db')
  BY <1>1 DEF Kept
<1>3. \A r \in db'["conversations"] :
        \/ r.turns = <<>>
        \/ \E q \in db["conversations"] : r.conv = q.conv /\ r.turns = q.turns
  BY <1>1
<1>4. \A g \in Handlers : pc'[g] \in InTurn => pc'[g] = pc[g]
  BY <1>1 DEF InTurn, Procs
<1> QED BY <1>1, <1>2, <1>3, <1>4, Aside DEF MemoryInv

(* The two messages of a turn, one after the other.                        *)
LEMMA SayShape ==
  ASSUME MemoryType, NEW h \in Handlers, StoreQuestion(h) \/ StoreAnswer(h)
  PROVE  /\ MemoryType' /\ UNCHANGED <<lastId, request, conv>>
         /\ db'["conversations"] = db["conversations"]
         /\ \E role \in {"user", "assistant"} :
              /\ pc[h] = IF role = "user" THEN "question" ELSE "answer"
              /\ pc'[h] \in {IF role = "user" THEN "answer" ELSE "save", "failed"}
              /\ \A p \in Procs \ {h} : pc'[p] = pc[p]
              /\ \E new \in Rows :
                   /\ new.conv = conv[h].conv /\ new.role = role /\ new.turns = <<h>>
                   /\ new.user = request[h].user
                   /\ db'["chat_messages"] = db["chat_messages"] \union {new}
<1>1. PICK role \in {"user", "assistant"} :
        /\ role = "user" => pc[h] = "question" /\ Ends(h, "answer")
        /\ role = "assistant" => pc[h] = "answer" /\ Ends(h, "save")
        /\ Insert("chat_messages",
                  Row(conv[h].conv, request[h].user, role, "said", <<h>>))
        /\ UNCHANGED <<lastId, request, conv>>
  BY DEF StoreQuestion, StoreAnswer, Say, Call
<1> DEFINE new == Row(conv[h].conv, request[h].user, role, "said", <<h>>)
           then == IF role = "user" THEN "answer" ELSE "save"
<1>2. /\ pc' \in [Procs -> Steps]
      /\ pc'[h] \in {then, "failed"} /\ \A q \in Procs \ {h} : pc'[q] = pc[q]
  <2>1. then \in Steps /\ Ends(h, then)
    BY <1>1 DEF Steps
  <2> HIDE DEF then
  <2> QED BY <2>1, EndsType DEF Procs
<1>3. /\ new \in Rows /\ new.user = request[h].user
      /\ new.conv = conv[h].conv /\ new.role = role /\ new.turns = <<h>>
  <2>1. conv[h].conv \in Nat /\ request[h].user \in Users
    BY ErasureAssumption DEF MemoryType, Rows
  <2>2. <<h>> \in Seq(Handlers \union {"before"})
    OBVIOUS
  <2>3. role \in Roles /\ "said" \in Texts
    BY DEF Roles, Texts
  <2>4. ASSUME NEW k \in Nat, NEW u \in Users
        PROVE  LET r == Row(k, u, role, "said", <<h>>)
               IN  /\ r \in Rows /\ r.conv = k /\ r.user = u
                   /\ r.role = role /\ r.turns = <<h>>
    BY <2>2, <2>3 DEF Row, Rows
  <2> QED BY <2>1, <2>4
<1>4. /\ db' \in [Range(Tables) -> SUBSET Rows]
      /\ db'["conversations"] = db["conversations"]
      /\ db'["chat_messages"] = db["chat_messages"] \union {new}
  <2>1. db' = [db EXCEPT !["chat_messages"] = @ \union {new}]
    BY <1>1 DEF Insert
  <2> HIDE DEF new
  <2> QED BY <1>3, <2>1, TablesOfRag DEF MemoryType
<1>5. MemoryType'
  BY <1>1, <1>2, <1>4 DEF MemoryType
<1>6. pc[h] = IF role = "user" THEN "question" ELSE "answer"
  BY <1>1
<1>7. /\ pc'[h] \in {IF role = "user" THEN "answer" ELSE "save", "failed"}
      /\ \A p \in Procs \ {h} : pc'[p] = pc[p]
  BY <1>2
<1> HIDE DEF new
<1> QED BY <1>1, <1>3, <1>4, <1>5, <1>6, <1>7

LEMMA SayKeeps ==
  ASSUME MemoryInv, NEW h \in Handlers, StoreQuestion(h) \/ StoreAnswer(h)
  PROVE  MemoryInv'
<1>a. MemoryType
  BY DEF MemoryInv
<1>0. /\ MemoryType' /\ UNCHANGED conv
      /\ db'["conversations"] = db["conversations"]
  BY <1>a, SayShape
<1>1. PICK role \in {"user", "assistant"} :
        /\ pc[h] = IF role = "user" THEN "question" ELSE "answer"
        /\ pc'[h] \in {IF role = "user" THEN "answer" ELSE "save", "failed"}
        /\ \A p \in Procs \ {h} : pc'[p] = pc[p]
        /\ \E new \in Rows :
             /\ new.conv = conv[h].conv /\ new.role = role /\ new.turns = <<h>>
             /\ new.user = request[h].user
             /\ db'["chat_messages"] = db["chat_messages"] \union {new}
  BY <1>a, SayShape, Zenon
<1>2. PICK new \in Rows :
        /\ new.conv = conv[h].conv /\ new.role = role /\ new.turns = <<h>>
        /\ db'["chat_messages"] = db["chat_messages"] \union {new}
  BY <1>1
<1>3. Kept(db, db') /\ Message(db', conv[h].conv, role, h)
  BY <1>2 DEF Kept, Message
<1>4. MemoryBacked'
  BY <1>0, <1>3, KeptBacked, MemoryIs DEF MemoryInv
<1>5. ASSUME NEW g \in Handlers
      PROVE  /\ pc'[g] \in InTurn => Backed(db', conv'[g])
             /\ pc'[g] \in {"answer", "save"} => Message(db', conv'[g].conv, "user", g)
             /\ pc'[g] = "save" => Message(db', conv'[g].conv, "assistant", g)
  <2>1. CASE g # h
    BY <2>1, <1>0, <1>1, <1>3, KeptBacked DEF MemoryInv, CopiesBacked, Procs
  <2>2. CASE g = h /\ role = "user"
    BY <2>2, <1>0, <1>1, <1>3, KeptBacked DEF MemoryInv, CopiesBacked, InTurn, Procs
  <2>3. CASE g = h /\ role = "assistant"
    BY <2>3, <1>0, <1>1, <1>3, KeptBacked DEF MemoryInv, CopiesBacked, InTurn, Procs
  <2> QED BY <2>1, <2>2, <2>3
<1> QED BY <1>0, <1>4, <1>5, CopiesAre DEF MemoryInv

(* The end of a turn: the row is written whole, with the turn added to     *)
(* what the handler read at its beginning, if there is a row.              *)
LEMMA SaveShape ==
  ASSUME MemoryType, NEW h \in Handlers, SaveMemory(h)
  PROVE  /\ MemoryType' /\ UNCHANGED <<lastId, request, conv>>
         /\ pc[h] = "save"
         /\ pc'[h] \in {"done", "failed"} /\ \A p \in Procs \ {h} : pc'[p] = pc[p]
         /\ db'["chat_messages"] = db["chat_messages"]
         /\ \E new \in Rows :
              /\ new.conv = conv[h].conv /\ new.user = conv[h].user
              /\ new.turns = Append(conv[h].turns, h)
              /\ conv[h].turns \in Seq(Handlers \union {"before"})
              /\ db'["conversations"] = (db["conversations"] \ ById(conv[h].conv))
                    \union (IF ById(conv[h].conv) = {} THEN {} ELSE {new})
<1> DEFINE c   == conv[h]
           new == [conv[h] EXCEPT !.turns = Append(@, h)]
           add == IF ById(c.conv) = {} THEN {} ELSE {new}
<1>1. /\ UNCHANGED <<lastId, request, conv>>
      /\ pc[h] = "save" /\ Ends(h, "done")
      /\ db' = [db EXCEPT !["conversations"] = (@ \ ById(c.conv)) \union add]
  BY DEF SaveMemory, Update, Call
<1>2. /\ pc' \in [Procs -> Steps]
      /\ pc'[h] \in {"done", "failed"} /\ \A q \in Procs \ {h} : pc'[q] = pc[q]
  BY <1>1, EndsType DEF Steps, Procs
<1>3. c \in Rows /\ c.turns \in Seq(Handlers \union {"before"})
  BY DEF MemoryType, Rows
<1>4. /\ new \in Rows /\ new.conv = c.conv /\ new.user = c.user
      /\ new.turns = Append(c.turns, h)
  <2>1. Append(c.turns, h) \in Seq(Handlers \union {"before"})
    BY <1>3
  <2>2. ASSUME NEW r \in Rows, NEW s \in Seq(Handlers \union {"before"})
        PROVE  /\ [r EXCEPT !.turns = s] \in Rows
               /\ [r EXCEPT !.turns = s].conv = r.conv
               /\ [r EXCEPT !.turns = s].user = r.user
               /\ [r EXCEPT !.turns = s].turns = s
    BY DEF Rows
  <2> HIDE DEF Rows
  <2> QED BY <1>3, <2>1, <2>2, Zenon
<1>5. /\ db' \in [Range(Tables) -> SUBSET Rows]
      /\ db'["conversations"] = (db["conversations"] \ ById(c.conv)) \union add
      /\ db'["chat_messages"] = db["chat_messages"]
  <2>1. add \subseteq Rows
    BY <1>4
  <2> HIDE DEF new, c, add
  <2> QED BY <1>1, <2>1, TablesOfRag DEF MemoryType
<1>6. MemoryType'
  BY <1>1, <1>2, <1>5 DEF MemoryType
<1>7. new \in Rows /\ db'["conversations"] = (db["conversations"] \ ById(conv[h].conv))
                          \union (IF ById(conv[h].conv) = {} THEN {} ELSE {new})
  BY <1>4, <1>5
<1> HIDE DEF new
<1> QED BY <1>1, <1>2, <1>3, <1>4, <1>5, <1>6, <1>7

LEMMA SaveKeeps ==
  ASSUME MemoryInv, NEW h \in Handlers, SaveMemory(h)
  PROVE  MemoryInv'
<1> DEFINE c == conv[h]
<1>0. /\ MemoryType' /\ UNCHANGED conv
      /\ pc[h] = "save"
      /\ pc'[h] \in {"done", "failed"} /\ \A p \in Procs \ {h} : pc'[p] = pc[p]
      /\ db'["chat_messages"] = db["chat_messages"]
  BY SaveShape DEF MemoryInv
<1>1. PICK new \in Rows :
        /\ new.conv = c.conv /\ new.turns = Append(c.turns, h)
        /\ c.turns \in Seq(Handlers \union {"before"})
        /\ db'["conversations"] \subseteq db["conversations"] \union {new}
  BY SaveShape DEF MemoryInv
<1>2. /\ c \in Rows /\ Backed(db, c)
      /\ Message(db, c.conv, "user", h) /\ Message(db, c.conv, "assistant", h)
  BY <1>0 DEF MemoryInv, MemoryType, CopiesBacked, InTurn
<1>3. Kept(db, db')
  BY <1>0 DEF Kept
<1>4. Backed(db', new)
  <2> SUFFICES ASSUME NEW n \in DOMAIN new.turns, NEW role \in {"user", "assistant"}
               PROVE  Message(db', new.conv, role, new.turns[n])
    BY DEF Backed
  <2> HIDE DEF c
  <2>1. \/ n \in DOMAIN c.turns /\ new.turns[n] = c.turns[n]
        \/ new.turns[n] = h
    BY <1>1
  <2>2. Message(db, c.conv, role, new.turns[n])
    BY <1>2, <2>1 DEF Backed
  <2> QED BY <1>1, <1>3, <2>2, KeptBacked
<1>5. MemoryBacked'
  BY <1>1, <1>3, <1>4, KeptBacked, MemoryIs DEF MemoryInv
<1>6. ASSUME NEW g \in Handlers
      PROVE  /\ pc'[g] \in InTurn => Backed(db', conv'[g])
             /\ pc'[g] \in {"answer", "save"} => Message(db', conv'[g].conv, "user", g)
             /\ pc'[g] = "save" => Message(db', conv'[g].conv, "assistant", g)
  BY <1>0, <1>3, KeptBacked DEF MemoryInv, CopiesBacked, InTurn, Procs
<1> QED BY <1>0, <1>5, <1>6, CopiesAre DEF MemoryInv

LEMMA MemoryInductive == MessagesStay /\ MemoryInv /\ [Next]_vars => MemoryInv'
<1> SUFFICES ASSUME MessagesStay, MemoryInv, [Next]_vars PROVE MemoryInv'
  OBVIOUS
<1>1. ASSUME NEW p \in Procs, Ensure(p) \/ Fails(p)
      PROVE  MemoryInv'
  BY <1>1, EnsureKeeps
<1>2. ASSUME NEW f \in Officers, Officer(f)
      PROVE  MemoryInv'
  BY <1>2, OfficerLooks, EraseKeeps DEF Officer
<1>3. ASSUME NEW h \in Handlers, Arrive(h) \/ Handler(h)
      PROVE  MemoryInv'
  BY <1>3, HandlerWaits, CreateKeeps, LoadKeeps, RunAgentKeeps, SayKeeps, SaveKeeps
  DEF Handler
<1>4. CASE UNCHANGED vars
  <2>1. UNCHANGED <<db, lastId, request, conv, pc>>
    BY <1>4 DEF vars, dbVars
  <2>2. MemoryType'
    BY <2>1 DEF MemoryInv, MemoryType
  <2> QED BY <2>1, <2>2, Elsewhere
<1> QED BY <1>1, <1>2, <1>3, <1>4 DEF Next

(* However often a person is forgotten while requests are served           *)
(* (forget_subject in gdpr.py beside send_message in the rag example), the *)
(* agent's memory holds no turn of which a message is missing, because the *)
(* messages are anonymized and the memory is saved last.                   *)
THEOREM MemoryStaysBacked ==
  ASSUME MessagesStay
  PROVE  Spec => []MemoryBacked
<1>1. MemoryInv /\ [Next]_vars => MemoryInv'
  BY MemoryInductive, MessagesStay
<1>2. MemoryInv => MemoryBacked
  BY DEF MemoryInv
<1> QED BY MemoryInit, <1>1, <1>2, PTL DEF Spec
-----------------------------------------------------------------------------
(* Erasure and export.  Every conversation belongs to one person, and the  *)
(* copy a handler has loaded to the person it serves: no statement of a    *)
(* handler touches the rows of anybody else, nor brings back a             *)
(* conversation that was deleted.                                          *)
Owned(k, u) == \A r \in db["conversations"] : r.conv = k => r.user = u

OwnerInv ==
  /\ \A r \in db["conversations"] : r.conv <= lastId /\ Owned(r.conv, r.user)
  /\ \A h \in Handlers : pc[h] \in InTurn =>
       /\ conv[h].user = request[h].user
       /\ conv[h].conv <= lastId
       /\ Owned(conv[h].conv, conv[h].user)

(* Where an officer is, and that nobody overlaps one that is quiet.        *)
Going == {"count", "erase", "find"}

OfficerType ==
  /\ order \in [Officers -> {"forget", "dry run", "export"}]
  /\ i \in [Officers -> Int]
  /\ found \in [Officers -> SUBSET (Range(Tables) \X Rows)]
  /\ quiet \subseteq Officers
  /\ \A f \in Officers : pc[f] \in Going =>
       /\ i[f] \in DOMAIN Tables
       /\ pc[f] = "find" <=> order[f] = "export"
       /\ pc[f] = "erase" => order[f] = "forget"

QuietInv ==
  \A f \in quiet : pc[f] \in Going =>
    \A h \in Handlers : Running(h) => request[h].user # Subject

(* What it has settled, table by table: erased, or found for its report.   *)
Seen(f) == {Tables[n] : n \in {m \in DOMAIN Tables :
              IF order[f] = "export" THEN m < i[f] ELSE m > i[f]}}

Clean(t) ==
  /\ \A r \in Of(t, Subject) : ~Personal(r)
  /\ OnForget[t] = "delete" => Of(t, Subject) = {}

Reported(f) ==
  /\ \A t \in Seen(f) : \A r \in Of(t, Subject) : <<t, r>> \in found[f]
  /\ \A x \in found[f] : \E t \in Range(Tables) : \E r \in Of(t, Subject) : x = <<t, r>>

Settled(f) ==
  IF order[f] = "forget" THEN \A t \in Seen(f) : Clean(t) ELSE Reported(f)

SettledInv == \A f \in quiet : pc[f] \in Going => Settled(f)

GdprInv == MemoryType /\ OwnerInv /\ OfficerType /\ QuietInv /\ SettledInv

LEMMA TypeAside ==
  ASSUME MemoryType, UNCHANGED <<db, lastId, request, conv>>,
         UNCHANGED pc \/ \E p \in Procs : \E step \in Steps : Goto(p, step)
  PROVE  MemoryType'
<1>1. pc' \in [Procs -> Steps]
  BY GotoType DEF MemoryType
<1> QED BY <1>1 DEF MemoryType

(* What a step that is none of the five about rows and copies leaves.      *)
LEMMA OtherSteps ==
  ASSUME [Next]_vars,
         ~\E f \in Officers : Erase(f),
         ~\E h \in Handlers : \/ CreateConversation(h) \/ LoadConversation(h)
                              \/ StoreQuestion(h) \/ StoreAnswer(h) \/ SaveMemory(h)
  PROVE  /\ UNCHANGED <<db, lastId, request, conv>>
         /\ \/ UNCHANGED pc
            \/ \E p \in Procs : Goto(p, "failed")
            \/ \E f \in Officers : \E step \in Going \union {"done"} : Goto(f, step)
            \/ \E h \in Handlers : \/ Arrive(h) /\ \E step \in {"insert", "get"} : Goto(h, step)
                                   \/ pc[h] = "agent" /\ Goto(h, "question")
<1>1. ASSUME NEW p \in Procs, Ensure(p) \/ Fails(p)
      PROVE  /\ UNCHANGED <<db, lastId, request, conv>>
             /\ UNCHANGED pc \/ Goto(p, "failed")
  BY <1>1 DEF Ensure, EnsureCreate, EnsureLook, EnsureAdd, Fails, Raises
<1>2. ASSUME NEW f \in Officers, Begin(f) \/ Count(f) \/ Find(f)
      PROVE  /\ UNCHANGED <<db, lastId, request, conv>>
             /\ \E step \in Going \union {"done"} : Goto(f, step)
  BY <1>2 DEF Begin, Count, Find, NextTable, dbVars, Going
<1>3. ASSUME NEW h \in Handlers, Arrive(h) \/ RunAgent(h)
      PROVE  /\ UNCHANGED <<db, lastId, request, conv>>
             /\ \/ Arrive(h) /\ \E step \in {"insert", "get"} : Goto(h, step)
                \/ pc[h] = "agent" /\ Goto(h, "question")
                \/ Goto(h, "failed")
  BY <1>3 DEF Arrive, RunAgent, dbVars
<1>4. CASE UNCHANGED vars
  BY <1>4 DEF vars, dbVars
<1> QED BY <1>1, <1>2, <1>3, <1>4 DEF Next, Officer, Handler, Procs

LEMMA LoadShape ==
  ASSUME MemoryType, NEW h \in Handlers, LoadConversation(h)
  PROVE  /\ MemoryType' /\ UNCHANGED <<db, lastId, request>> /\ pc[h] = "get"
         /\ \/ /\ UNCHANGED conv
               /\ \A p \in Procs : pc'[p] = IF p = h THEN "failed" ELSE pc[p]
            \/ \E r \in db["conversations"] :
                 /\ r.user = request[h].user
                 /\ \A g \in Handlers : conv'[g] = IF g = h THEN r ELSE conv[g]
                 /\ \A p \in Procs : pc'[p] = IF p = h THEN "agent" ELSE pc[p]
<1>1. UNCHANGED <<db, lastId, request>> /\ pc[h] = "get"
  BY DEF LoadConversation, dbVars, Call
<1>2. CASE Goto(h, "failed") /\ UNCHANGED conv
  <2>1. "failed" \in Steps
    BY DEF Steps
  <2> QED BY <1>1, <1>2, <2>1, GotoType DEF MemoryType
<1>3. ASSUME NEW r \in db["conversations"], r.user = request[h].user,
             conv' = [conv EXCEPT ![h] = r], Goto(h, "agent")
      PROVE  /\ MemoryType'
             /\ \A g \in Handlers : conv'[g] = IF g = h THEN r ELSE conv[g]
             /\ \A p \in Procs : pc'[p] = IF p = h THEN "agent" ELSE pc[p]
  <2>1. "agent" \in Steps /\ r \in Rows
    BY TablesOfRag DEF Steps, MemoryType
  <2> QED BY <1>1, <1>3, <2>1, GotoType DEF MemoryType
<1> QED BY <1>1, <1>2, <1>3, GotoType DEF LoadConversation, Steps

LEMMA MemoryTypeInductive ==
  ASSUME MemoryType, [Next]_vars
  PROVE  MemoryType' /\ UNCHANGED request
<1>1. CASE \E f \in Officers : Erase(f)
  BY <1>1, EraseShape
<1>2. CASE \E h \in Handlers : \/ CreateConversation(h) \/ LoadConversation(h)
                               \/ StoreQuestion(h) \/ StoreAnswer(h) \/ SaveMemory(h)
  BY <1>2, CreateShape, LoadShape, SayShape, SaveShape
<1>3. CASE /\ ~\E f \in Officers : Erase(f)
           /\ ~\E h \in Handlers : \/ CreateConversation(h) \/ LoadConversation(h)
                                   \/ StoreQuestion(h) \/ StoreAnswer(h) \/ SaveMemory(h)
  <2>1. UNCHANGED <<db, lastId, request, conv>>
    BY <1>3, OtherSteps
  <2>2. UNCHANGED pc \/ \E p \in Procs : \E step \in Steps : Goto(p, step)
    BY <1>3, OtherSteps DEF Procs, Steps, Going
  <2> QED BY <2>1, <2>2, TypeAside
<1> QED BY <1>1, <1>2, <1>3

(* The steps of one process do not move another.                           *)
LEMMA OwnerAside ==
  ASSUME OwnerInv, MemoryType, NEW u, UNCHANGED <<request, conv>>,
         lastId' \in {lastId, lastId + 1},
         \A h \in Handlers : pc'[h] \in InTurn => pc[h] \in InTurn,
         \A r \in db'["conversations"] :
           \/ \E q \in db["conversations"] : q.conv = r.conv /\ q.user = r.user
           \/ r.conv = lastId + 1 /\ r.user = u /\ lastId' = lastId + 1
  PROVE  OwnerInv'
<1>1. lastId \in Nat /\ \A q \in db["conversations"] : q.conv \in Nat
  BY TablesOfRag DEF MemoryType, Rows
<1>2. ASSUME NEW r \in db'["conversations"]
      PROVE  r.conv <= lastId' /\ Owned(r.conv, r.user)'
  BY <1>1 DEF OwnerInv, Owned
<1>3. ASSUME NEW h \in Handlers, pc'[h] \in InTurn
      PROVE  /\ conv'[h].user = request'[h].user
             /\ conv'[h].conv <= lastId'
             /\ Owned(conv[h].conv, conv[h].user)'
  <2>1. /\ conv[h].user = request[h].user
        /\ conv[h].conv <= lastId /\ conv[h].conv \in Nat
        /\ Owned(conv[h].conv, conv[h].user)
    BY <1>3 DEF OwnerInv, MemoryType, Rows
  <2> QED BY <2>1, <1>1 DEF Owned
<1> QED BY <1>2, <1>3 DEF OwnerInv

(* Every row of the conversations was there, or is new and has a new id.   *)
LEMMA ConversationRows ==
  ASSUME OwnerInv, MemoryType, [Next]_vars
  PROVE  /\ lastId' \in {lastId, lastId + 1}
         /\ \E u : \A r \in db'["conversations"] :
              \/ \E q \in db["conversations"] : q.conv = r.conv /\ q.user = r.user
              \/ r.conv = lastId + 1 /\ r.user = u /\ lastId' = lastId + 1
<1> DEFINE Old(r) == \E q \in db["conversations"] : q.conv = r.conv /\ q.user = r.user
<1>1. ASSUME NEW f \in Officers, Erase(f)
      PROVE  UNCHANGED lastId /\ \A r \in db'["conversations"] : Old(r)
  <2> DEFINE t == Wants(f)
             left == db[t] \ Of(t, Subject)
             redacted == {[r EXCEPT !.text = Redacted] : r \in Of(t, Subject)}
  <2>1. /\ UNCHANGED lastId
        /\ \/ db'["conversations"] = db["conversations"]
           \/ /\ t = "conversations"
              /\ db'["conversations"] \subseteq left \union redacted
    BY <1>1, EraseShape, TablesOfRag
  <2>2. ASSUME t = "conversations", NEW r \in redacted
        PROVE  Old(r)
    <3>1. PICK q \in Of(t, Subject) : r = [q EXCEPT !.text = Redacted]
      OBVIOUS
    <3>2. q \in Rows /\ q \in db["conversations"]
      BY <2>2, TablesOfRag DEF Of, MemoryType
    <3> QED BY <3>1, <3>2, RedactedRow
  <2> QED BY <2>1, <2>2
<1>2. ASSUME NEW h \in Handlers, SaveMemory(h)
      PROVE  UNCHANGED lastId /\ \A r \in db'["conversations"] : Old(r)
  <2>1. PICK new \in Rows :
          /\ UNCHANGED lastId /\ pc[h] = "save"
          /\ new.conv = conv[h].conv /\ new.user = conv[h].user
          /\ db'["conversations"] = (db["conversations"] \ ById(conv[h].conv))
                \union (IF ById(conv[h].conv) = {} THEN {} ELSE {new})
    BY <1>2, SaveShape
  <2>2. ASSUME ById(conv[h].conv) # {}
        PROVE  Old(new)
    <3>1. PICK q \in db["conversations"] : q.conv = conv[h].conv
      BY <2>2 DEF ById
    <3>2. q.user = conv[h].user
      BY <2>1, <3>1 DEF OwnerInv, Owned, InTurn
    <3> QED BY <2>1, <3>1, <3>2
  <2> QED BY <2>1, <2>2
<1>3. ASSUME NEW h \in Handlers, CreateConversation(h)
      PROVE  /\ lastId' = lastId + 1
             /\ \A r \in db'["conversations"] :
                  Old(r) \/ (r.conv = lastId + 1 /\ r.user = request[h].user)
  <2>1. PICK new \in Rows :
          /\ lastId' = lastId + 1
          /\ new.conv = lastId + 1 /\ new.user = request[h].user
          /\ db'["conversations"] = db["conversations"] \union {new}
    BY <1>3, CreateShape
  <2> QED BY <2>1
<1>4. ASSUME NEW h \in Handlers, LoadConversation(h) \/ StoreQuestion(h) \/ StoreAnswer(h)
      PROVE  UNCHANGED lastId /\ \A r \in db'["conversations"] : Old(r)
  BY <1>4, LoadShape, SayShape
<1>5. ASSUME ~\E f \in Officers : Erase(f),
             ~\E h \in Handlers : \/ CreateConversation(h) \/ LoadConversation(h)
                                  \/ StoreQuestion(h) \/ StoreAnswer(h) \/ SaveMemory(h)
      PROVE  UNCHANGED lastId /\ \A r \in db'["conversations"] : Old(r)
  BY <1>5, OtherSteps
<1> DEFINE AllOld == UNCHANGED lastId /\ \A r \in db'["conversations"] : Old(r)
<1>6. CASE AllOld
  BY <1>6
<1>7. AllOld \/ \E h \in Handlers : CreateConversation(h)
  <2> HIDE DEF Old, AllOld
  <2>1. ASSUME NEW f \in Officers, Erase(f) PROVE AllOld
    BY <1>1, <2>1 DEF AllOld
  <2>2. ASSUME NEW h \in Handlers, \/ LoadConversation(h) \/ StoreQuestion(h)
                                  \/ StoreAnswer(h) \/ SaveMemory(h)
        PROVE  AllOld
    BY <1>2, <1>4, <2>2 DEF AllOld
  <2>3. CASE /\ ~\E f \in Officers : Erase(f)
             /\ ~\E h \in Handlers : \/ CreateConversation(h) \/ LoadConversation(h)
                                     \/ StoreQuestion(h) \/ StoreAnswer(h) \/ SaveMemory(h)
    BY <1>5, <2>3 DEF AllOld
  <2> QED BY <2>1, <2>2, <2>3
<1>8. ASSUME NEW h \in Handlers, CreateConversation(h)
      PROVE  \E u : \A r \in db'["conversations"] :
               \/ Old(r)
               \/ r.conv = lastId + 1 /\ r.user = u /\ lastId' = lastId + 1
  BY <1>3, <1>8
<1> QED BY <1>3, <1>6, <1>7, <1>8

(* A turn begins only where a conversation is loaded.                      *)
LEMMA TurnsBegin ==
  ASSUME MemoryType, [Next]_vars, ~\E h \in Handlers : LoadConversation(h)
  PROVE  /\ UNCHANGED conv
         /\ \A h \in Handlers : pc'[h] \in InTurn => pc[h] \in InTurn
<1>1. CASE \E f \in Officers : Erase(f)
  BY <1>1, EraseShape DEF Procs, InTurn
<1>2. ASSUME NEW h \in Handlers, CreateConversation(h) \/ SaveMemory(h)
      PROVE  /\ UNCHANGED conv
             /\ \A g \in Handlers : pc'[g] \in InTurn => pc[g] \in InTurn
  BY <1>2, CreateShape, SaveShape DEF Procs, InTurn
<1>3. ASSUME NEW h \in Handlers, StoreQuestion(h) \/ StoreAnswer(h)
      PROVE  /\ UNCHANGED conv
             /\ \A g \in Handlers : pc'[g] \in InTurn => pc[g] \in InTurn
  BY <1>3, SayShape DEF Procs, InTurn
<1>4. CASE /\ ~\E f \in Officers : Erase(f)
           /\ ~\E h \in Handlers : \/ CreateConversation(h) \/ LoadConversation(h)
                                   \/ StoreQuestion(h) \/ StoreAnswer(h) \/ SaveMemory(h)
  <2>1. UNCHANGED conv
    BY <1>4, OtherSteps
  <2>2. \/ UNCHANGED pc
        \/ \E p \in Procs : \E step \in {"failed", "done", "insert", "get"} \union Going :
             Goto(p, step)
        \/ \E h \in Handlers : pc[h] = "agent" /\ Goto(h, "question")
    BY <1>4, OtherSteps DEF Procs
  <2>3. pc \in [Procs -> Steps]
    BY DEF MemoryType
  <2> QED BY <2>1, <2>2, <2>3 DEF Goto, InTurn, Procs, Going
<1> QED BY <1>1, <1>2, <1>3, <1>4

LEMMA OwnerInductive ==
  ASSUME OwnerInv, MemoryType, [Next]_vars
  PROVE  OwnerInv'
<1>1. CASE ~\E h \in Handlers : LoadConversation(h)
  BY <1>1, ConversationRows, MemoryTypeInductive, TurnsBegin, OwnerAside
<1>2. ASSUME NEW h \in Handlers, LoadConversation(h)
      PROVE  OwnerInv'
  <2>1. UNCHANGED <<db, lastId, request>>
    BY <1>2, LoadShape
  <2>2. ASSUME NEW g \in Handlers, pc'[g] \in InTurn
        PROVE  \/ pc[g] \in InTurn /\ conv'[g] = conv[g]
               \/ /\ conv'[g] \in db["conversations"]
                  /\ conv'[g].user = request[g].user
    BY <1>2, <2>2, LoadShape DEF InTurn, Procs
  <2> QED BY <2>1, <2>2 DEF OwnerInv, Owned
<1> QED BY <1>1, <1>2

(* A step that no handler of the subject takes part in leaves the rows of  *)
(* the subject as they are, or is an erasure; and what is clean stays so.  *)
LEMMA SubjectRows ==
  ASSUME OwnerInv, MemoryType, [Next]_vars, ~\E f \in Officers : Erase(f),
         \A h \in Handlers : Running(h) => request[h].user # Subject
  PROVE  \A t \in Range(Tables) : Of(t, Subject)' = Of(t, Subject)
<1> DEFINE Same == \A t \in {"conversations", "chat_messages"} :
                     {r \in db'[t] : r.user = Subject} = {r \in db[t] : r.user = Subject}
<1>1. ASSUME NEW h \in Handlers, CreateConversation(h)
      PROVE  Same
  <2>1. PICK new \in Rows :
          /\ pc[h] = "insert" /\ new.user = request[h].user
          /\ db'["chat_messages"] = db["chat_messages"]
          /\ db'["conversations"] = db["conversations"] \union {new}
    BY <1>1, CreateShape
  <2>2. new.user # Subject
    BY <2>1 DEF Running, Ended
  <2> QED BY <2>1, <2>2 DEF Of
<1>2. ASSUME NEW h \in Handlers, StoreQuestion(h) \/ StoreAnswer(h)
      PROVE  Same
  <2>1. PICK new \in Rows :
          /\ pc[h] \in {"question", "answer"} /\ new.user = request[h].user
          /\ db'["conversations"] = db["conversations"]
          /\ db'["chat_messages"] = db["chat_messages"] \union {new}
    BY <1>2, SayShape
  <2>2. new.user # Subject
    BY <2>1 DEF Running, Ended
  <2> QED BY <2>1, <2>2 DEF Of
<1>3. ASSUME NEW h \in Handlers, SaveMemory(h)
      PROVE  Same
  <2>1. PICK new \in Rows :
          /\ pc[h] = "save" /\ new.user = conv[h].user
          /\ db'["chat_messages"] = db["chat_messages"]
          /\ db'["conversations"] = (db["conversations"] \ ById(conv[h].conv))
                \union (IF ById(conv[h].conv) = {} THEN {} ELSE {new})
    BY <1>3, SaveShape
  <2>2. new.user # Subject /\ \A r \in ById(conv[h].conv) : r.user # Subject
    BY <2>1 DEF Running, Ended, OwnerInv, Owned, ById, InTurn
  <2> QED BY <2>1, <2>2 DEF Of
<1>4. ASSUME NEW h \in Handlers, LoadConversation(h)
      PROVE  Same
  BY <1>4, LoadShape DEF Of
<1>5. ASSUME ~\E h \in Handlers : \/ CreateConversation(h) \/ LoadConversation(h)
                                  \/ StoreQuestion(h) \/ StoreAnswer(h) \/ SaveMemory(h)
      PROVE  Same
  BY <1>5, OtherSteps DEF Of
<1>6. Same
  <2> HIDE DEF Same
  <2> QED BY <1>1, <1>2, <1>3, <1>4, <1>5
<1> QED BY <1>6, ErasureAssumption DEF Of

LEMMA EraseCleans ==
  ASSUME MemoryType, NEW f \in Officers, Erase(f), NEW t \in Range(Tables),
         Clean(t) \/ t = Wants(f)
  PROVE  Clean(t)'
<1>1. CASE t # Wants(f)
  <2>1. db'[t] = db[t]
    BY <1>1, EraseShape
  <2> QED BY <1>1, <2>1 DEF Clean, Of
<1>2. CASE t = Wants(f)
  <2> DEFINE left == db[t] \ Of(t, Subject)
             redacted == {[r EXCEPT !.text = Redacted] : r \in Of(t, Subject)}
  <2>1. db'[t] = IF OnForget[t] = "anonymize" THEN left \union redacted ELSE left
    BY <1>2, EraseShape
  <2>2. \A r \in left : r.user # Subject
    BY DEF Of
  <2>3. \A r \in redacted : r.text = Redacted
    <3> SUFFICES ASSUME NEW q \in Of(t, Subject)
                 PROVE  [q EXCEPT !.text = Redacted].text = Redacted
      OBVIOUS
    <3>1. q \in Rows
      BY DEF Of, MemoryType
    <3> QED BY <3>1, RedactedRow
  <2> HIDE DEF left, redacted
  <2>4. CASE OnForget[t] = "anonymize"
    <3>1. \A r \in db'[t] : r.user = Subject => r.text = Redacted
      BY <2>1, <2>2, <2>3, <2>4
    <3> QED BY <3>1, <2>4 DEF Clean, Of, Personal
  <2>5. CASE OnForget[t] # "anonymize"
    <3>1. \A r \in db'[t] : r.user # Subject
      BY <2>1, <2>2, <2>5
    <3> QED BY <3>1 DEF Clean, Of
  <2> QED BY <2>4, <2>5
<1> QED BY <1>1, <1>2

(* Where officers are: at a table, one after the other.                    *)
LEMMA OfficersApart ==
  ASSUME MemoryType, [Next]_vars, NEW f \in Officers,
         ~(Begin(f) \/ Count(f) \/ Erase(f) \/ Find(f))
  PROVE  pc'[f] \in {pc[f], "failed"}
<1>1. \A h \in Handlers : h # f
  BY ErasureAssumption
<1>2. pc \in [Procs -> Steps]
  BY DEF MemoryType
<1>3. ASSUME NEW g \in Officers, g # f, Begin(g) \/ Count(g) \/ Erase(g) \/ Find(g)
      PROVE  pc'[f] = pc[f]
  BY <1>2, <1>3 DEF Begin, Count, Erase, Find, NextTable, Raises, Goto, Procs
<1>4. ASSUME NEW p \in Procs, Ensure(p) \/ Fails(p)
      PROVE  pc'[f] \in {pc[f], "failed"}
  BY <1>2, <1>4 DEF Ensure, EnsureCreate, EnsureLook, EnsureAdd, Fails, Raises, Goto, Procs
<1>5. ASSUME NEW h \in Handlers, Arrive(h) \/ Handler(h)
      PROVE  pc'[f] = pc[f]
  BY <1>1, <1>2, <1>5 DEF Arrive, Handler, CreateConversation, LoadConversation, RunAgent,
     StoreQuestion, StoreAnswer, Say, SaveMemory, Ends, Raises, Goto, Procs
<1>6. CASE UNCHANGED vars
  BY <1>6 DEF vars
<1> QED BY <1>3, <1>4, <1>5, <1>6 DEF Next, Officer

(* What the steps of others leave of an officer's work.                    *)
LEMMA OfficerFrame ==
  ASSUME OfficerType, [Next]_vars
  PROVE  /\ UNCHANGED order
         /\ \/ UNCHANGED <<i, found>>
            \/ \E g \in Officers :
                 /\ Begin(g) \/ Count(g) \/ Erase(g) \/ Find(g)
                 /\ \A f \in Officers : g # f => i'[f] = i[f] /\ found'[f] = found[f]
<1>1. ASSUME NEW g \in Officers, Begin(g) \/ Count(g) \/ Erase(g) \/ Find(g)
      PROVE  /\ UNCHANGED order
             /\ \A f \in Officers : g # f => i'[f] = i[f] /\ found'[f] = found[f]
  BY <1>1 DEF Begin, Count, Erase, Find, NextTable, OfficerType
<1>2. ASSUME NEW p \in Procs, Ensure(p) \/ Fails(p)
      PROVE  UNCHANGED <<order, i, found>>
  BY <1>2 DEF Ensure, EnsureCreate, EnsureLook, EnsureAdd, Fails
<1>3. ASSUME NEW h \in Handlers, Arrive(h) \/ Handler(h)
      PROVE  UNCHANGED <<order, i, found>>
  BY <1>3 DEF Arrive, Handler, CreateConversation, LoadConversation, RunAgent,
     StoreQuestion, StoreAnswer, Say, SaveMemory
<1>4. CASE UNCHANGED vars
  BY <1>4 DEF vars
<1> QED BY <1>1, <1>2, <1>3, <1>4 DEF Next, Officer

LEMMA QuietFrame ==
  ASSUME OfficerType, [Next]_vars
  PROVE  /\ quiet' \subseteq Officers
         /\ \A f \in quiet' : f \in quiet \/ Begin(f)
<1>1. CASE \E f \in Officers : Begin(f)
  <2>1. PICK f \in Officers : Begin(f)
    BY <1>1
  <2>2. quiet' = quiet \ {f} \/ quiet' = quiet \union {f}
    BY <2>1 DEF Begin
  <2> QED BY <2>1, <2>2 DEF OfficerType
<1>2. CASE ~\E f \in Officers : Begin(f)
  <2>1. quiet' \subseteq quiet
    BY <1>2 DEF Next, Ensure, EnsureCreate, EnsureLook, EnsureAdd, Fails, Officer,
       Count, Erase, Find, Arrive, Handler, CreateConversation, LoadConversation,
       RunAgent, StoreQuestion, StoreAnswer, Say, SaveMemory, vars
  <2> QED BY <2>1 DEF OfficerType
<1> QED BY <1>1, <1>2

LEMMA WantsIs ==
  ASSUME NEW f, pc[f] \in Going
  PROVE  Wants(f) = Tables[i[f]]
BY DEF Wants, Going

(* One step of an officer: it is at the table it was at, at the next one   *)
(* of its order, or done with all of them.                                 *)
LEMMA OfficerStep ==
  ASSUME MemoryType, OfficerType, NEW f \in Officers, Count(f) \/ Erase(f) \/ Find(f)
  PROVE  /\ pc[f] \in Going /\ i[f] \in DOMAIN Tables
         /\ UNCHANGED order
         /\ i' \in [Officers -> Int] /\ found' \in [Officers -> SUBSET (Range(Tables) \X Rows)]
         /\ \A g \in Officers : g # f => pc'[g] = pc[g]
         /\ \/ /\ pc[f] = "count" /\ pc'[f] = "erase" /\ order[f] = "forget"
               /\ i'[f] = i[f]
            \/ /\ pc[f] = "erase" /\ pc'[f] = "failed" /\ i'[f] = i[f]
            \/ /\ pc[f] \in {"count", "erase"} /\ i'[f] = i[f] - 1
               /\ pc'[f] = IF i[f] = 1 THEN "done" ELSE "count"
            \/ /\ pc[f] = "find" /\ i'[f] = i[f] + 1
               /\ pc'[f] = IF i[f] = Len(Tables) THEN "done" ELSE "find"
<1>1. /\ pc \in [Procs -> Steps] /\ f \in Procs /\ Officers \subseteq Procs
      /\ i \in [Officers -> Int]
      /\ order[f] \in {"forget", "dry run", "export"}
  BY DEF MemoryType, OfficerType, Procs
<1>2. pc[f] \in {"count", "erase", "find"} /\ UNCHANGED order
  BY DEF Count, Erase, Find, Call
<1>3. /\ i[f] \in DOMAIN Tables
      /\ pc[f] = "find" <=> order[f] = "export"
  BY <1>2 DEF OfficerType, Going
<1>4. \E step : Goto(f, step)
  BY DEF Count, Erase, Find, NextTable, Raises
<1>5. \A g \in Officers : g # f => pc'[g] = pc[g]
  BY <1>1, <1>4 DEF Goto
<1>6. i' \in [Officers -> Int]
  <2>1. i \in [Officers -> Int] /\ i[f] - 1 \in Int /\ i[f] + 1 \in Int
    <3>1. i \in [Officers -> Int]
      BY <1>1
    <3>2. i[f] \in Int
      BY <3>1
    <3> QED BY <3>1, <3>2
  <2>2. UNCHANGED i \/ \E n \in {i[f] - 1, i[f] + 1} : i' = [i EXCEPT ![f] = n]
    BY DEF Count, Erase, Find, NextTable
  <2>3. ASSUME NEW n \in Int, i' = [i EXCEPT ![f] = n]
        PROVE  i' \in [Officers -> Int]
    BY <2>1, <2>3
  <2> QED BY <2>1, <2>2, <2>3
<1>7. found' \in [Officers -> SUBSET (Range(Tables) \X Rows)]
  <2>1. Wants(f) \in Range(Tables)
    BY <1>2, <1>3, WantsIs DEF Going, Range
  <2> DEFINE seen == {<<Wants(f), r>> : r \in Of(Wants(f), Subject)}
  <2>2. seen \subseteq Range(Tables) \X Rows
    BY <2>1 DEF Of, MemoryType
  <2>3. UNCHANGED found \/ found' = [found EXCEPT ![f] = @ \union seen]
    BY DEF Count, Erase, Find
  <2> HIDE DEF seen
  <2> QED BY <2>2, <2>3 DEF OfficerType
<1>8. CASE Count(f)
  <2>1. /\ pc[f] = "count"
        /\ \/ order[f] # "dry run" /\ Goto(f, "erase") /\ UNCHANGED i
           \/ NextTable(f)
    BY <1>8 DEF Count, Call
  <2> QED BY <2>1, <1>1, <1>2, <1>3, <1>5, <1>6, <1>7 DEF NextTable, Goto, Going
<1>9. CASE Erase(f)
  <2>1. /\ pc[f] = "erase"
        /\ NextTable(f) \/ (Goto(f, "failed") /\ UNCHANGED i)
    BY <1>9 DEF Erase, Call, Raises
  <2> QED BY <2>1, <1>1, <1>2, <1>3, <1>5, <1>6, <1>7 DEF NextTable, Goto, Going
<1>10. CASE Find(f)
  <2>1. /\ pc[f] = "find" /\ i' = [i EXCEPT ![f] = @ + 1]
        /\ Goto(f, IF i[f] = Len(Tables) THEN "done" ELSE "find")
    BY <1>10 DEF Find, Call
  <2> QED BY <2>1, <1>1, <1>2, <1>3, <1>5, <1>6, <1>7 DEF Goto, Going
<1> QED BY <1>8, <1>9, <1>10

LEMMA OfficerInductive ==
  ASSUME MemoryType, OfficerType, [Next]_vars
  PROVE  OfficerType'
<1>0. DOMAIN Tables = 1..Len(Tables) /\ Len(Tables) \in Nat \ {0}
  <2>1. Tables \in Seq({"conversations", "chat_messages"})
    BY ErasureAssumption
  <2>2. Tables # <<>>
    BY <2>1, TablesOfRag DEF Range
  <2> QED BY <2>1, <2>2
<1>1. UNCHANGED order /\ quiet' \subseteq Officers
  BY OfficerFrame, QuietFrame
<1> DEFINE At(f) == pc'[f] \in Going =>
                      /\ i'[f] \in DOMAIN Tables
                      /\ pc'[f] = "find" <=> order[f] = "export"
                      /\ pc'[f] = "erase" => order[f] = "forget"
<1>2. ASSUME NEW f \in Officers, Begin(f)
      PROVE  /\ i' \in [Officers -> Int] /\ found' \in [Officers -> SUBSET (Range(Tables) \X Rows)]
             /\ At(f)
  <2> DEFINE first == IF order[f] = "export" THEN 1 ELSE Len(Tables)
             step  == IF order[f] = "export" THEN "find" ELSE "count"
  <2>1. /\ i' = [i EXCEPT ![f] = first] /\ first \in 1..Len(Tables)
        /\ found' = [found EXCEPT ![f] = {}]
        /\ pc' = [pc EXCEPT ![f] = step]
    BY <1>0, <1>2 DEF Begin, Goto
  <2>2. i'[f] = first /\ pc'[f] = step
    BY <2>1 DEF OfficerType, MemoryType, Procs
  <2>3. At(f)
    BY <1>0, <1>1, <2>1, <2>2
  <2>4. i' \in [Officers -> Int]
    <3>1. first \in Int
      BY <1>0
    <3> HIDE DEF first
    <3> QED BY <2>1, <3>1 DEF OfficerType
  <2>5. found' \in [Officers -> SUBSET (Range(Tables) \X Rows)]
    BY <2>1 DEF OfficerType
  <2> QED BY <2>3, <2>4, <2>5
<1>3. ASSUME NEW f \in Officers, Count(f) \/ Erase(f) \/ Find(f)
      PROVE  /\ i' \in [Officers -> Int] /\ found' \in [Officers -> SUBSET (Range(Tables) \X Rows)]
             /\ At(f)
  <2>1. /\ i[f] \in 1..Len(Tables) /\ pc[f] \in Going
        /\ pc[f] = "find" <=> order[f] = "export"
        /\ pc[f] = "erase" => order[f] = "forget"
    BY <1>0, <1>3, OfficerStep DEF OfficerType
  <2> QED BY <1>0, <1>3, <2>1, OfficerStep DEF Going
<1>4. /\ i' \in [Officers -> Int]
      /\ found' \in [Officers -> SUBSET (Range(Tables) \X Rows)]
  <2>1. CASE UNCHANGED <<i, found>>
    BY <2>1 DEF OfficerType
  <2> QED BY <2>1, <1>2, <1>3, OfficerFrame
<1>5. ASSUME NEW f \in Officers
      PROVE  At(f)
  <2>1. CASE Begin(f) \/ Count(f) \/ Erase(f) \/ Find(f)
    <3> HIDE DEF At
    <3> QED BY <2>1, <1>2, <1>3
  <2>2. CASE ~(Begin(f) \/ Count(f) \/ Erase(f) \/ Find(f))
    <3>1. pc'[f] \in {pc[f], "failed"} /\ i'[f] = i[f]
      BY <2>2, OfficersApart, OfficerFrame
    <3> QED BY <3>1 DEF OfficerType, Going
  <2> QED BY <2>1, <2>2
<1> QED BY <1>1, <1>4, <1>5 DEF OfficerType

(* A handler that runs was running, or arrives and ends the quiet.         *)
LEMMA QuietInductive ==
  ASSUME MemoryType, OfficerType, QuietInv, [Next]_vars
  PROVE  QuietInv'
<1> SUFFICES ASSUME NEW f \in quiet', pc'[f] \in Going,
                    NEW h \in Handlers, Running(h)'
             PROVE  request[h].user # Subject
  BY MemoryTypeInductive DEF QuietInv
<1>1. pc \in [Procs -> Steps] /\ f \in Officers
  BY QuietFrame DEF MemoryType
<1>2. CASE \E g \in Handlers : Arrive(g)
  <2>1. PICK g \in Handlers : Arrive(g)
    BY <1>2
  <2>2. request[g].user # Subject /\ f \in quiet
    BY <2>1 DEF Arrive
  <2>3. pc'[f] = pc[f] /\ (h # g => pc'[h] = pc[h])
    BY <2>1, <1>1, ErasureAssumption DEF Arrive, Goto, Procs
  <2>4. CASE h = g
    BY <2>2, <2>4
  <2>5. CASE h # g
    BY <2>2, <2>3, <2>5 DEF QuietInv, Running, Ended
  <2> QED BY <2>4, <2>5
<1>3. ASSUME ~\E g \in Handlers : Arrive(g)
      PROVE  Running(h)
  <2>1. ASSUME NEW g \in Handlers, Handler(g), h = g
        PROVE  Running(h)
    BY <2>1 DEF Handler, CreateConversation, LoadConversation, RunAgent, StoreQuestion,
       StoreAnswer, Say, SaveMemory, Call, Running, Ended
  <2>2. ASSUME NEW g \in Handlers, Handler(g), h # g
        PROVE  pc'[h] = pc[h]
    BY <1>1, <2>2 DEF Handler, CreateConversation, LoadConversation, RunAgent,
       StoreQuestion, StoreAnswer, Say, SaveMemory, Ends, Raises, Goto, Procs
  <2>3. ASSUME NEW g \in Officers, Officer(g)
        PROVE  pc'[h] = pc[h]
    BY <1>1, <2>3, ErasureAssumption, ZenonT(60)
       DEF Officer, Begin, Count, Erase, Find, NextTable, Raises, Goto, Procs
  <2>4. ASSUME NEW p \in Procs, Ensure(p) \/ Fails(p)
        PROVE  pc'[h] \in {pc[h], "failed"}
    BY <1>1, <2>4 DEF Ensure, EnsureCreate, EnsureLook, EnsureAdd, Fails, Raises, Goto, Procs
  <2>5. pc'[h] \in {pc[h], "failed"} => Running(h)
    BY DEF Running, Ended
  <2>6. CASE UNCHANGED vars
    BY <2>5, <2>6 DEF vars
  <2> QED BY <1>3, <2>1, <2>2, <2>3, <2>4, <2>5, <2>6 DEF Next
<1>4. CASE Begin(f)
  <2>1. /\ ~\E g \in Handlers : Arrive(g)
        /\ \E g \in Handlers : Running(g) /\ request[g].user = Subject => f \notin quiet'
    <3>1. pc'[f] # pc[f] /\ f \in Officers
      BY <1>1, <1>4 DEF Begin, Goto, Procs
    <3>2. ~\E g \in Handlers : Arrive(g)
      BY <3>1, <1>1, ErasureAssumption DEF Arrive, Goto, Procs
    <3> QED BY <3>2, <1>4 DEF Begin
  <2> QED BY <1>3, <1>4, <2>1 DEF Begin
<1>5. ASSUME ~Begin(f), ~\E g \in Handlers : Arrive(g)
      PROVE  request[h].user # Subject
  <2>1. f \in quiet
    BY <1>5, QuietFrame
  <2>2. pc[f] \in Going
    <3>1. CASE Count(f) \/ Erase(f) \/ Find(f)
      BY <3>1 DEF Count, Erase, Find, Call, Going
    <3>2. CASE ~(Count(f) \/ Erase(f) \/ Find(f))
      BY <3>2, <1>1, <1>5, OfficersApart DEF Going
    <3> QED BY <3>1, <3>2
  <2> QED BY <1>3, <1>5, <2>1, <2>2 DEF QuietInv
<1> QED BY <1>2, <1>4, <1>5

(* The step of a quiet officer settles the table it is at before it leaves *)
(* it, and no step of another process unsettles one.                       *)
LEMMA SeenStep ==
  ASSUME OfficerType, NEW f \in Officers, UNCHANGED order, i[f] \in DOMAIN Tables,
         \/ i'[f] = i[f]
         \/ order[f] = "export" /\ i'[f] = i[f] + 1
         \/ order[f] # "export" /\ i'[f] = i[f] - 1
  PROVE  /\ i'[f] = i[f] => Seen(f)' = Seen(f)
         /\ Seen(f)' \subseteq Seen(f) \union {Tables[i[f]]}
<1>1. DOMAIN Tables \subseteq Int /\ i[f] \in Int
  <2>1. Tables \in Seq({"conversations", "chat_messages"})
    BY ErasureAssumption
  <2>2. i \in [Officers -> Int]
    BY DEF OfficerType
  <2>3. i[f] \in Int
    BY <2>2
  <2> QED BY <2>1, <2>3
<1>2. i'[f] = i[f] => Seen(f)' = Seen(f)
  BY DEF Seen
<1>3. ASSUME NEW n \in DOMAIN Tables,
             IF order[f] = "export" THEN n < i'[f] ELSE n > i'[f]
      PROVE  n = i[f] \/ IF order[f] = "export" THEN n < i[f] ELSE n > i[f]
  BY <1>1, <1>3
<1> QED BY <1>2, <1>3 DEF Seen

LEMMA SeenIsTables ==
  ASSUME NEW f
  PROVE  Seen(f) \subseteq Range(Tables) /\ Seen(f)' \subseteq Range(Tables)
BY DEF Seen, Range

LEMMA EraseSettles ==
  ASSUME GdprInv, NEW g \in Officers, Erase(g), NEW f \in quiet, pc[f] \in Going,
         order[f] = "forget"
  PROVE  Settled(f)'
<1>1. /\ pc[g] = "erase" /\ i'[g] \in {i[g], i[g] - 1}
      /\ pc[g] \in Going /\ i[g] \in DOMAIN Tables /\ UNCHANGED order
  BY OfficerStep DEF GdprInv, Erase, Call
<1>2. f \in Officers /\ i[f] \in DOMAIN Tables /\ \A t \in Seen(f) : Clean(t)
  BY DEF GdprInv, OfficerType, SettledInv, Settled
<1>3. Seen(f)' \subseteq Seen(f) \union {Wants(g)}
  <2>1. CASE f = g
    BY <1>1, <1>2, <2>1, SeenStep, WantsIs DEF GdprInv
  <2>2. CASE f # g
    <3>1. i'[f] = i[f]
      BY <1>2, <2>2 DEF Erase, NextTable, GdprInv, OfficerType
    <3> QED BY <1>1, <1>2, <3>1, SeenStep DEF GdprInv
  <2> QED BY <2>1, <2>2
<1>4. \A t \in Seen(f)' : Clean(t)'
  BY <1>2, <1>3, SeenIsTables, EraseCleans DEF GdprInv
<1> QED BY <1>1, <1>4 DEF Settled

LEMMA LookSettles ==
  ASSUME GdprInv, NEW f \in quiet, Count(f) \/ Find(f)
  PROVE  Settled(f)'
<1> DEFINE t == Wants(f)
           seen == {<<t, r>> : r \in Of(t, Subject)}
<1>1. /\ f \in Officers /\ pc[f] \in Going /\ i[f] \in DOMAIN Tables
      /\ UNCHANGED <<order, db>>
      /\ pc[f] = "find" <=> order[f] = "export"
      /\ order[f] \in {"forget", "dry run", "export"}
  BY DEF GdprInv, OfficerType, Count, Find, Call, Going, dbVars
<1>2. /\ Settled(f) /\ t = Tables[i[f]] /\ t \in Range(Tables)
      /\ \A s : Clean(s)' = Clean(s) /\ Of(s, Subject)' = Of(s, Subject)
  BY <1>1, WantsIs DEF GdprInv, SettledInv, Range, Clean, Of
<1>3. found'[f] = found[f] \union seen
  <2>1. found' = [found EXCEPT ![f] = @ \union seen]
    BY DEF Count, Find
  <2> HIDE DEF seen
  <2> QED BY <1>1, <2>1 DEF GdprInv, OfficerType
<1>4. /\ i'[f] = i[f] => Seen(f)' = Seen(f)
      /\ Seen(f)' \subseteq Seen(f) \union {t}
  <2>1. \/ i'[f] = i[f]
        \/ order[f] = "export" /\ i'[f] = i[f] + 1
        \/ order[f] # "export" /\ i'[f] = i[f] - 1
    BY <1>1, OfficerStep DEF GdprInv
  <2> QED BY <1>1, <1>2, <2>1, SeenStep DEF GdprInv
<1>5. CASE order[f] = "forget"
  <2>1. Count(f)
    BY <1>5, <1>1 DEF Find, Call
  <2>2. i'[f] = i[f] \/ Of(t, Subject) = {}
    BY <2>1, <1>5 DEF Count
  <2>3. Of(t, Subject) = {} => Clean(t)
    BY DEF Clean
  <2>4. \A s \in Seen(f)' : Clean(s)
    BY <1>2, <1>4, <1>5, <2>2, <2>3 DEF Settled
  <2> QED BY <1>1, <1>2, <1>5, <2>4 DEF Settled
<1>6. CASE order[f] # "forget"
  <2>1. ASSUME NEW s \in Seen(f)', NEW r \in Of(s, Subject)
        PROVE  <<s, r>> \in found'[f]
    BY <2>1, <1>2, <1>3, <1>4, <1>6 DEF Settled, Reported
  <2>2. ASSUME NEW x \in found'[f]
        PROVE  \E s \in Range(Tables) : \E r \in Of(s, Subject) : x = <<s, r>>
    BY <2>2, <1>2, <1>3, <1>6 DEF Settled, Reported
  <2>3. Reported(f)'
    BY <1>2, <2>1, <2>2 DEF Reported
  <2> QED BY <1>1, <1>6, <2>3 DEF Settled
<1> QED BY <1>5, <1>6

LEMMA OthersSettle ==
  ASSUME GdprInv, [Next]_vars, NEW f \in quiet, pc[f] \in Going,
         ~\E g \in Officers : Erase(g),
         ~(Begin(f) \/ Count(f) \/ Find(f))
  PROVE  Settled(f)'
<1>1. /\ \A t \in Range(Tables) : Of(t, Subject)' = Of(t, Subject)
      /\ f \in Officers
  BY SubjectRows DEF GdprInv, QuietInv, OfficerType
<1>2. UNCHANGED order /\ i'[f] = i[f] /\ found'[f] = found[f]
  BY <1>1, OfficerFrame DEF GdprInv
<1>3. Seen(f)' = Seen(f) /\ Seen(f) \subseteq Range(Tables) /\ Settled(f)
  BY <1>2, SeenIsTables DEF Seen, GdprInv, SettledInv
<1>4. CASE order[f] = "forget"
  <2>1. \A t \in Seen(f) : Clean(t)'
    BY <1>1, <1>3, <1>4 DEF Clean, Settled
  <2> QED BY <1>2, <1>3, <1>4, <2>1 DEF Settled
<1>5. CASE order[f] # "forget"
  <2>1. Reported(f)
    BY <1>3, <1>5 DEF Settled
  <2>2. Reported(f)'
    BY <1>1, <1>2, <1>3, <2>1 DEF Reported
  <2> QED BY <1>2, <1>5, <2>2 DEF Settled
<1> QED BY <1>4, <1>5

LEMMA SettledStep ==
  ASSUME GdprInv, [Next]_vars, NEW f \in quiet, f \in quiet', pc[f] \in Going
  PROVE  Settled(f)'
<1>1. CASE \E g \in Officers : Erase(g)
  <2>1. PICK g \in Officers : Erase(g)
    BY <1>1
  <2>2. order[f] = "forget"
    BY <2>1 DEF Erase, GdprInv, OfficerType
  <2> QED BY <2>1, <2>2, EraseSettles
<1>2. CASE Count(f) \/ Find(f)
  BY <1>2, LookSettles
<1>3. ~Begin(f)
  BY DEF Begin, Going
<1> QED BY <1>1, <1>2, <1>3, OthersSettle

LEMMA SettledInductive ==
  ASSUME GdprInv, [Next]_vars
  PROVE  SettledInv'
<1> SUFFICES ASSUME NEW f \in quiet', pc'[f] \in Going
             PROVE  Settled(f)'
  BY DEF SettledInv
<1>1. f \in Officers
  BY QuietFrame DEF GdprInv
<1>2. CASE Begin(f)
  <2> DEFINE first == IF order[f] = "export" THEN 1 ELSE Len(Tables)
  <2>1. i' = [i EXCEPT ![f] = first] /\ found' = [found EXCEPT ![f] = {}]
        /\ UNCHANGED order
    BY <1>2 DEF Begin
  <2>2. i'[f] = first /\ found'[f] = {}
    BY <1>1, <2>1 DEF GdprInv, OfficerType
  <2>3. DOMAIN Tables = 1..Len(Tables) /\ Len(Tables) \in Nat
    <3>1. Tables \in Seq({"conversations", "chat_messages"})
      BY ErasureAssumption
    <3> QED BY <3>1
  <2>4. Seen(f)' = {}
    BY <2>1, <2>2, <2>3 DEF Seen
  <2> QED BY <2>2, <2>4 DEF Settled, Reported
<1>3. CASE ~Begin(f)
  <2>1. f \in quiet
    BY <1>3, QuietFrame DEF GdprInv
  <2>2. pc[f] \in Going
    <3>1. CASE Count(f) \/ Erase(f) \/ Find(f)
      BY <3>1 DEF Count, Erase, Find, Call, Going
    <3>2. CASE ~(Count(f) \/ Erase(f) \/ Find(f))
      BY <3>2, <1>1, <1>3, OfficersApart DEF GdprInv, Going
    <3> QED BY <3>1, <3>2
  <2> QED BY <2>1, <2>2, SettledStep
<1> QED BY <1>2, <1>3

LEMMA GdprInductive == GdprInv /\ [Next]_vars => GdprInv'
BY MemoryTypeInductive, OwnerInductive, OfficerInductive, QuietInductive, SettledInductive
DEF GdprInv

LEMMA GdprInit == Init => GdprInv
<1> SUFFICES ASSUME Init PROVE GdprInv
  OBVIOUS
<1> DEFINE id   == SetToSeq(Users)
           past == [n \in DOMAIN id |-> Past(n, id[n])]
           said == UNION {Said(n, id[n]) : n \in DOMAIN id}
<1>1. /\ pc = [p \in Procs |-> "idle"] /\ i = [f \in Officers |-> 0]
      /\ found = [f \in Officers |-> {}] /\ quiet = Officers
      /\ order \in [Officers -> {"forget", "dry run", "export"}]
  BY Zenon DEF Init
<1>2. MemoryType
  BY MemoryInit DEF MemoryInv
<1>3. OfficerType /\ QuietInv /\ SettledInv
  <2>1. \A f \in Officers : pc[f] = "idle"
    BY <1>1 DEF Procs
  <2>2. i \in [Officers -> Int]
    <3>1. i = [f \in Officers |-> 0]
      BY <1>1
    <3> QED BY <3>1
  <2>3. found \in [Officers -> SUBSET (Range(Tables) \X Rows)]
    <3>1. found = [f \in Officers |-> {}]
      BY <1>1
    <3> QED BY <3>1
  <2> QED BY <1>1, <2>1, <2>2, <2>3 DEF OfficerType, QuietInv, SettledInv, Going
<1>4. \/ db = [t \in Range(Tables) |-> {}] /\ lastId = 0
      \/ /\ db = [t \in Range(Tables) |->
                    IF t = "conversations" THEN Range(past) ELSE said]
         /\ lastId = Len(id)
  BY Zenon DEF Init
<1>5. \/ db["conversations"] = {}
      \/ db["conversations"] = Range(past) /\ lastId = Len(id)
  <2> HIDE DEF past, said, id
  <2>1. CASE db = [t \in Range(Tables) |-> {}]
    BY <2>1, TablesOfRag
  <2>2. CASE /\ db = [t \in Range(Tables) |->
                       IF t = "conversations" THEN Range(past) ELSE said]
             /\ lastId = Len(id)
    BY <2>2, TablesOfRag
  <2> QED BY <1>4, <2>1, <2>2
<1>6. DOMAIN id = 1..Len(id) /\ Len(id) \in Nat
  BY PersonsInOrder
<1>7. \A r \in Range(past) : \E n \in 1..Len(id) : r.conv = n /\ r.user = id[n]
  <2> SUFFICES ASSUME NEW n \in DOMAIN id
               PROVE  Past(n, id[n]).conv = n /\ Past(n, id[n]).user = id[n]
    BY <1>6 DEF Range
  <2> QED BY DEF Past, Row
<1>8. \A r \in db["conversations"] : r.conv <= lastId /\ Owned(r.conv, r.user)
  <2> HIDE DEF past, id
  <2> QED BY <1>5, <1>6, <1>7 DEF Owned
<1>9. OwnerInv
  BY <1>1, <1>8 DEF OwnerInv, InTurn, Procs
<1> QED BY <1>2, <1>3, <1>9 DEF GdprInv

(* The tables an officer has seen when it is done are all there are.       *)
LEMMA DoneStep ==
  ASSUME GdprInv, [Next]_vars, NEW f \in Officers, pc[f] # "done", pc'[f] = "done",
         f \in quiet
  PROVE  /\ pc[f] \in Going /\ f \in quiet' /\ UNCHANGED order
         /\ Range(Tables) \subseteq Seen(f)'
<1>1. Count(f) \/ Erase(f) \/ Find(f)
  <2>1. ~Begin(f)
    BY DEF Begin, Goto, GdprInv, MemoryType, Procs
  <2> QED BY <2>1, OfficersApart DEF GdprInv
<1>2. f \in quiet'
  BY <1>1 DEF Count, Erase, Find, Call, GdprInv, OfficerType, Going
<1>3. /\ pc[f] \in Going /\ i[f] \in DOMAIN Tables /\ UNCHANGED order
      /\ \/ pc[f] \in {"count", "erase"} /\ i'[f] = i[f] - 1 /\ i[f] = 1
         \/ pc[f] = "find" /\ i'[f] = i[f] + 1 /\ i[f] = Len(Tables)
      /\ pc[f] = "find" <=> order[f] = "export"
  BY <1>1, OfficerStep DEF GdprInv, OfficerType
<1>4. DOMAIN Tables = 1..Len(Tables) /\ Len(Tables) \in Nat
  <2>1. Tables \in Seq({"conversations", "chat_messages"})
    BY ErasureAssumption
  <2> QED BY <2>1
<1>5. \A n \in DOMAIN Tables : IF order[f] = "export" THEN n < i'[f] ELSE n > i'[f]
  BY <1>3, <1>4
<1> QED BY <1>2, <1>3, <1>5 DEF Seen, Range

(* The two promises of GdprComplete, of one step.                          *)
EndsComplete ==
  \A f \in Officers : pc[f] # "done" /\ pc'[f] = "done" /\ f \in quiet =>
    \A t \in Range(Tables) :
      LET rows == {r \in db'[t] : r.user = Subject}
      IN  IF order[f] = "forget"
          THEN /\ \A r \in rows : ~Personal(r)
               /\ OnForget[t] = "delete" => rows = {}
          ELSE {x \in found'[f] : x[1] = t} = {<<t, r>> : r \in rows}

StaysGone == \A r \in db'["conversations"] : r.conv <= lastId => ById(r.conv) # {}

LEMMA GdprStep == GdprInv /\ [Next]_vars => EndsComplete /\ StaysGone
<1> SUFFICES ASSUME GdprInv, [Next]_vars PROVE EndsComplete /\ StaysGone
  OBVIOUS
<1>1. ASSUME NEW f \in Officers, pc[f] # "done", pc'[f] = "done", f \in quiet,
             NEW t \in Range(Tables)
      PROVE  LET rows == {r \in db'[t] : r.user = Subject}
             IN  IF order[f] = "forget"
                 THEN /\ \A r \in rows : ~Personal(r)
                      /\ OnForget[t] = "delete" => rows = {}
                 ELSE {x \in found'[f] : x[1] = t} = {<<t, r>> : r \in rows}
  <2> DEFINE rows == {r \in db'[t] : r.user = Subject}
  <2>1. Settled(f)' /\ t \in Seen(f)' /\ UNCHANGED order
    BY <1>1, DoneStep, SettledStep
  <2>2. CASE order[f] = "forget"
    <3>1. Clean(t)'
      BY <2>1, <2>2 DEF Settled
    <3> QED BY <2>2, <3>1 DEF Clean, Of, Personal
  <2>3. CASE order[f] # "forget"
    <3>1. Reported(f)'
      BY <2>1, <2>3 DEF Settled
    <3>2. \A r \in rows : <<t, r>> \in found'[f]
      BY <2>1, <3>1 DEF Reported, Of
    <3>3. \A x \in found'[f] : x[1] = t => \E r \in rows : x = <<t, r>>
      BY <3>1 DEF Reported, Of
    <3>4. {x \in found'[f] : x[1] = t} = {<<t, r>> : r \in rows}
      <4> HIDE DEF rows
      <4> QED BY <3>2, <3>3
    <3> QED BY <2>3, <3>4
  <2> QED BY <2>2, <2>3
<1>2. ASSUME NEW r \in db'["conversations"], r.conv <= lastId
      PROVE  ById(r.conv) # {}
  <2>1. lastId \in Nat
    BY DEF GdprInv, MemoryType
  <2>2. \E q \in db["conversations"] : q.conv = r.conv
    BY <1>2, <2>1, ConversationRows DEF GdprInv
  <2> QED BY <2>2 DEF ById
<1> QED BY <1>1, <1>2 DEF EndsComplete, StaysGone

(* When forget_subject ends (gdpr.py) and no handler of the person has     *)
(* overlapped it, no table holds personal data of theirs; an export or a   *)
(* dry run that nothing overlapped has every row; and a handler that saves *)
(* (save in datamodel.py) never brings back a conversation that is gone.   *)
THEOREM GdprIsComplete == Spec => GdprComplete
<1> QED BY GdprInit, GdprInductive, GdprStep, PTL
        DEF Spec, GdprComplete, EndsComplete, StaysGone
=============================================================================
