------------------------------ MODULE Erasure ------------------------------
(***************************************************************************)
(* Personal data in the tables of an application: `vignemale gdpr` erases  *)
(* or exports the rows of one person table by table (vignemale/gdpr.py),   *)
(* while request handlers work on the same rows.  Each call of the data    *)
(* model (vignemale/datamodel.py) is one statement of its own, preceded,   *)
(* the first time in a process, by the statements that bring the table up  *)
(* to date; nothing spans two calls.                                       *)
(*                                                                         *)
(* The handlers are those of examples/corpus/rag/conversations.py: one     *)
(* creates a conversation, one asks a question in it, which stores two     *)
(* messages and then the agent's memory of the turn.                       *)
(***************************************************************************)
EXTENDS Integers, Sequences, FiniteSets, SequencesExt

CONSTANTS
  Officers,      (* processes of `vignemale gdpr`                          *)
  Handlers,      (* requests, each in a process of its own                 *)
  Requests,      (* what they may be: functions from Handlers to           *)
                 (* [job : {"create", "ask"}, user : Users]                *)
  Users, Subject, (* people, and the one to be forgotten                   *)
  Tables,        (* the tables with a __subject__, as they are declared    *)
  OnForget,      (* __on_forget__ of each: "delete" or "anonymize"         *)
  MaxConvs,      (* bound: conversations ever created                      *)
  MaxFaults      (* bound: calls that fail                                 *)

Procs == Officers \union Handlers

ASSUME ErasureAssumption ==
  /\ Officers \intersect Handlers = {}
  /\ Requests \subseteq [Handlers -> [job : {"create", "ask"}, user : Users]]
  /\ Subject \in Users
  /\ IsFiniteSet(Users)
  /\ Tables \in Seq({"conversations", "chat_messages"})
  /\ Range(Tables) = {"conversations", "chat_messages"}
  /\ OnForget \in [Range(Tables) -> {"delete", "anonymize"}]
  /\ MaxConvs \in Nat

VARIABLES
  schema,     (* each table in Postgres: "absent", "old" or "full"         *)
  db,         (* its rows                                                  *)
  lastId,     (* of the conversations                                      *)
  ensured,    (* per process and table: "no", "created", "adding", "yes"   *)
  request,    (* of each handler; never changes                            *)
  order,      (* of each officer: "forget", "dry run" or "export"          *)
  pc,         (* the next call of each process                             *)
  i,          (* per officer: the table it is at                           *)
  found,      (* per officer: rows found, for its report                   *)
  conv,       (* per handler: the Conversation it has loaded               *)
  quiet,      (* officers whose work nobody has overlapped: no handler of  *)
              (* the subject and, for one who reads, no erasure            *)
  faults

dbVars == <<schema, db, lastId, ensured>>
vars   == <<dbVars, request, order, pc, i, found, conv, quiet, faults>>

Redacted == "[redacted]"

(* A row of either table: a conversation has all its turns, a message one. *)
Row(k, u, role, text, turns) ==
  [conv |-> k, user |-> u, role |-> role, text |-> text, turns |-> turns]

NoConv == Row(0, Subject, "", Redacted, <<>>)

Of(t, u)      == {r \in db[t] : r.user = u}
Personal(r)   == r.text # Redacted
Ended(p)      == pc[p] \in {"done", "failed"}
Running(h)    == ~Ended(h) /\ pc[h] # "idle"

(* The tables are new, or of an older version of the app, which knew one   *)
(* conversation of each person.                                            *)
Past(k, u) == Row(k, u, "", "title", <<"before">>)
Said(k, u) == {Row(k, u, role, "said", <<"before">>) : role \in {"user", "assistant"}}

Init ==
  /\ \E s \in {"absent", "old"} : schema = [t \in Range(Tables) |-> s]
  /\ LET id == SetToSeq(Users)
         past == [n \in DOMAIN id |-> Past(n, id[n])]
         said == UNION {Said(n, id[n]) : n \in DOMAIN id}
     IN  IF schema["conversations"] = "absent"
         THEN db = [t \in Range(Tables) |-> {}] /\ lastId = 0
         ELSE /\ db = [t \in Range(Tables) |->
                         IF t = "conversations" THEN Range(past) ELSE said]
              /\ lastId = Len(id)
  /\ ensured = [p \in Procs |-> [t \in Range(Tables) |-> "no"]]
  /\ request \in Requests
  /\ order \in [Officers -> {"forget", "dry run", "export"}]
  /\ pc = [p \in Procs |-> "idle"]
  /\ i = [p \in Officers |-> 0]
  /\ found = [p \in Officers |-> {}]
  /\ conv = [h \in Handlers |-> NoConv]
  /\ quiet = Officers
  /\ faults = 0

-----------------------------------------------------------------------------
(* The data model.  Wants is the table of a process's next call.           *)
Wants(p) == CASE pc[p] \in {"count", "erase", "find"} -> Tables[i[p]]
              [] pc[p] \in {"question", "answer"} -> "chat_messages"
              [] OTHER -> "conversations"
InCall(p) == pc[p] \in {"count", "erase", "find", "insert", "get", "question",
                        "answer", "save"}

Goto(p, step) == pc' = [pc EXCEPT ![p] = step]
Mark(p, how)  == ensured' = [ensured EXCEPT ![p][Wants(p)] = how]
State(p)      == ensured[p][Wants(p)]

(* A call raises SQLError, which nothing here catches: the statement has   *)
(* done nothing, or all it does but the answer is lost.                    *)
Raises(p) ==
  /\ faults < MaxFaults
  /\ faults' = faults + 1
  /\ Goto(p, "failed")

Ends(p, step) == (Goto(p, step) /\ UNCHANGED faults) \/ Raises(p)

Fails(p) ==
  /\ InCall(p)
  /\ Raises(p)
  /\ Mark(p, IF State(p) = "yes" THEN "yes" ELSE "no")
  /\ UNCHANGED <<schema, db, lastId, request, order, i, found, conv, quiet>>

(* Mutant: a table that exists is taken to have its columns.               *)
EnsureCreateOnly(p) ==
  /\ InCall(p)
  /\ State(p) = "no"
  /\ schema' = [schema EXCEPT ![Wants(p)] = IF @ = "absent" THEN "full" ELSE @]
  /\ Mark(p, "yes")
  /\ UNCHANGED <<db, lastId, request, order, pc, i, found, conv, quiet, faults>>


(* _ensure, unless this process has: CREATE TABLE IF NOT EXISTS, then the  *)
(* columns are looked up and the missing ones added.  Another process may  *)
(* have added them meanwhile, which is an error.                           *)
EnsureCreate(p) ==
  /\ InCall(p)
  /\ State(p) = "no"
  /\ schema' = [schema EXCEPT ![Wants(p)] = IF @ = "absent" THEN "full" ELSE @]
  /\ \/ Mark(p, "created") /\ UNCHANGED <<pc, faults>>
     \/ Raises(p) /\ UNCHANGED ensured
  /\ UNCHANGED <<db, lastId, request, order, i, found, conv, quiet>>

EnsureLook(p) ==
  /\ InCall(p)
  /\ State(p) = "created"
  /\ Mark(p, IF schema[Wants(p)] = "full" THEN "yes" ELSE "adding")
  /\ UNCHANGED <<schema, db, lastId, request, order, pc, i, found, conv, quiet, faults>>

EnsureAdd(p) ==
  /\ InCall(p)
  /\ State(p) = "adding"
  /\ IF schema[Wants(p)] = "old"
     THEN /\ schema' = [schema EXCEPT ![Wants(p)] = "full"]
          /\ \/ Mark(p, "yes") /\ UNCHANGED <<pc, faults>>
             \/ Raises(p) /\ Mark(p, "no")
     ELSE /\ Mark(p, "no")
          /\ Goto(p, "failed")
          /\ UNCHANGED <<schema, faults>>
  /\ UNCHANGED <<db, lastId, request, order, i, found, conv, quiet>>

Call(p, step) == pc[p] = step /\ State(p) = "yes"

(* INSERT, SELECT and UPDATE by primary key, DELETE and UPDATE by subject. *)
Insert(t, r)        == db' = [db EXCEPT ![t] = @ \union {r}]
ById(k)             == {r \in db["conversations"] : r.conv = k}
Update(k, new)      == db' = [db EXCEPT !["conversations"] =
                                (@ \ ById(k)) \union (IF ById(k) = {} THEN {} ELSE {new})]
DeleteWhere(t, u)   == db' = [db EXCEPT ![t] = @ \ Of(t, u)]
Anonymize(t, u)     == db' = [db EXCEPT ![t] = (@ \ Of(t, u)) \union
                                {[r EXCEPT !.text = Redacted] : r \in Of(t, u)}]

-----------------------------------------------------------------------------
(* forget_subject, from the last table declared to the first; a person may *)
(* be forgotten again after a failure.                                     *)
Begin(f) ==
  /\ pc[f] \in {"idle", "failed"}
  /\ i' = [i EXCEPT ![f] = IF order[f] = "export" THEN 1 ELSE Len(Tables)]
  /\ found' = [found EXCEPT ![f] = {}]
  /\ ensured' = [ensured EXCEPT ![f] = [t \in Range(Tables) |-> "no"]]
  /\ quiet' = IF \E h \in Handlers : Running(h) /\ request[h].user = Subject
              THEN quiet \ {f} ELSE quiet \union {f}
  /\ Goto(f, IF order[f] = "export" THEN "find" ELSE "count")
  /\ UNCHANGED <<schema, db, lastId, request, order, conv, faults>>

NextTable(f) ==
  /\ i' = [i EXCEPT ![f] = @ - 1]
  /\ Goto(f, IF i[f] = 1 THEN "done" ELSE "count")

(* Mutant: the tables are left at the first one without rows.              *)
CountOrStop(f) ==
  /\ Call(f, "count")
  /\ found' = [found EXCEPT ![f] = @ \union
                 {<<Wants(f), r>> : r \in Of(Wants(f), Subject)}]
  /\ IF Of(Wants(f), Subject) = {} THEN Goto(f, "done") /\ UNCHANGED i
     ELSE IF order[f] = "dry run" THEN NextTable(f)
     ELSE Goto(f, "erase") /\ UNCHANGED i
  /\ UNCHANGED <<dbVars, request, order, conv, quiet, faults>>

Count(f) ==
  /\ Call(f, "count")
  /\ found' = [found EXCEPT ![f] = @ \union
                 {<<Wants(f), r>> : r \in Of(Wants(f), Subject)}]
  /\ IF Of(Wants(f), Subject) = {} \/ order[f] = "dry run"
     THEN NextTable(f)
     ELSE Goto(f, "erase") /\ UNCHANGED i
  /\ UNCHANGED <<dbVars, request, order, conv, quiet, faults>>

Erase(f) ==
  /\ Call(f, "erase")
  /\ IF OnForget[Wants(f)] = "anonymize" THEN Anonymize(Wants(f), Subject)
                                         ELSE DeleteWhere(Wants(f), Subject)
  /\ \/ NextTable(f) /\ UNCHANGED faults
     \/ Raises(f) /\ UNCHANGED i
  /\ quiet' = quiet \ {g \in Officers : order[g] # "forget"}
  /\ UNCHANGED <<schema, lastId, ensured, request, order, found, conv>>

(* export_subject, in the order of declaration.                            *)
Find(f) ==
  /\ Call(f, "find")
  /\ found' = [found EXCEPT ![f] = @ \union
                 {<<Wants(f), r>> : r \in Of(Wants(f), Subject)}]
  /\ i' = [i EXCEPT ![f] = @ + 1]
  /\ Goto(f, IF i[f] = Len(Tables) THEN "done" ELSE "find")
  /\ UNCHANGED <<dbVars, request, order, conv, quiet, faults>>

-----------------------------------------------------------------------------
(* The handlers.                                                           *)
Arrive(h) ==
  /\ pc[h] = "idle"
  /\ Goto(h, IF request[h].job = "create" THEN "insert" ELSE "get")
  /\ quiet' = IF request[h].user = Subject THEN {} ELSE quiet
  /\ UNCHANGED <<dbVars, request, order, i, found, conv, faults>>

CreateConversation(h) ==
  /\ Call(h, "insert")
  /\ lastId < MaxConvs
  /\ lastId' = lastId + 1
  /\ Insert("conversations", Row(lastId + 1, request[h].user, "", "title", <<>>))
  /\ Ends(h, "done")
  /\ UNCHANGED <<schema, ensured, request, order, i, found, conv, quiet>>

(* owned: not found, of someone else, or loaded; then the agent runs.      *)
LoadConversation(h) ==
  /\ Call(h, "get")
  /\ \/ \E r \in db["conversations"] :
          /\ r.user = request[h].user
          /\ conv' = [conv EXCEPT ![h] = r]
          /\ Goto(h, "agent")
     \/ Goto(h, "failed") /\ UNCHANGED conv
  /\ UNCHANGED <<dbVars, request, order, i, found, quiet, faults>>

(* Mutant: the memory is saved before the messages.                        *)
RunAgentAndSave(h) ==
  /\ pc[h] = "agent"
  /\ Goto(h, "question")
  /\ Update(conv[h].conv, [conv[h] EXCEPT !.turns = Append(@, h)])
  /\ UNCHANGED <<schema, lastId, ensured, request, order, i, found, conv, quiet, faults>>

(* _run_agent, with the memory that was loaded; the model may fail.        *)
RunAgent(h) ==
  /\ pc[h] = "agent"
  /\ \/ Goto(h, "question")
     \/ Goto(h, "failed")
  /\ UNCHANGED <<dbVars, request, order, i, found, conv, quiet, faults>>

Say(h, step, role, then) ==
  /\ Call(h, step)
  /\ Insert("chat_messages", Row(conv[h].conv, request[h].user, role, "said", <<h>>))
  /\ Ends(h, then)
  /\ UNCHANGED <<schema, lastId, ensured, request, order, i, found, conv, quiet>>

StoreQuestion(h) == Say(h, "question", "user", "answer")
StoreAnswer(h)   == Say(h, "answer", "assistant", "save")

(* save: an UPDATE of every column, of no row if it is gone by now.        *)
SaveMemory(h) ==
  /\ Call(h, "save")
  /\ Update(conv[h].conv, [conv[h] EXCEPT !.turns = Append(@, h)])
  /\ Ends(h, "done")
  /\ UNCHANGED <<schema, lastId, ensured, request, order, i, found, conv, quiet>>

-----------------------------------------------------------------------------
Ensure(p) == EnsureCreate(p) \/ EnsureLook(p) \/ EnsureAdd(p)

Officer(f) == Begin(f) \/ Count(f) \/ Erase(f) \/ Find(f)
Handler(h) ==
  \/ CreateConversation(h)
  \/ LoadConversation(h) \/ RunAgent(h)
  \/ StoreQuestion(h) \/ StoreAnswer(h) \/ SaveMemory(h)

Next ==
  \/ \E p \in Procs : Ensure(p) \/ Fails(p)
  \/ \E f \in Officers : Officer(f)
  \/ \E h \in Handlers : Arrive(h) \/ Handler(h)

Spec == Init /\ [][Next]_vars

(* Processes go on, and whoever has to forget a person tries again.        *)
FairSpec ==
  /\ Spec
  /\ \A f \in Officers : WF_vars(Ensure(f) \/ Officer(f))
  /\ \A h \in Handlers : WF_vars(Ensure(h) \/ Handler(h))

-----------------------------------------------------------------------------
(* What the class flag says of the table holds: a process that has marked  *)
(* a table as ensured only queries one that has every column, whichever    *)
(* process made it so.                                                     *)
SchemaReady ==
  \A p \in Procs, t \in Range(Tables) : ensured[p][t] = "yes" => schema[t] = "full"

(* The end of a forget that no handler of the person overlapped: nothing   *)
(* personal is left, and no row where rows are to be deleted.  An export   *)
(* or a dry run that no forget overlapped either has all there is of the   *)
(* person, and a dry run erases nothing.                                   *)
(* At any time, a conversation that was deleted stays so: a handler that   *)
(* had loaded it does not bring it back.                                   *)
GdprComplete ==
  [][/\ \A f \in Officers : pc[f] # "done" /\ pc'[f] = "done" /\ f \in quiet =>
          \A t \in Range(Tables) :
            LET rows == {r \in db'[t] : r.user = Subject}
            IN  IF order[f] = "forget"
                THEN /\ \A r \in rows : ~Personal(r)
                     /\ OnForget[t] = "delete" => rows = {}
                ELSE {x \in found'[f] : x[1] = t} = {<<t, r>> : r \in rows}
     /\ \A r \in db'["conversations"] : r.conv <= lastId => ById(r.conv) # {}]_vars

(* Whoever is forgotten meanwhile, the agent remembers no turn of which    *)
(* the messages are not stored.                                            *)
MemoryBacked ==
  \A r \in db["conversations"] : \A n \in DOMAIN r.turns :
    \A role \in {"user", "assistant"} : \E m \in db["chat_messages"] :
      m.conv = r.conv /\ m.role = role /\ m.turns = <<r.turns[n]>>

=============================================================================
