----------------------------- MODULE MCErasure -----------------------------
EXTENDS Erasure

(* The tables of examples/corpus/rag, in the order of their declaration.   *)
RagTables == <<"conversations", "chat_messages">>
RagForget == [t \in Range(RagTables) |->
                IF t = "conversations" THEN "delete" ELSE "anonymize"]
TwoUsers  == {"ada", "bob"}
TwoHandlers == {"h1", "h2"}

Asks(u)    == [job |-> "ask", user |-> u]
Creates(u) == [job |-> "create", user |-> u]
Both(a, b) == [h \in TwoHandlers |-> IF h = "h1" THEN a ELSE b]
Two        == {Both(Asks("ada"), Asks("ada")), Both(Asks("ada"), Asks("bob")),
               Both(Asks("ada"), Creates("ada"))}
=============================================================================
