------------------------------- MODULE SqlTx -------------------------------
(***************************************************************************)
(* The SQL transactions of the runtime: one connection pool                *)
(* (core/src/sqldb/manager.rs), the registry of open transactions          *)
(* (core/src/sqldb/transaction.rs), the one-shot calls (client.rs) and the *)
(* Python context manager that drives them (vignemale/sqldb.py).           *)
(*                                                                         *)
(* A thread is a Python thread in user code.  It is blocked while a call   *)
(* of the binding runs, so a thread has at most one call in flight; the    *)
(* GIL is released, so the calls of different threads interleave.  A call  *)
(* takes its connection in one step and runs the SQL and gives the         *)
(* connection back in a second one: between the two it owns it alone.      *)
(*                                                                         *)
(* SQL is abstracted to what the properties tell apart: a statement reads, *)
(* takes effect or fails, and a transaction is the number of statements    *)
(* that took effect in it.                                                 *)
(***************************************************************************)
EXTENDS Integers, FiniteSets

CONSTANTS
  Threads,     (* threads that call the database                           *)
  Conns,       (* the pool's slots, one connection each: its max_size      *)
  NoConn,      (* "no connection"                                          *)
  Sharing,     (* <<t, o>>: t runs statements on the transaction o entered *)
  Catchers,    (* threads whose block catches the errors of its calls      *)
  Scripts,     (* TRUE if scripts with their own BEGIN .. COMMIT are run   *)
  MaxTx,       (* bound: transactions opened                               *)
  MaxStmts,    (* bound: statements with an effect, per transaction        *)
  MaxLosses    (* bound: connections the server or the network closes      *)

ASSUME SqlTxAssumption ==
  /\ NoConn \notin Conns
  /\ Sharing \subseteq Threads \X Threads
  /\ Catchers \subseteq Threads
  /\ Scripts \in BOOLEAN
  /\ MaxTx \in Nat
  /\ MaxStmts \in Nat
  /\ MaxLosses \in Nat

VARIABLES
  idle,        (* slots free in the pool                                   *)
  sess,        (* Postgres session of each slot                            *)
  held,        (* connection the call of a thread owns                     *)
  txs,         (* TXS: the registry, transaction id -> connection          *)
  seq,         (* TX_SEQ                                                   *)
  sdkId,       (* Transaction._id of the block a thread is in, 0 for None  *)
  op,          (* call a thread is blocked in                              *)
  arg,         (* transaction id passed to that call                       *)
  raised,      (* a call of the thread's current block raised              *)
  losses,      (* connections closed so far                                *)
  (* What the database and the callers have seen, for the properties.      *)
  tag,         (* transaction whose BEGIN opened the session's transaction *)
  ran,         (* statements that took effect, per transaction             *)
  durable,     (* of these, the ones a COMMIT made durable                 *)
  outcome      (* what leaving the block told the program                  *)

poolVars  == <<idle, sess, held>>
sdkVars   == <<sdkId, op, arg, raised>>
ghostVars == <<tag, ran, durable, outcome>>
vars      == <<idle, sess, held, txs, seq, sdkId, op, arg, raised, losses,
               tag, ran, durable, outcome>>

TxIds    == 1..MaxTx
PoolOps  == {"direct", "script", "begin"}     \* start with get_conn(pool)
EndOps   == {"commit", "rollback"}
TxOps    == {"stmt"} \union EndOps            \* start with take_tx(id)
Ops      == {"none"} \union PoolOps \union TxOps
(* "closed" is a slot without a live session: never connected, or lost.    *)
Sessions == {"closed", "clean", "open", "aborted"}
Outcomes == {"none", "live", "committed", "rolledback", "error"}

(* The block goes on after an error only if it catches it.                 *)
InBody(t) ==
  /\ op[t] = "none"
  /\ sdkId[t] = 0 \/ t \in Catchers \/ ~raised[t]

Init ==
  /\ idle = Conns
  /\ sess = [c \in Conns |-> "closed"]
  /\ held = [t \in Threads |-> NoConn]
  /\ txs = [i \in TxIds |-> NoConn]
  /\ seq = 0
  /\ sdkId = [t \in Threads |-> 0]
  /\ op = [t \in Threads |-> "none"]
  /\ arg = [t \in Threads |-> 0]
  /\ raised = [t \in Threads |-> FALSE]
  /\ losses = 0
  /\ tag = [c \in Conns |-> 0]
  /\ ran = [i \in TxIds |-> 0]
  /\ durable = [i \in TxIds |-> 0]
  /\ outcome = [i \in TxIds |-> "none"]

-----------------------------------------------------------------------------
(* Ends of a call.                                                         *)

Returns(t) ==
  /\ op' = [op EXCEPT ![t] = "none"]
  /\ arg' = [arg EXCEPT ![t] = 0]
  /\ UNCHANGED raised

Raises(t) ==
  /\ op' = [op EXCEPT ![t] = "none"]
  /\ arg' = [arg EXCEPT ![t] = 0]
  /\ raised' = [raised EXCEPT ![t] = TRUE]

(* The call's future ends and drops its connection, which goes back to the *)
(* pool as it is: RecyclingMethod::Fast resets nothing.                    *)
DropToPool(t) ==
  /\ held' = [held EXCEPT ![t] = NoConn]
  /\ idle' = idle \union {held[t]}

-----------------------------------------------------------------------------
(* One-shot calls and the pool.                                            *)

(* query, execute, prepare or an ORM operation, in or out of a block.      *)
CallDirect(t) ==
  /\ InBody(t)
  /\ op' = [op EXCEPT ![t] = "direct"]
  /\ UNCHANGED <<poolVars, txs, seq, sdkId, arg, raised, losses, ghostVars>>

(* batch() of a script "BEGIN; ...; COMMIT;", what migrate() sends.        *)
CallScript(t) ==
  /\ Scripts
  /\ InBody(t)
  /\ op' = [op EXCEPT ![t] = "script"]
  /\ UNCHANGED <<poolVars, txs, seq, sdkId, arg, raised, losses, ghostVars>>

(* Transaction.__enter__, up to the call of sqldb_begin.                   *)
Enter(t) ==
  /\ op[t] = "none"
  /\ sdkId[t] = 0
  /\ seq + Cardinality({u \in Threads : op[u] = "begin"}) < MaxTx
  /\ op' = [op EXCEPT ![t] = "begin"]
  /\ raised' = [raised EXCEPT ![t] = FALSE]
  /\ UNCHANGED <<poolVars, txs, seq, sdkId, arg, losses, ghostVars>>

Waiting(t) == op[t] \in PoolOps /\ held[t] = NoConn

(* pool.get: a live free connection is lent as it is; without one, a free  *)
(* slot is (re)connected.                                                  *)
Acquire(t) ==
  /\ Waiting(t)
  /\ \E c \in idle :
       /\ \/ sess[c] # "closed" /\ UNCHANGED sess
          \/ /\ \A d \in idle : sess[d] = "closed"
             /\ sess' = [sess EXCEPT ![c] = "clean"]
       /\ idle' = idle \ {c}
       /\ held' = [held EXCEPT ![t] = c]
  /\ UNCHANGED <<txs, seq, sdkVars, losses, ghostVars>>

(* Mutant: no wait_timeout, only connections that cannot be made fail.      *)
AcquireFailsOnCreate(t) ==
  /\ Waiting(t)
  /\ idle # {}
  /\ \A d \in idle : sess[d] = "closed"
  /\ Raises(t)
  /\ UNCHANGED <<poolVars, txs, seq, sdkId, losses, ghostVars>>

(* pool.get fails: wait_timeout on a saturated pool, or the connection     *)
(* that had to be created was refused or took longer than create_timeout.  *)
AcquireFails(t) ==
  /\ Waiting(t)
  /\ \A d \in idle : sess[d] = "closed"
  /\ Raises(t)
  /\ UNCHANGED <<poolVars, txs, seq, sdkId, losses, ghostVars>>

(* The statement of a one-shot call, and the drop of its connection.  It   *)
(* is its own transaction, so its effect and its errors stay outside the   *)
(* model; in an aborted session it always fails.                           *)
RunDirect(t) ==
  /\ op[t] = "direct"
  /\ held[t] # NoConn
  /\ \/ sess[held[t]] = "clean" /\ Returns(t)
     \/ Raises(t)
  /\ DropToPool(t)
  /\ UNCHANGED <<sess, txs, seq, sdkId, losses, ghostVars>>

(* The simple protocol stops at the first error.  After the script's BEGIN *)
(* the session is then in an aborted transaction, and nothing ends it.     *)
RunScript(t) ==
  /\ op[t] = "script"
  /\ held[t] # NoConn
  /\ \/ sess[held[t]] = "clean" /\ Returns(t) /\ UNCHANGED sess
     \/ /\ sess[held[t]] = "clean"
        /\ Raises(t)
        /\ sess' = [sess EXCEPT ![held[t]] = "aborted"]
     \/ sess[held[t]] # "clean" /\ Raises(t) /\ UNCHANGED sess
  /\ DropToPool(t)
  /\ UNCHANGED <<txs, seq, sdkId, losses, ghostVars>>

-----------------------------------------------------------------------------
(* Transactions.                                                           *)

NextId == seq + 1

(* tx_begin after get_conn, and the end of __enter__.                      *)
RunBegin(t) ==
  /\ op[t] = "begin"
  /\ held[t] # NoConn
  /\ sess[held[t]] = "clean"
  /\ seq < MaxTx
  /\ LET c == held[t]
         i == NextId
     IN  /\ sess' = [sess EXCEPT ![c] = "open"]
         /\ tag' = [tag EXCEPT ![c] = i]
         /\ seq' = seq + 1
         /\ txs' = [txs EXCEPT ![i] = c]
         /\ sdkId' = [sdkId EXCEPT ![t] = i]
         /\ outcome' = [outcome EXCEPT ![i] = "live"]
  /\ held' = [held EXCEPT ![t] = NoConn]
  /\ Returns(t)
  /\ UNCHANGED <<idle, losses, ran, durable>>

(* Mutant: the error path detaches the connection from the pool.           *)
BeginFailsDetached(t) ==
  /\ op[t] = "begin"
  /\ held[t] # NoConn
  /\ sess[held[t]] # "clean"
  /\ Raises(t)
  /\ held' = [held EXCEPT ![t] = NoConn]
  /\ UNCHANGED <<idle, sess, txs, seq, sdkId, losses, ghostVars>>

(* BEGIN fails: the connection was lent aborted or has been lost since.    *)
BeginFails(t) ==
  /\ op[t] = "begin"
  /\ held[t] # NoConn
  /\ sess[held[t]] # "clean"
  /\ Raises(t)
  /\ DropToPool(t)
  /\ UNCHANGED <<sess, txs, seq, sdkId, losses, ghostVars>>

(* Transaction.query or .execute of the block of o: reads o's _id.  (None  *)
(* is refused by the binding and changes nothing.)                         *)
CallStmt(t, o) ==
  /\ InBody(t)
  /\ t = o \/ <<t, o>> \in Sharing
  /\ sdkId[o] # 0
  /\ op' = [op EXCEPT ![t] = "stmt"]
  /\ arg' = [arg EXCEPT ![t] = sdkId[o]]
  /\ UNCHANGED <<poolVars, txs, seq, sdkId, raised, losses, ghostVars>>

(* Transaction.__exit__, up to the call of sqldb_tx_commit or _rollback.   *)
CallCommit(t) ==
  /\ InBody(t)
  /\ sdkId[t] # 0
  /\ op' = [op EXCEPT ![t] = "commit"]
  /\ arg' = [arg EXCEPT ![t] = sdkId[t]]
  /\ UNCHANGED <<poolVars, txs, seq, sdkId, raised, losses, ghostVars>>

CallRollback(t) ==
  /\ op[t] = "none"
  /\ sdkId[t] # 0
  /\ op' = [op EXCEPT ![t] = "rollback"]
  /\ arg' = [arg EXCEPT ![t] = sdkId[t]]
  /\ UNCHANGED <<poolVars, txs, seq, sdkId, raised, losses, ghostVars>>

(* Mutant: looks the connection up without taking it out of the registry.  *)
TakeTxLeft(t) ==
  /\ op[t] \in TxOps
  /\ held[t] = NoConn
  /\ txs[arg[t]] # NoConn
  /\ held' = [held EXCEPT ![t] = txs[arg[t]]]
  /\ UNCHANGED <<idle, sess, txs, seq, sdkVars, losses, ghostVars>>

(* take_tx finds the transaction: its connection leaves the registry.      *)
TakeTx(t) ==
  /\ op[t] \in TxOps
  /\ held[t] = NoConn
  /\ txs[arg[t]] # NoConn
  /\ held' = [held EXCEPT ![t] = txs[arg[t]]]
  /\ txs' = [txs EXCEPT ![arg[t]] = NoConn]
  /\ UNCHANGED <<idle, sess, seq, sdkVars, losses, ghostVars>>

(* take_tx finds nothing: finished already, or out with another call.  A   *)
(* block that ends this way forgets the id all the same (finally).         *)
TakeTxFails(t) ==
  /\ op[t] \in TxOps
  /\ held[t] = NoConn
  /\ txs[arg[t]] = NoConn
  /\ \/ /\ op[t] = "stmt"
        /\ UNCHANGED <<sdkId, outcome>>
     \/ /\ op[t] \in EndOps
        /\ sdkId' = [sdkId EXCEPT ![t] = 0]
        /\ outcome' = [outcome EXCEPT ![arg[t]] = "error"]
  /\ Raises(t)
  /\ UNCHANGED <<poolVars, txs, seq, losses, tag, ran, durable>>

(* with_tx after take_tx: the statement, then the connection goes back to  *)
(* the registry whatever the statement did.                                *)
RunStmt(t) ==
  /\ op[t] = "stmt"
  /\ held[t] # NoConn
  /\ LET c == held[t]
         i == arg[t]
     IN  /\ \/ \* a SELECT, or an error that never reached the server
               /\ sess[c] = "open"
               /\ Returns(t)
               /\ UNCHANGED <<sess, ran>>
            \/ /\ sess[c] = "open"
               /\ ran[i] < MaxStmts
               /\ ran' = [ran EXCEPT ![i] = @ + 1]
               /\ Returns(t)
               /\ UNCHANGED sess
            \/ /\ sess[c] = "open"
               /\ sess' = [sess EXCEPT ![c] = "aborted"]
               /\ Raises(t)
               /\ UNCHANGED ran
            \/ /\ sess[c] # "open"
               /\ Raises(t)
               /\ UNCHANGED <<sess, ran>>
         /\ txs' = [txs EXCEPT ![i] = c]
  /\ held' = [held EXCEPT ![t] = NoConn]
  /\ UNCHANGED <<idle, seq, sdkId, losses, tag, durable, outcome>>

(* Mutant: COMMIT and ROLLBACK go through with_tx, which puts the          *)
(* connection back in the registry.                                        *)
EndBlockReinserts(t, told) ==
  /\ sdkId' = [sdkId EXCEPT ![t] = 0]
  /\ outcome' = [outcome EXCEPT ![arg[t]] = told]
  /\ IF told = "error" THEN Raises(t) ELSE Returns(t)
  /\ DropToPool(t)
  /\ tag' = [tag EXCEPT ![held[t]] = 0]
  /\ txs' = [txs EXCEPT ![arg[t]] = held[t]]
  /\ UNCHANGED <<seq, ran>>

(* Mutant: swallows the error of COMMIT as it does that of ROLLBACK.       *)
EndBlockQuiet(t, told) ==
  /\ sdkId' = [sdkId EXCEPT ![t] = 0]
  /\ outcome' = [outcome EXCEPT ![arg[t]] =
                   IF told = "error" THEN "committed" ELSE told]
  /\ Returns(t)
  /\ DropToPool(t)
  /\ tag' = [tag EXCEPT ![held[t]] = 0]
  /\ UNCHANGED <<txs, seq, ran>>

(* tx_finish after take_tx and the end of __exit__: how the block ends.    *)
EndBlock(t, told) ==
  /\ sdkId' = [sdkId EXCEPT ![t] = 0]
  /\ outcome' = [outcome EXCEPT ![arg[t]] = told]
  /\ IF told = "error" THEN Raises(t) ELSE Returns(t)
  /\ DropToPool(t)
  /\ tag' = [tag EXCEPT ![held[t]] = 0]
  /\ UNCHANGED <<txs, seq, ran>>

(* COMMIT.  In an aborted transaction the server answers it with a         *)
(* rollback and no error, which batch_execute reports as success.          *)
RunCommit(t) ==
  /\ op[t] = "commit"
  /\ held[t] # NoConn
  /\ LET c == held[t]
         i == arg[t]
     IN  \/ /\ sess[c] = "open"
            /\ durable' = [durable EXCEPT ![i] = ran[i]]
            /\ sess' = [sess EXCEPT ![c] = "clean"]
            /\ EndBlock(t, "committed")
            /\ UNCHANGED losses
         \/ /\ sess[c] = "aborted"
            /\ sess' = [sess EXCEPT ![c] = "clean"]
            /\ EndBlock(t, "committed")
            /\ UNCHANGED <<durable, losses>>
         \/ \* refused at COMMIT (a deferred constraint): rolled back
            /\ sess[c] = "open"
            /\ sess' = [sess EXCEPT ![c] = "clean"]
            /\ EndBlock(t, "error")
            /\ UNCHANGED <<durable, losses>>
         \/ \* the connection is lost before the answer: done or not
            /\ sess[c] = "open"
            /\ losses < MaxLosses
            /\ losses' = losses + 1
            /\ \E n \in {0, ran[i]} : durable' = [durable EXCEPT ![i] = n]
            /\ sess' = [sess EXCEPT ![c] = "closed"]
            /\ EndBlock(t, "error")
         \/ /\ sess[c] = "closed"
            /\ EndBlock(t, "error")
            /\ UNCHANGED <<sess, durable, losses>>

(* Mutant: leaves the rollback to the drop of the connection.              *)
RunRollbackByDrop(t) ==
  /\ op[t] = "rollback"
  /\ held[t] # NoConn
  /\ EndBlock(t, "rolledback")
  /\ UNCHANGED <<sess, durable, losses>>

(* Mutant: sends no ROLLBACK after a failed statement.                     *)
RunRollbackUnlessFailed(t) ==
  /\ op[t] = "rollback"
  /\ held[t] # NoConn
  /\ sess' = [sess EXCEPT ![held[t]] = IF @ = "open" THEN "clean" ELSE @]
  /\ EndBlock(t, "rolledback")
  /\ UNCHANGED <<durable, losses>>

(* Mutant: __exit__ commits on an exception too.                           *)
RunRollbackCommits(t) ==
  /\ op[t] = "rollback"
  /\ held[t] # NoConn
  /\ durable' = [durable EXCEPT ![arg[t]] =
                   IF sess[held[t]] = "open" THEN ran[arg[t]] ELSE @]
  /\ sess' = [sess EXCEPT ![held[t]] = IF @ = "closed" THEN @ ELSE "clean"]
  /\ EndBlock(t, "rolledback")
  /\ UNCHANGED losses

(* ROLLBACK; its own error is swallowed, the block's exception goes on.    *)
RunRollback(t) ==
  /\ op[t] = "rollback"
  /\ held[t] # NoConn
  /\ sess' = [sess EXCEPT ![held[t]] = IF @ = "closed" THEN @ ELSE "clean"]
  /\ EndBlock(t, "rolledback")
  /\ UNCHANGED <<durable, losses>>

(* The server or the network closes a connection, wherever it is.  What it *)
(* had not committed is rolled back.                                       *)
Lose(c) ==
  /\ losses < MaxLosses
  /\ sess[c] # "closed"
  /\ losses' = losses + 1
  /\ sess' = [sess EXCEPT ![c] = "closed"]
  /\ UNCHANGED <<idle, held, txs, seq, sdkVars, ghostVars>>

-----------------------------------------------------------------------------
(* What a thread decides to call, and the steps of a call it is blocked in.*)
Calls(t) ==
  \/ CallDirect(t)
  \/ CallScript(t)
  \/ Enter(t)
  \/ \E o \in Threads : CallStmt(t, o)
  \/ CallCommit(t)
  \/ CallRollback(t)

Progress(t) ==
  \/ Acquire(t)
  \/ AcquireFails(t)
  \/ RunDirect(t)
  \/ RunScript(t)
  \/ RunBegin(t)
  \/ BeginFails(t)
  \/ TakeTx(t)
  \/ TakeTxFails(t)
  \/ RunStmt(t)
  \/ RunCommit(t)
  \/ RunRollback(t)

Next ==
  \/ \E t \in Threads : Calls(t) \/ Progress(t)
  \/ \E c \in Conns : Lose(c)

Spec == Init /\ [][Next]_vars

(* A call in flight is driven by the tokio runtime and the server answers  *)
(* every statement: each thread's call steps are weakly fair.  Nothing is  *)
(* assumed of user code, of which calls it makes, or of losses.            *)
Fairness == \A t \in Threads : WF_vars(Progress(t))

FairSpec == Spec /\ Fairness
-----------------------------------------------------------------------------
(* Safety.                                                                 *)

TypeOK ==
  /\ idle \in SUBSET Conns
  /\ sess \in [Conns -> Sessions]
  /\ held \in [Threads -> Conns \union {NoConn}]
  /\ txs \in [TxIds -> Conns \union {NoConn}]
  /\ seq \in 0..MaxTx
  /\ sdkId \in [Threads -> 0..MaxTx]
  /\ op \in [Threads -> Ops]
  /\ arg \in [Threads -> 0..MaxTx]
  /\ \A t \in Threads : op[t] \in TxOps <=> arg[t] # 0
  /\ raised \in [Threads -> BOOLEAN]
  /\ losses \in 0..MaxLosses
  /\ tag \in [Conns -> 0..MaxTx]
  /\ ran \in [TxIds -> Nat]
  /\ durable \in [TxIds -> Nat]
  /\ outcome \in [TxIds -> Outcomes]

(* A connection has one owner: it is free in the pool, lent to one call,   *)
(* or parked in the registry under one id.  take_tx removes it, so a call  *)
(* that races another one on the same transaction never gets it too.       *)
HeldOnce ==
  \A t, u \in Threads : held[t] # NoConn /\ held[t] = held[u] => t = u

ParkedOnce ==
  \A i, j \in TxIds : txs[i] # NoConn /\ txs[i] = txs[j] => i = j

ConnOwnedOnce ==
  /\ HeldOnce
  /\ ParkedOnce
  /\ \A t \in Threads : held[t] \notin idle
  /\ \A i \in TxIds : txs[i] \notin idle
  /\ \A t \in Threads, i \in TxIds : held[t] # NoConn => held[t] # txs[i]

(* No slot of the pool vanishes: every one has an owner.                   *)
NoSlotLost ==
  \A c \in Conns :
    \/ c \in idle
    \/ \E t \in Threads : held[t] = c
    \/ \E i \in TxIds : txs[i] = c

(* A call given a transaction id only ever works on the connection of that *)
(* very transaction, even with an id read before the transaction ended.    *)
TxConfined ==
  /\ \A i \in TxIds : txs[i] # NoConn => tag[txs[i]] = i
  /\ \A t \in Threads :
       op[t] \in TxOps /\ held[t] # NoConn => tag[held[t]] = arg[t]

(* The pool never lends a connection on which somebody's transaction is    *)
(* open: what one-shot calls write is never at the mercy of its end.       *)
NeverLendsOpenTx ==
  \A c \in Conns :
    (\/ c \in idle
     \/ \E t \in Threads : op[t] \in PoolOps /\ held[t] = c) => sess[c] # "open"

(* All or nothing: what a transaction made durable is nothing, or all that *)
(* took effect in it; and nothing before its end, or if it rolled back.    *)
Atomic ==
  \A i \in TxIds :
    /\ durable[i] \in {0, ran[i]}
    /\ outcome[i] \in {"none", "live", "rolledback"} => durable[i] = 0

(* Leaving the block without an exception means its writes are durable     *)
(* (sqldb.py: "COMMIT on normal exit").                                    *)
CommitMeansDurable ==
  \A i \in TxIds : outcome[i] = "committed" => durable[i] = ran[i]

(* A connection returns to the pool with its transaction over (sqldb.py:   *)
(* "if the migration fails, nothing is marked as applied (rollback)").     *)
IdleConnsClean == \A c \in idle : sess[c] \in {"clean", "closed"}

(* The registry only keeps the connections of transactions whose block is  *)
(* still open (transaction.rs: "a terminal COMMIT/ROLLBACK returns the     *)
(* connection").                                                           *)
TerminalReturnsConn ==
  \A i \in TxIds : txs[i] # NoConn => \E t \in Threads : sdkId[t] = i

-----------------------------------------------------------------------------
(* Liveness.                                                               *)

(* Every call into the database returns or raises, even when every         *)
(* connection is held by blocks that wait for one more connection.         *)
CallsReturn == \A t \in Threads : op[t] # "none" ~> op[t] = "none"

-----------------------------------------------------------------------------
(* What a transaction promises, whatever connection serves it.             *)

TxState(i) ==
  IF i > seq THEN "new"
  ELSE IF \E c \in Conns : tag[c] = i /\ sess[c] = "open" THEN "live"
  ELSE IF \E c \in Conns : tag[c] = i THEN "failed"
  ELSE "over"

Told(i) == IF outcome[i] = "live" THEN "none" ELSE outcome[i]

Abstract == INSTANCE AtomicTx WITH
  Ids   <- TxIds,
  state <- [i \in TxIds |-> TxState(i)],
  told  <- [i \in TxIds |-> Told(i)]

(* The runtime's transactions are atomic transactions.                     *)
ImplementsAtomicTx == Abstract!Spec
=============================================================================
