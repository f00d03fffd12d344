---------------------------- MODULE SqlTxProofs ----------------------------
(***************************************************************************)
(* What SqlTx promises for any number of threads, connections,             *)
(* transactions and losses: first to any code, then (Disciplined) to code  *)
(* that uses transactions with some discipline.                            *)
(*                                                                         *)
(* The safety properties are not inductive one by one: that a parked       *)
(* connection is never overwritten needs that no two connections carry the *)
(* same transaction, which needs that ids are never reused, and so on.     *)
(* IInv is their conjunction with the parts that tie them together.        *)
(***************************************************************************)
EXTENDS SqlTx, TLAPS

(* A connection is owned by a call only while its thread is in the call.   *)
HeldInCall == \A t \in Threads : op[t] = "none" => held[t] = NoConn

(* Ids are handed out in order: nothing exists yet of those above seq.     *)
IdsInOrder ==
  /\ \A t \in Threads : sdkId[t] <= seq /\ arg[t] <= seq
  /\ \A c \in Conns : tag[c] <= seq
  /\ \A i \in TxIds : i > seq =>
       txs[i] = NoConn /\ ran[i] = 0 /\ durable[i] = 0

(* No two connections carry the same transaction.                          *)
TagOnce == \A c, d \in Conns : tag[c] # 0 /\ tag[c] = tag[d] => c = d

(* A transaction whose writes are durable has no connection any more.      *)
DurableIsOver == \A c \in Conns : tag[c] # 0 => durable[tag[c]] = 0

IInv ==
  /\ TypeOK
  /\ HeldInCall
  /\ IdsInOrder
  /\ TagOnce
  /\ DurableIsOver
  /\ ConnOwnedOnce
  /\ NoSlotLost
  /\ TxConfined
  /\ NeverLendsOpenTx
  /\ Atomic

-----------------------------------------------------------------------------

(* A call that works on a transaction has the id of one.                   *)
LEMMA ArgIsTxId ==
  ASSUME TypeOK, NEW t \in Threads, op[t] \in TxOps
  PROVE  arg[t] \in TxIds
BY DEF TypeOK, TxIds

LEMMA InitIInv == Init => IInv
<1> SUFFICES ASSUME Init PROVE IInv
  OBVIOUS
<1>1. TypeOK
  BY SqlTxAssumption DEF Init, TypeOK, TxIds, Ops, PoolOps, TxOps, EndOps, Sessions, Outcomes
<1>2. HeldInCall /\ IdsInOrder /\ TagOnce /\ DurableIsOver
  BY SqlTxAssumption DEF Init, HeldInCall, IdsInOrder, TagOnce, DurableIsOver, TxIds
<1>3. ConnOwnedOnce /\ NoSlotLost
  BY SqlTxAssumption DEF Init, ConnOwnedOnce, HeldOnce, ParkedOnce, NoSlotLost, TxIds
<1>4. TxConfined /\ NeverLendsOpenTx /\ Atomic
  BY SqlTxAssumption DEF Init, TxConfined, NeverLendsOpenTx, Atomic, PoolOps, TxIds
<1> QED
  BY <1>1, <1>2, <1>3, <1>4 DEF IInv

-----------------------------------------------------------------------------
(* Making a call moves no connection.                                      *)
LEMMA CallsKeep ==
  ASSUME IInv, NEW t \in Threads, Calls(t)
  PROVE  IInv'
<1>1. /\ op[t] = "none"
      /\ UNCHANGED <<idle, sess, held, txs, seq, sdkId, losses, tag, ran, durable, outcome>>
  BY DEF Calls, CallDirect, CallScript, Enter, CallStmt, CallCommit, CallRollback,
         InBody, poolVars, ghostVars
<1>2. PICK o \in Ops \ {"none"}, i \in 0..MaxTx :
        /\ op' = [op EXCEPT ![t] = o]
        /\ arg' = [arg EXCEPT ![t] = i]
        /\ o \in TxOps <=> i # 0
        /\ i <= seq
  <2>1. CASE CallDirect(t) \/ CallScript(t) \/ Enter(t)
    <3>1. arg[t] = 0 /\ arg' = [arg EXCEPT ![t] = 0]
      BY <1>1, <2>1 DEF IInv, TypeOK, TxOps, EndOps, CallDirect, CallScript, Enter
    <3>2. \E o \in PoolOps : op' = [op EXCEPT ![t] = o]
      BY <2>1 DEF CallDirect, CallScript, Enter, PoolOps
    <3>3. 0 \in 0..MaxTx /\ 0 <= seq
      BY SqlTxAssumption DEF IInv, TypeOK
    <3>4. \A o \in PoolOps : o \in Ops \ {"none"} /\ o \notin TxOps
      BY DEF Ops, PoolOps, TxOps, EndOps
    <3> QED
      BY <3>1, <3>2, <3>3, <3>4
  <2>2. ASSUME NEW u \in Threads, CallStmt(t, u)
        PROVE  \E i \in 0..MaxTx : /\ op' = [op EXCEPT ![t] = "stmt"]
                                   /\ arg' = [arg EXCEPT ![t] = i]
                                   /\ i # 0 /\ i <= seq
    BY <2>2 DEF IInv, TypeOK, IdsInOrder, CallStmt
  <2>3. CASE CallCommit(t) \/ CallRollback(t)
    <3>1. \E o \in EndOps : op' = [op EXCEPT ![t] = o]
      BY <2>3 DEF CallCommit, CallRollback, EndOps
    <3>2. sdkId[t] \in 0..MaxTx /\ sdkId[t] # 0 /\ sdkId[t] <= seq
      BY <2>3 DEF IInv, TypeOK, IdsInOrder, CallCommit, CallRollback
    <3>3. arg' = [arg EXCEPT ![t] = sdkId[t]]
      BY <2>3 DEF CallCommit, CallRollback
    <3> QED
      BY <3>1, <3>2, <3>3 DEF Ops, TxOps, EndOps
  <2> QED
    BY <2>1, <2>2, <2>3 DEF Calls, Ops, TxOps
<1>3. held[t] = NoConn
  BY <1>1 DEF IInv, HeldInCall
<1>4. TypeOK'
  <2>1. raised' \in [Threads -> BOOLEAN]
    BY DEF IInv, TypeOK, Calls, CallDirect, CallScript, Enter, CallStmt, CallCommit, CallRollback
  <2> QED
    BY <1>1, <1>2, <2>1 DEF IInv, TypeOK, Ops
<1>5. (HeldInCall /\ IdsInOrder)'
  BY <1>1, <1>2, <1>3 DEF IInv, TypeOK, HeldInCall, IdsInOrder
<1>6. (TagOnce /\ DurableIsOver /\ ConnOwnedOnce /\ NoSlotLost /\ Atomic)'
  BY <1>1 DEF IInv, TagOnce, DurableIsOver, ConnOwnedOnce, HeldOnce, ParkedOnce,
              NoSlotLost, Atomic
<1>7. (TxConfined /\ NeverLendsOpenTx)'
  BY <1>1, <1>2, <1>3, SqlTxAssumption
  DEF IInv, TypeOK, TxConfined, NeverLendsOpenTx
<1> QED
  BY <1>4, <1>5, <1>6, <1>7 DEF IInv

-----------------------------------------------------------------------------
(* The pool.                                                               *)

LEMMA AcquireKeeps ==
  ASSUME IInv, NEW t \in Threads, Acquire(t)
  PROVE  IInv'
<1>1. PICK c \in idle :
        /\ \/ sess' = sess
           \/ sess' = [sess EXCEPT ![c] = "clean"]
        /\ idle' = idle \ {c}
        /\ held' = [held EXCEPT ![t] = c]
  BY DEF Acquire
<1>2. /\ op[t] \in PoolOps /\ held[t] = NoConn
      /\ UNCHANGED <<txs, seq, sdkId, op, arg, raised, losses, tag, ran, durable, outcome>>
  BY DEF Acquire, Waiting, sdkVars, ghostVars
<1>3. c \in Conns /\ c # NoConn
  BY SqlTxAssumption DEF IInv, TypeOK
<1>4. TypeOK'
  BY <1>1, <1>2, <1>3 DEF IInv, TypeOK, Sessions
<1>5. (HeldInCall /\ IdsInOrder /\ TagOnce /\ DurableIsOver /\ Atomic)'
  BY <1>1, <1>2
  DEF IInv, TypeOK, HeldInCall, IdsInOrder, TagOnce, DurableIsOver, Atomic, PoolOps
<1>6. ConnOwnedOnce'
  BY <1>1, <1>2, <1>3 DEF IInv, TypeOK, ConnOwnedOnce, HeldOnce, ParkedOnce
<1>7. NoSlotLost'
  <2> SUFFICES ASSUME NEW d \in Conns
               PROVE  \/ d \in idle'
                      \/ \E u \in Threads : held'[u] = d
                      \/ \E i \in TxIds : txs'[i] = d
    BY DEF NoSlotLost, TxIds
  <2>1. CASE d = c
    BY <1>1, <2>1 DEF IInv, TypeOK
  <2>2. ASSUME NEW u \in Threads, held[u] = d PROVE held'[u] = d
    BY <1>1, <1>2, <2>2, SqlTxAssumption DEF IInv, TypeOK
  <2> QED
    BY <1>1, <1>2, <2>1, <2>2 DEF IInv, NoSlotLost
<1>8. TxConfined'
  BY <1>1, <1>2, <1>3 DEF IInv, TypeOK, TxConfined, PoolOps, TxOps, EndOps
<1>9. NeverLendsOpenTx'
  BY <1>1, <1>2, <1>3 DEF IInv, TypeOK, NeverLendsOpenTx, PoolOps
<1> QED
  BY <1>4, <1>5, <1>6, <1>7, <1>8, <1>9 DEF IInv

(* A call ends without its connection: waiting for one, or refused by the  *)
(* registry.                                                               *)
LEMMA FailedCallKeeps ==
  ASSUME IInv, NEW t \in Threads, AcquireFails(t) \/ TakeTxFails(t)
  PROVE  IInv'
<1>1. /\ held[t] = NoConn
      /\ op' = [op EXCEPT ![t] = "none"]
      /\ arg' = [arg EXCEPT ![t] = 0]
      /\ raised' = [raised EXCEPT ![t] = TRUE]
      /\ UNCHANGED <<idle, sess, held, txs, seq, losses, tag, ran, durable>>
  BY DEF AcquireFails, TakeTxFails, Waiting, Raises, poolVars, ghostVars
<1>2. \/ UNCHANGED <<sdkId, outcome>>
      \/ /\ arg[t] \in TxIds
         /\ sdkId' = [sdkId EXCEPT ![t] = 0]
         /\ outcome' = [outcome EXCEPT ![arg[t]] = "error"]
  BY ArgIsTxId DEF IInv, AcquireFails, TakeTxFails, ghostVars, TxOps
<1>3. TypeOK'
  BY <1>1, <1>2, SqlTxAssumption DEF IInv, TypeOK, Ops, TxOps, EndOps, Outcomes
<1>4. (HeldInCall /\ IdsInOrder /\ TagOnce /\ DurableIsOver)'
  BY <1>1, <1>2 DEF IInv, TypeOK, HeldInCall, IdsInOrder, TagOnce, DurableIsOver
<1>5. (ConnOwnedOnce /\ NoSlotLost)'
  BY <1>1 DEF IInv, ConnOwnedOnce, HeldOnce, ParkedOnce, NoSlotLost
<1>6. (TxConfined /\ NeverLendsOpenTx)'
  BY <1>1 DEF IInv, TypeOK, TxConfined, NeverLendsOpenTx, TxOps, EndOps, PoolOps
<1>7. Atomic'
  BY <1>1, <1>2 DEF IInv, TypeOK, Atomic
<1> QED
  BY <1>3, <1>4, <1>5, <1>6, <1>7 DEF IInv

(* A call on a pooled connection ends and drops it: the session it leaves  *)
(* has no transaction open.                                                *)
LEMMA PoolCallEndKeeps ==
  ASSUME IInv, NEW t \in Threads, RunDirect(t) \/ RunScript(t) \/ BeginFails(t)
  PROVE  IInv'
<1> DEFINE c == held[t]
<1>1. /\ op[t] \in PoolOps /\ c \in Conns /\ c # NoConn
      /\ op' = [op EXCEPT ![t] = "none"]
      /\ arg' = [arg EXCEPT ![t] = 0]
      /\ raised' \in {raised, [raised EXCEPT ![t] = TRUE]}
      /\ held' = [held EXCEPT ![t] = NoConn]
      /\ idle' = idle \union {c}
      /\ UNCHANGED <<txs, seq, sdkId, losses, tag, ran, durable, outcome>>
  BY DEF IInv, TypeOK, RunDirect, RunScript, BeginFails, Returns, Raises, DropToPool,
         ghostVars, PoolOps
<1>2. sess' \in {sess, [sess EXCEPT ![c] = "aborted"]}
  BY DEF RunDirect, RunScript, BeginFails
<1>3. sess[c] # "open"
  BY <1>1 DEF IInv, NeverLendsOpenTx
<1>4. TypeOK'
  <2>1. raised' \in [Threads -> BOOLEAN]
    BY <1>1 DEF IInv, TypeOK
  <2>2. sess' \in [Conns -> Sessions]
    BY <1>1, <1>2 DEF IInv, TypeOK, Sessions
  <2>3. 0 \in 0..MaxTx
    BY SqlTxAssumption
  <2> QED
    BY <1>1, <2>1, <2>2, <2>3 DEF IInv, TypeOK, Ops, TxOps, EndOps
<1>5. (HeldInCall /\ TagOnce /\ DurableIsOver /\ Atomic)'
  BY <1>1 DEF IInv, TypeOK, HeldInCall, TagOnce, DurableIsOver, Atomic
<1>6. IdsInOrder'
  BY <1>1 DEF IInv, TypeOK, IdsInOrder
<1>7. ConnOwnedOnce'
  BY <1>1, SqlTxAssumption DEF IInv, TypeOK, ConnOwnedOnce, HeldOnce, ParkedOnce
<1>8. NoSlotLost'
  BY <1>1 DEF IInv, TypeOK, NoSlotLost
<1>9. TxConfined'
  BY <1>1 DEF IInv, TypeOK, TxConfined, TxOps, EndOps
<1>10. NeverLendsOpenTx'
  BY <1>1, <1>2, <1>3 DEF IInv, TypeOK, NeverLendsOpenTx, PoolOps
<1> QED
  BY <1>4, <1>5, <1>6, <1>7, <1>8, <1>9, <1>10 DEF IInv

-----------------------------------------------------------------------------
(* Transactions.                                                           *)

LEMMA RunBeginKeeps ==
  ASSUME IInv, NEW t \in Threads, RunBegin(t)
  PROVE  IInv'
<1> DEFINE c == held[t]
           i == seq + 1
<1>1. /\ op[t] = "begin" /\ c \in Conns /\ c # NoConn /\ i \in TxIds
      /\ sess' = [sess EXCEPT ![c] = "open"]
      /\ tag' = [tag EXCEPT ![c] = i]
      /\ seq' = i
      /\ txs' = [txs EXCEPT ![i] = c]
      /\ sdkId' = [sdkId EXCEPT ![t] = i]
      /\ outcome' = [outcome EXCEPT ![i] = "live"]
      /\ held' = [held EXCEPT ![t] = NoConn]
      /\ op' = [op EXCEPT ![t] = "none"]
      /\ arg' = [arg EXCEPT ![t] = 0]
      /\ UNCHANGED <<idle, raised, losses, ran, durable>>
  BY SqlTxAssumption DEF IInv, TypeOK, RunBegin, Returns, NextId, TxIds
<1>2. txs[i] = NoConn /\ durable[i] = 0
  BY <1>1 DEF IInv, TypeOK, IdsInOrder
<1>3. TypeOK'
  <2>1. i \in 0..MaxTx /\ 0 \in 0..MaxTx
    BY <1>1, SqlTxAssumption DEF TxIds
  <2>2. op' \in [Threads -> Ops] /\ arg' \in [Threads -> 0..MaxTx]
    BY <1>1, <2>1 DEF IInv, TypeOK, Ops
  <2>3. \A u \in Threads : op'[u] \in TxOps <=> arg'[u] # 0
    BY <1>1 DEF IInv, TypeOK, TxOps, EndOps
  <2>4. sess' \in [Conns -> Sessions] /\ outcome' \in [TxIds -> Outcomes]
    BY <1>1 DEF IInv, TypeOK, Sessions, Outcomes
  <2> QED
    BY <1>1, <2>1, <2>2, <2>3, <2>4 DEF IInv, TypeOK
<1>4. HeldInCall'
  BY <1>1 DEF IInv, TypeOK, HeldInCall
<1>5. IdsInOrder'
  BY <1>1 DEF IInv, TypeOK, IdsInOrder, TxIds
<1>6. (TagOnce /\ DurableIsOver)'
  BY <1>1, <1>2 DEF IInv, TypeOK, TagOnce, DurableIsOver, IdsInOrder
<1>7. ConnOwnedOnce'
  BY <1>1, <1>2, SqlTxAssumption DEF IInv, TypeOK, ConnOwnedOnce, HeldOnce, ParkedOnce
<1>8. NoSlotLost'
  <2> SUFFICES ASSUME NEW d \in Conns
               PROVE  \/ d \in idle'
                      \/ \E u \in Threads : held'[u] = d
                      \/ \E j \in TxIds : txs'[j] = d
    BY DEF NoSlotLost, TxIds
  <2>1. CASE d = c
    BY <1>1, <2>1 DEF IInv, TypeOK
  <2>2. ASSUME d # c, NEW u \in Threads, held[u] = d PROVE held'[u] = d
    BY <1>1, <2>2 DEF IInv, TypeOK
  <2>3. ASSUME NEW j \in TxIds, txs[j] = d PROVE txs'[j] = d
    BY <1>1, <1>2, <2>3, SqlTxAssumption DEF IInv, TypeOK
  <2> QED
    BY <1>1, <2>1, <2>2, <2>3 DEF IInv, NoSlotLost
<1>9. TxConfined'
  BY <1>1, <1>2
  DEF IInv, TypeOK, TxConfined, ConnOwnedOnce, HeldOnce, TxOps, EndOps
<1>10. NeverLendsOpenTx'
  BY <1>1 DEF IInv, TypeOK, NeverLendsOpenTx, ConnOwnedOnce, HeldOnce, PoolOps
<1>11. Atomic'
  BY <1>1, <1>2 DEF IInv, TypeOK, Atomic
<1> QED
  BY <1>3, <1>4, <1>5, <1>6, <1>7, <1>8, <1>9, <1>10, <1>11 DEF IInv

LEMMA TakeTxKeeps ==
  ASSUME IInv, NEW t \in Threads, TakeTx(t)
  PROVE  IInv'
<1> DEFINE i == arg[t]
           c == txs[i]
<1>1. /\ op[t] \in TxOps /\ held[t] = NoConn /\ i \in TxIds
      /\ c \in Conns /\ c # NoConn
      /\ held' = [held EXCEPT ![t] = c]
      /\ txs' = [txs EXCEPT ![i] = NoConn]
      /\ UNCHANGED <<idle, sess, seq, sdkId, op, arg, raised, losses,
                     tag, ran, durable, outcome>>
  BY ArgIsTxId DEF IInv, TypeOK, TakeTx, sdkVars, ghostVars
<1>2. TypeOK'
  BY <1>1 DEF IInv, TypeOK
<1>3. (HeldInCall /\ IdsInOrder /\ TagOnce /\ DurableIsOver /\ Atomic)'
  BY <1>1
  DEF IInv, TypeOK, HeldInCall, IdsInOrder, TagOnce, DurableIsOver, Atomic, TxOps, EndOps
<1>4. ConnOwnedOnce'
  <2>1. \A u \in Threads : held[u] # c
    BY <1>1 DEF IInv, ConnOwnedOnce
  <2>2. \A j \in TxIds : j # i => txs'[j] = txs[j] /\ txs[j] # c
    BY <1>1 DEF IInv, TypeOK, ConnOwnedOnce, ParkedOnce
  <2>3. txs'[i] = NoConn /\ NoConn \notin idle /\ c \notin idle
    BY <1>1, SqlTxAssumption DEF IInv, TypeOK, ConnOwnedOnce
  <2> QED
    BY <1>1, <2>1, <2>2, <2>3 DEF IInv, TypeOK, ConnOwnedOnce, HeldOnce, ParkedOnce
<1>5. NoSlotLost'
  <2> SUFFICES ASSUME NEW d \in Conns
               PROVE  \/ d \in idle'
                      \/ \E u \in Threads : held'[u] = d
                      \/ \E j \in TxIds : txs'[j] = d
    BY DEF NoSlotLost, TxIds
  <2>1. CASE d = c
    BY <1>1, <2>1 DEF IInv, TypeOK
  <2>2. ASSUME NEW u \in Threads, held[u] = d PROVE held'[u] = d
    BY <1>1, <2>2, SqlTxAssumption DEF IInv, TypeOK
  <2>3. ASSUME d # c, NEW j \in TxIds, txs[j] = d PROVE txs'[j] = d
    BY <1>1, <2>3 DEF IInv, TypeOK
  <2> QED
    BY <1>1, <2>1, <2>2, <2>3 DEF IInv, NoSlotLost
<1>6. TxConfined'
  BY <1>1 DEF IInv, TypeOK, TxConfined
<1>7. NeverLendsOpenTx'
  BY <1>1 DEF IInv, TypeOK, NeverLendsOpenTx, TxOps, EndOps, PoolOps
<1> QED
  BY <1>2, <1>3, <1>4, <1>5, <1>6, <1>7 DEF IInv

LEMMA RunStmtKeeps ==
  ASSUME IInv, NEW t \in Threads, RunStmt(t)
  PROVE  IInv'
<1> DEFINE i == arg[t]
           c == held[t]
<1>1. /\ op[t] = "stmt" /\ i \in TxIds /\ c \in Conns /\ c # NoConn
      /\ op' = [op EXCEPT ![t] = "none"]
      /\ arg' = [arg EXCEPT ![t] = 0]
      /\ txs' = [txs EXCEPT ![i] = c]
      /\ held' = [held EXCEPT ![t] = NoConn]
      /\ UNCHANGED <<idle, seq, sdkId, losses, tag, durable, outcome>>
  BY ArgIsTxId DEF IInv, TypeOK, RunStmt, Returns, Raises, TxOps
<1>2. /\ ran' \in {ran, [ran EXCEPT ![i] = @ + 1]}
      /\ sess' \in {sess, [sess EXCEPT ![c] = "aborted"]}
  BY DEF RunStmt
<1>3. raised' \in {raised, [raised EXCEPT ![t] = TRUE]}
  BY DEF RunStmt, Returns, Raises
<1>4. tag[c] = i /\ i # 0
  BY <1>1 DEF IInv, TxConfined, TxOps, TxIds
<1>5. durable[i] = 0 /\ txs[i] = NoConn /\ i <= seq
  <2>1. txs[i] # NoConn => tag[txs[i]] = tag[c] /\ txs[i] \in Conns
    BY <1>1, <1>4 DEF IInv, TypeOK, TxConfined
  <2>2. txs[i] = NoConn
    BY <1>1, <1>4, <2>1 DEF IInv, TagOnce, ConnOwnedOnce
  <2> QED
    BY <1>1, <1>4, <2>2 DEF IInv, DurableIsOver, IdsInOrder
<1>6. TypeOK'
  <2>1. raised' \in [Threads -> BOOLEAN]
    BY <1>3 DEF IInv, TypeOK
  <2>2. sess' \in [Conns -> Sessions]
    BY <1>1, <1>2 DEF IInv, TypeOK, Sessions
  <2>3. ran' \in [TxIds -> Nat]
    BY <1>1, <1>2 DEF IInv, TypeOK
  <2>4. 0 \in 0..MaxTx
    BY SqlTxAssumption
  <2> QED
    BY <1>1, <2>1, <2>2, <2>3, <2>4 DEF IInv, TypeOK, Ops, TxOps, EndOps
<1>7. (HeldInCall /\ TagOnce /\ DurableIsOver)'
  BY <1>1 DEF IInv, TypeOK, HeldInCall, TagOnce, DurableIsOver
<1>8. IdsInOrder'
  <2>1. \A j \in TxIds : j # i => txs'[j] = txs[j] /\ ran'[j] = ran[j]
    BY <1>1, <1>2 DEF IInv, TypeOK
  <2>2. ~(i > seq) /\ 0 <= seq
    BY <1>1, <1>5, SqlTxAssumption DEF IInv, TypeOK, TxIds
  <2>3. \A u \in Threads : sdkId'[u] <= seq' /\ arg'[u] <= seq'
    BY <1>1, <2>2 DEF IInv, TypeOK, IdsInOrder
  <2> QED
    BY <1>1, <2>1, <2>2, <2>3 DEF IInv, IdsInOrder
<1>9. ConnOwnedOnce'
  BY <1>1, <1>5, SqlTxAssumption DEF IInv, TypeOK, ConnOwnedOnce, HeldOnce, ParkedOnce
<1>10. NoSlotLost'
  <2> SUFFICES ASSUME NEW d \in Conns
               PROVE  \/ d \in idle'
                      \/ \E u \in Threads : held'[u] = d
                      \/ \E j \in TxIds : txs'[j] = d
    BY DEF NoSlotLost, TxIds
  <2>1. CASE d = c
    BY <1>1, <2>1 DEF IInv, TypeOK
  <2>2. ASSUME d # c, NEW u \in Threads, held[u] = d PROVE held'[u] = d
    BY <1>1, <2>2 DEF IInv, TypeOK
  <2>3. ASSUME NEW j \in TxIds, txs[j] = d PROVE txs'[j] = d
    BY <1>1, <1>5, <2>3, SqlTxAssumption DEF IInv, TypeOK
  <2> QED
    BY <1>1, <2>1, <2>2, <2>3 DEF IInv, NoSlotLost
<1>11. TxConfined'
  <2>1. \A j \in TxIds : txs'[j] = IF j = i THEN c ELSE txs[j]
    BY <1>1 DEF IInv, TypeOK
  <2>2. \A u \in Threads : op'[u] \in TxOps =>
           op[u] \in TxOps /\ held'[u] = held[u] /\ arg'[u] = arg[u]
    BY <1>1 DEF IInv, TypeOK, TxOps, EndOps
  <2> QED
    BY <1>1, <1>4, <2>1, <2>2 DEF IInv, TxConfined
<1>12. NeverLendsOpenTx'
  <2>1. \A d \in Conns : sess'[d] = "open" => sess[d] = "open"
    BY <1>1, <1>2 DEF IInv, TypeOK
  <2>2. \A u \in Threads : op'[u] \in PoolOps => op[u] \in PoolOps /\ held'[u] = held[u]
    BY <1>1 DEF IInv, TypeOK, PoolOps
  <2> QED
    BY <1>1, <2>1, <2>2 DEF IInv, NeverLendsOpenTx
<1>13. Atomic'
  <2>1. \A j \in TxIds : j # i => ran'[j] = ran[j]
    BY <1>1, <1>2 DEF IInv, TypeOK
  <2> QED
    BY <1>1, <1>5, <2>1 DEF IInv, Atomic
<1> QED
  BY <1>6, <1>7, <1>8, <1>9, <1>10, <1>11, <1>12, <1>13 DEF IInv

(* The end of a block whose connection was in the registry.                *)
LEMMA EndBlockKeeps ==
  ASSUME IInv, NEW t \in Threads, op[t] \in EndOps, held[t] # NoConn,
         NEW told \in {"committed", "rolledback", "error"},
         NEW s \in {"clean", "closed"},
         NEW n \in {0, ran[arg[t]]},
         told = "rolledback" => n = 0,
         EndBlock(t, told),
         sess' = [sess EXCEPT ![held[t]] = s],
         durable' = [durable EXCEPT ![arg[t]] = n],
         losses' \in 0..MaxLosses
  PROVE  IInv'
<1> DEFINE i == arg[t]
           c == held[t]
<1>1. /\ i \in TxIds /\ c \in Conns /\ c # NoConn
      /\ sdkId' = [sdkId EXCEPT ![t] = 0]
      /\ outcome' = [outcome EXCEPT ![i] = told]
      /\ op' = [op EXCEPT ![t] = "none"]
      /\ arg' = [arg EXCEPT ![t] = 0]
      /\ held' = [held EXCEPT ![t] = NoConn]
      /\ idle' = idle \union {c}
      /\ tag' = [tag EXCEPT ![c] = 0]
      /\ UNCHANGED <<txs, seq, ran>>
  BY ArgIsTxId DEF IInv, TypeOK, EndBlock, DropToPool, Returns, Raises, TxOps
<1>2. raised' \in {raised, [raised EXCEPT ![t] = TRUE]}
  BY DEF EndBlock, Returns, Raises
<1>3. tag[c] = i /\ i # 0 /\ i <= seq
  BY <1>1 DEF IInv, TxConfined, IdsInOrder, TxOps, TxIds
<1>4. TypeOK'
  <2>1. raised' \in [Threads -> BOOLEAN]
    BY <1>2 DEF IInv, TypeOK
  <2>2. sess' \in [Conns -> Sessions] /\ outcome' \in [TxIds -> Outcomes]
    BY <1>1 DEF IInv, TypeOK, Sessions, Outcomes
  <2>3. durable' \in [TxIds -> Nat]
    BY <1>1 DEF IInv, TypeOK
  <2>4. 0 \in 0..MaxTx
    BY SqlTxAssumption
  <2>5. \A u \in Threads : op'[u] \in TxOps <=> arg'[u] # 0
    BY <1>1 DEF IInv, TypeOK, TxOps, EndOps
  <2> QED
    BY <1>1, <2>1, <2>2, <2>3, <2>4, <2>5 DEF IInv, TypeOK, Ops
<1>5. (HeldInCall /\ TagOnce)'
  BY <1>1 DEF IInv, TypeOK, HeldInCall, TagOnce
<1>6. IdsInOrder'
  <2>1. \A j \in TxIds : j # i => durable'[j] = durable[j]
    BY <1>1 DEF IInv, TypeOK
  <2>2. ~(i > seq) /\ 0 <= seq
    BY <1>1, <1>3, SqlTxAssumption DEF IInv, TypeOK, TxIds
  <2>3. \A u \in Threads : sdkId'[u] <= seq /\ arg'[u] <= seq
    BY <1>1, <2>2 DEF IInv, TypeOK, IdsInOrder
  <2>4. \A d \in Conns : tag'[d] <= seq
    BY <1>1, <2>2 DEF IInv, TypeOK, IdsInOrder
  <2> QED
    BY <1>1, <2>1, <2>2, <2>3, <2>4 DEF IInv, IdsInOrder
<1>7. DurableIsOver'
  <2>1. \A d \in Conns : tag'[d] # 0 => tag'[d] = tag[d] /\ tag[d] # i
    BY <1>1, <1>3 DEF IInv, TypeOK, TagOnce
  <2>2. \A d \in Conns : tag[d] # 0 => tag[d] \in TxIds
    BY SqlTxAssumption DEF IInv, TypeOK, TxIds
  <2> QED
    BY <1>1, <2>1, <2>2 DEF IInv, TypeOK, DurableIsOver
<1>8. ConnOwnedOnce'
  BY <1>1, SqlTxAssumption DEF IInv, TypeOK, ConnOwnedOnce, HeldOnce, ParkedOnce
<1>9. NoSlotLost'
  BY <1>1 DEF IInv, TypeOK, NoSlotLost
<1>10. TxConfined'
  <2>1. \A j \in TxIds : txs[j] # c
    BY <1>1 DEF IInv, ConnOwnedOnce
  <2>2. \A u \in Threads : op'[u] \in TxOps =>
           /\ op[u] \in TxOps /\ held'[u] = held[u] /\ arg'[u] = arg[u]
           /\ held[u] # c
    BY <1>1 DEF IInv, TypeOK, ConnOwnedOnce, HeldOnce, TxOps, EndOps
  <2>3. \A d \in Conns : d # c => tag'[d] = tag[d]
    BY <1>1 DEF IInv, TypeOK
  <2> QED
    BY <1>1, <2>1, <2>2, <2>3 DEF IInv, TypeOK, TxConfined
<1>11. NeverLendsOpenTx'
  <2>1. \A d \in Conns : sess'[d] = "open" => sess[d] = "open" /\ d # c
    BY <1>1 DEF IInv, TypeOK
  <2>2. \A u \in Threads : op'[u] \in PoolOps => op[u] \in PoolOps /\ held'[u] = held[u]
    BY <1>1 DEF IInv, TypeOK, PoolOps
  <2> QED
    BY <1>1, <2>1, <2>2 DEF IInv, NeverLendsOpenTx
<1>12. Atomic'
  <2>1. \A j \in TxIds : durable'[j] = (IF j = i THEN n ELSE durable[j])
                         /\ outcome'[j] = (IF j = i THEN told ELSE outcome[j])
    BY <1>1 DEF IInv, TypeOK
  <2> QED
    BY <1>1, <2>1 DEF IInv, Atomic
<1> QED
  BY <1>4, <1>5, <1>6, <1>7, <1>8, <1>9, <1>10, <1>11, <1>12 DEF IInv

LEMMA RunCommitKeeps ==
  ASSUME IInv, NEW t \in Threads, RunCommit(t)
  PROVE  IInv'
<1>1. op[t] \in EndOps /\ held[t] # NoConn /\ held[t] \in Conns /\ arg[t] \in TxIds
  BY ArgIsTxId DEF IInv, TypeOK, RunCommit, EndOps, TxOps
<1>2. durable[arg[t]] = 0
  <2>1. tag[held[t]] = arg[t] /\ arg[t] # 0
    BY <1>1 DEF IInv, TxConfined, TxOps, TxIds
  <2> QED
    BY <1>1, <2>1 DEF IInv, DurableIsOver
<1>3. losses' \in 0..MaxLosses
  BY SqlTxAssumption DEF IInv, TypeOK, RunCommit
<1>4. \E told \in {"committed", "error"}, s \in {"clean", "closed"},
         n \in {0, ran[arg[t]]} :
         /\ EndBlock(t, told)
         /\ sess' = [sess EXCEPT ![held[t]] = s]
         /\ durable' = [durable EXCEPT ![arg[t]] = n]
  <2>1. durable = [durable EXCEPT ![arg[t]] = 0]
    BY <1>1, <1>2 DEF IInv, TypeOK
  <2>2. sess[held[t]] = "closed" => sess = [sess EXCEPT ![held[t]] = "closed"]
    BY <1>1 DEF IInv, TypeOK
  <2> QED
    BY <1>1, <2>1, <2>2 DEF RunCommit
<1> QED
  BY ZenonT(60), <1>1, <1>3, <1>4, EndBlockKeeps

LEMMA RunRollbackKeeps ==
  ASSUME IInv, NEW t \in Threads, RunRollback(t)
  PROVE  IInv'
<1>1. op[t] \in EndOps /\ held[t] # NoConn /\ held[t] \in Conns /\ arg[t] \in TxIds
  BY ArgIsTxId DEF IInv, TypeOK, RunRollback, EndOps, TxOps
<1>2. durable' = [durable EXCEPT ![arg[t]] = 0]
  <2>1. tag[held[t]] = arg[t] /\ arg[t] # 0
    BY <1>1 DEF IInv, TxConfined, TxOps, TxIds
  <2>2. durable[arg[t]] = 0
    BY <1>1, <2>1 DEF IInv, DurableIsOver
  <2> QED
    BY <1>1, <2>2 DEF IInv, TypeOK, RunRollback
<1>3. \E s \in {"clean", "closed"} : sess' = [sess EXCEPT ![held[t]] = s]
  BY DEF RunRollback
<1>4. EndBlock(t, "rolledback") /\ losses' \in 0..MaxLosses
  BY DEF IInv, TypeOK, RunRollback
<1> QED
  BY <1>1, <1>2, <1>3, <1>4, EndBlockKeeps

LEMMA LoseKeeps ==
  ASSUME IInv, NEW c \in Conns, Lose(c)
  PROVE  IInv'
<1>1. /\ sess' = [sess EXCEPT ![c] = "closed"]
      /\ losses < MaxLosses /\ losses' = losses + 1
      /\ UNCHANGED <<idle, held, txs, seq, sdkId, op, arg, raised, tag, ran, durable, outcome>>
  BY DEF Lose, sdkVars, ghostVars
<1>2. TypeOK'
  BY <1>1, SqlTxAssumption DEF IInv, TypeOK, Sessions
<1>3. (HeldInCall /\ IdsInOrder /\ TagOnce /\ DurableIsOver /\ ConnOwnedOnce /\ NoSlotLost)'
  BY <1>1
  DEF IInv, HeldInCall, IdsInOrder, TagOnce, DurableIsOver, ConnOwnedOnce, HeldOnce,
      ParkedOnce, NoSlotLost
<1>4. (TxConfined /\ Atomic)'
  BY <1>1 DEF IInv, TxConfined, Atomic
<1>5. NeverLendsOpenTx'
  BY <1>1 DEF IInv, TypeOK, NeverLendsOpenTx
<1> QED
  BY <1>2, <1>3, <1>4, <1>5 DEF IInv

-----------------------------------------------------------------------------

LEMMA NextIInv == IInv /\ [Next]_vars => IInv'
<1> SUFFICES ASSUME IInv, [Next]_vars PROVE IInv'
  OBVIOUS
<1>1. ASSUME NEW t \in Threads, Calls(t) PROVE IInv'
  BY <1>1, CallsKeep
<1>2. ASSUME NEW t \in Threads, Progress(t) PROVE IInv'
  BY <1>2, AcquireKeeps, FailedCallKeeps, PoolCallEndKeeps, RunBeginKeeps, TakeTxKeeps,
     RunStmtKeeps, RunCommitKeeps, RunRollbackKeeps
  DEF Progress
<1>3. ASSUME NEW c \in Conns, Lose(c) PROVE IInv'
  BY <1>3, LoseKeeps
<1>4. CASE UNCHANGED vars
  BY <1>4
  DEF vars, IInv, TypeOK, HeldInCall, IdsInOrder, TagOnce, DurableIsOver, ConnOwnedOnce,
      HeldOnce, ParkedOnce, NoSlotLost, TxConfined, NeverLendsOpenTx, Atomic
<1> QED
  BY <1>1, <1>2, <1>3, <1>4 DEF Next

LEMMA SpecIInv == Spec => []IInv
BY InitIInv, NextIInv, PTL DEF Spec

-----------------------------------------------------------------------------
(* The theorems.                                                           *)

(* Every variable keeps its type.                                          *)
THEOREM TypeCorrect == Spec => []TypeOK
<1>1. IInv => TypeOK
  BY DEF IInv
<1> QED
  BY <1>1, SpecIInv, PTL

(* A connection never has two owners: whatever calls race on the pool and  *)
(* on the registry (take_tx, with_tx, tx_finish), one of them gets it.     *)
THEOREM ConnectionsOwnedOnce == Spec => []ConnOwnedOnce
<1>1. IInv => ConnOwnedOnce
  BY DEF IInv
<1> QED
  BY <1>1, SpecIInv, PTL

(* No slot of the pool disappears: it is free, in a call or in the         *)
(* registry, after any error path.                                         *)
THEOREM SlotsConserved == Spec => []NoSlotLost
<1>1. IInv => NoSlotLost
  BY DEF IInv
<1> QED
  BY <1>1, SpecIInv, PTL

(* A statement, COMMIT or ROLLBACK given an id reaches the transaction of  *)
(* that id or none, even with an id that is no longer open.                *)
THEOREM TransactionsConfined == Spec => []TxConfined
<1>1. IInv => TxConfined
  BY DEF IInv
<1> QED
  BY <1>1, SpecIInv, PTL

(* The pool never lends a connection inside somebody's open transaction.   *)
THEOREM PoolNeverLendsOpenTx == Spec => []NeverLendsOpenTx
<1>1. IInv => NeverLendsOpenTx
  BY DEF IInv
<1> QED
  BY <1>1, SpecIInv, PTL

(* A transaction takes effect entirely or not at all, and not at all when  *)
(* its block ended by a rollback.                                          *)
THEOREM TransactionsAtomic == Spec => []Atomic
<1>1. IInv => Atomic
  BY DEF IInv
<1> QED
  BY <1>1, SpecIInv, PTL

-----------------------------------------------------------------------------
(* What SqlTx promises besides to code that uses transactions with some    *)
(* discipline: a block keeps its transaction to itself, lets the errors of *)
(* its statements through, and sends no script that opens a transaction.   *)
Disciplined ==
  /\ Sharing = {}
  /\ Catchers = {}
  /\ Scripts = FALSE

(* No script is ever sent.                                                 *)
NoScript == \A t \in Threads : op[t] # "script"

(* A call on a transaction is made by its own block, and no two blocks     *)
(* have the same transaction.                                              *)
OwnId ==
  /\ \A t \in Threads : op[t] \in TxOps => arg[t] = sdkId[t]
  /\ \A t, u \in Threads : sdkId[t] # 0 /\ sdkId[t] = sdkId[u] => t = u

(* A block is entered by a thread that is in none.                         *)
BeginsOutside == \A t \in Threads : op[t] = "begin" => sdkId[t] = 0

(* So the connection of an open block is in the registry, or with the      *)
(* block's own call: take_tx always finds it.                              *)
Findable ==
  \A t \in Threads : sdkId[t] # 0 =>
    \/ txs[sdkId[t]] # NoConn
    \/ op[t] \in TxOps /\ held[t] # NoConn

(* A transaction that failed belongs to an open block that has seen the    *)
(* error, and all such a block does is roll back.                          *)
FailedIsSeen ==
  /\ \A c \in Conns : sess[c] = "aborted" =>
       tag[c] # 0 /\ \E t \in Threads : sdkId[t] = tag[c] /\ raised[t]
  /\ \A t \in Threads : sdkId[t] # 0 /\ raised[t] => op[t] \in {"none", "rollback"}

(* A connection carries a transaction only until its block is over, and    *)
(* none while it is free or lent to a call of the pool.                    *)
TagLive ==
  /\ \A c \in Conns : tag[c] # 0 => outcome[tag[c]] = "live"
  /\ \A c \in idle : tag[c] = 0
  /\ \A t \in Threads : op[t] \in PoolOps /\ held[t] # NoConn => tag[held[t]] = 0

(* Nothing is told of a transaction that has not begun.                    *)
Untold == \A i \in TxIds : i > seq => outcome[i] = "none"

(* The inductive invariant, on top of IInv.                                *)
DInv ==
  /\ NoScript
  /\ Untold
  /\ OwnId
  /\ BeginsOutside
  /\ Findable
  /\ FailedIsSeen
  /\ TagLive
  /\ CommitMeansDurable
  /\ TerminalReturnsConn

LEMMA InitDInv == Init => DInv
BY SqlTxAssumption
DEF Init, DInv, NoScript, Untold, OwnId, BeginsOutside, Findable, FailedIsSeen, TagLive, CommitMeansDurable,
    TerminalReturnsConn, TxIds, TxOps, EndOps, PoolOps

-----------------------------------------------------------------------------
(* A call begins: nothing moves but the call itself.                       *)
LEMMA CallsUsed ==
  ASSUME IInv, DInv, Disciplined, NEW t \in Threads, Calls(t)
  PROVE  DInv'
<1>1. /\ op[t] = "none"
      /\ UNCHANGED <<idle, sess, held, txs, seq, sdkId, losses, tag, ran, durable, outcome>>
  BY DEF Calls, CallDirect, CallScript, Enter, CallStmt, CallCommit, CallRollback,
         InBody, poolVars, ghostVars
<1>2. PICK o \in {"direct", "begin", "stmt", "commit", "rollback"}, a \in 0..MaxTx :
        /\ op' = [op EXCEPT ![t] = o]
        /\ arg' = [arg EXCEPT ![t] = a]
        /\ o \in TxOps => a = sdkId[t]
        /\ o = "begin" => sdkId[t] = 0
        /\ sdkId[t] # 0 /\ raised[t] => o = "rollback"
  <2>1. CASE CallDirect(t) \/ Enter(t)
    <3>1. arg[t] = 0 /\ arg' = [arg EXCEPT ![t] = 0] /\ 0 \in 0..MaxTx
      BY <1>1, <2>1, SqlTxAssumption DEF IInv, TypeOK, TxOps, EndOps, CallDirect, Enter
    <3>2. CASE CallDirect(t)
      BY <3>1, <3>2 DEF CallDirect, InBody, Disciplined, TxOps, EndOps
    <3>3. CASE Enter(t)
      BY <3>1, <3>3 DEF Enter, TxOps, EndOps
    <3> QED BY <2>1, <3>2, <3>3
  <2>2. ASSUME NEW u \in Threads, CallStmt(t, u)
        PROVE  /\ op' = [op EXCEPT ![t] = "stmt"]
               /\ arg' = [arg EXCEPT ![t] = sdkId[t]]
               /\ sdkId[t] \in 0..MaxTx /\ ~(sdkId[t] # 0 /\ raised[t])
    BY <2>2 DEF CallStmt, InBody, Disciplined, IInv, TypeOK
  <2>3. CASE CallCommit(t)
    BY <2>3 DEF CallCommit, InBody, Disciplined, IInv, TypeOK
  <2>4. CASE CallRollback(t)
    BY <2>4 DEF CallRollback, IInv, TypeOK
  <2>5. ~CallScript(t)
    BY DEF CallScript, Disciplined
  <2> QED BY <2>1, <2>2, <2>3, <2>4, <2>5 DEF Calls
<1>3. \/ raised' = raised
      \/ sdkId[t] = 0 /\ raised' = [raised EXCEPT ![t] = FALSE]
  BY DEF Calls, CallDirect, CallScript, Enter, CallStmt, CallCommit, CallRollback
<1>4. held[t] = NoConn
  BY <1>1 DEF IInv, HeldInCall
<1>5. \A u \in Threads : op'[u] = (IF u = t THEN o ELSE op[u])
                         /\ arg'[u] = (IF u = t THEN a ELSE arg[u])
  BY <1>2 DEF IInv, TypeOK
<1>6. (NoScript /\ Untold /\ OwnId)'
  BY <1>1, <1>2, <1>5 DEF DInv, NoScript, Untold, OwnId
<1>7. (BeginsOutside /\ Findable)'
  BY <1>1, <1>2, <1>5 DEF DInv, BeginsOutside, Findable, TxOps, EndOps
<1>8. FailedIsSeen'
  <2>1. \A u \in Threads : sdkId[u] # 0 => raised'[u] = raised[u]
    BY <1>3 DEF IInv, TypeOK
  <2>2. \A c \in Conns : tag[c] # 0 => tag[c] \in TxIds
    BY DEF IInv, TypeOK, TxIds
  <2>3. \A u \in Threads : sdkId'[u] # 0 /\ raised'[u] => op'[u] \in {"none", "rollback"}
    BY <1>1, <1>2, <1>5, <2>1 DEF DInv, FailedIsSeen
  <2> QED BY <1>1, <2>1, <2>3 DEF DInv, FailedIsSeen
<1>9. TagLive'
  BY <1>1, <1>4, <1>5 DEF DInv, TagLive
<1>10. (CommitMeansDurable /\ TerminalReturnsConn)'
  BY <1>1 DEF DInv, CommitMeansDurable, TerminalReturnsConn
<1> QED BY <1>6, <1>7, <1>8, <1>9, <1>10 DEF DInv

-----------------------------------------------------------------------------
(* The pool.                                                               *)
LEMMA AcquireUsed ==
  ASSUME IInv, DInv, NEW t \in Threads, Acquire(t)
  PROVE  DInv'
<1>1. PICK c \in idle :
        /\ \/ sess' = sess
           \/ sess' = [sess EXCEPT ![c] = "clean"]
        /\ idle' = idle \ {c}
        /\ held' = [held EXCEPT ![t] = c]
  BY DEF Acquire
<1>2. /\ op[t] \in PoolOps /\ held[t] = NoConn
      /\ UNCHANGED <<txs, seq, sdkId, op, arg, raised, losses, tag, ran, durable, outcome>>
  BY DEF Acquire, Waiting, sdkVars, ghostVars
<1>3. /\ \A u \in Threads : held'[u] = IF u = t THEN c ELSE held[u]
      /\ \A d \in Conns : sess'[d] = "aborted" => sess[d] = "aborted"
  BY <1>1 DEF IInv, TypeOK
<1>4. (NoScript /\ Untold /\ OwnId /\ BeginsOutside /\ Findable)'
  BY <1>2, <1>3 DEF DInv, NoScript, Untold, OwnId, BeginsOutside, Findable, PoolOps, TxOps, EndOps
<1>5. (FailedIsSeen /\ CommitMeansDurable /\ TerminalReturnsConn)'
  BY <1>2, <1>3 DEF DInv, FailedIsSeen, CommitMeansDurable, TerminalReturnsConn
<1>6. TagLive'
  BY <1>1, <1>2, <1>3 DEF DInv, TagLive
<1> QED BY <1>4, <1>5, <1>6 DEF DInv

(* No call is refused by the registry.                                     *)
LEMMA RegistryFinds ==
  ASSUME IInv, DInv, NEW t \in Threads
  PROVE  ~RunScript(t) /\ ~TakeTxFails(t)
<1>1. ASSUME op[t] \in TxOps, held[t] = NoConn PROVE txs[arg[t]] # NoConn
  BY <1>1, ArgIsTxId DEF IInv, TypeOK, TxIds, DInv, OwnId, Findable
<1> QED BY <1>1 DEF RunScript, TakeTxFails, DInv, NoScript

(* A call of the pool ends, with or without a connection.                  *)
LEMMA PoolCallEndUsed ==
  ASSUME IInv, DInv, NEW t \in Threads,
         \/ AcquireFails(t) \/ TakeTxFails(t)
         \/ RunDirect(t) \/ RunScript(t) \/ BeginFails(t)
  PROVE  DInv'
<1>1. ~RunScript(t) /\ ~TakeTxFails(t)
  BY RegistryFinds
<1>2. /\ op[t] \in PoolOps
      /\ op' = [op EXCEPT ![t] = "none"]
      /\ arg' = [arg EXCEPT ![t] = 0]
      /\ raised' \in {raised, [raised EXCEPT ![t] = TRUE]}
      /\ UNCHANGED <<sess, txs, seq, sdkId, losses, tag, ran, durable, outcome>>
  BY <1>1 DEF AcquireFails, Waiting, RunDirect, BeginFails, Returns, Raises, ghostVars,
     PoolOps, poolVars
<1>3. \/ UNCHANGED <<idle, held>>
      \/ /\ held[t] # NoConn
         /\ held' = [held EXCEPT ![t] = NoConn]
         /\ idle' = idle \union {held[t]}
  BY <1>1 DEF AcquireFails, RunDirect, BeginFails, DropToPool, poolVars
<1>4. /\ \A u \in Threads : op'[u] = (IF u = t THEN "none" ELSE op[u])
      /\ \A u \in Threads : u # t => arg'[u] = arg[u] /\ raised'[u] = raised[u]
                                     /\ held'[u] = held[u]
      /\ raised[t] => raised'[t]
  BY <1>2, <1>3 DEF IInv, TypeOK
<1>5. (NoScript /\ Untold /\ OwnId)'
  BY <1>2, <1>4 DEF DInv, NoScript, Untold, OwnId, TxOps, EndOps
<1>6. (BeginsOutside /\ Findable)'
  BY <1>2, <1>4 DEF DInv, BeginsOutside, Findable, PoolOps, TxOps, EndOps
<1>7. FailedIsSeen'
  <2>1. \A u \in Threads : raised[u] => raised'[u]
    BY <1>4
  <2>2. \A u \in Threads : sdkId'[u] # 0 /\ raised'[u] => op'[u] \in {"none", "rollback"}
    BY <1>2, <1>4 DEF DInv, FailedIsSeen
  <2> QED BY <1>2, <2>1, <2>2 DEF DInv, FailedIsSeen
<1>8. TagLive'
  <2>1. \A d \in idle' : tag[d] = 0
    BY <1>2, <1>3 DEF DInv, TagLive
  <2> QED BY <1>2, <1>4, <2>1 DEF DInv, TagLive, PoolOps
<1>9. (CommitMeansDurable /\ TerminalReturnsConn)'
  BY <1>2 DEF DInv, CommitMeansDurable, TerminalReturnsConn
<1> QED BY <1>5, <1>6, <1>7, <1>8, <1>9 DEF DInv

-----------------------------------------------------------------------------
(* Transactions.                                                           *)
LEMMA RunBeginUsed ==
  ASSUME IInv, DInv, NEW t \in Threads, RunBegin(t)
  PROVE  DInv'
<1> DEFINE c == held[t]
           i == seq + 1
<1>1. /\ op[t] = "begin" /\ c \in Conns /\ c # NoConn /\ i \in TxIds
      /\ sess[c] = "clean"
      /\ sess' = [sess EXCEPT ![c] = "open"]
      /\ tag' = [tag EXCEPT ![c] = i]
      /\ txs' = [txs EXCEPT ![i] = c]
      /\ sdkId' = [sdkId EXCEPT ![t] = i]
      /\ outcome' = [outcome EXCEPT ![i] = "live"]
      /\ held' = [held EXCEPT ![t] = NoConn]
      /\ op' = [op EXCEPT ![t] = "none"]
      /\ arg' = [arg EXCEPT ![t] = 0]
      /\ seq' = i
      /\ UNCHANGED <<idle, raised, ran, durable>>
  BY SqlTxAssumption DEF IInv, TypeOK, RunBegin, Returns, NextId, TxIds
<1>2. /\ \A u \in Threads : sdkId[u] # i
      /\ \A d \in Conns : tag[d] # i
      /\ i # 0
  BY <1>1 DEF IInv, TypeOK, IdsInOrder, TxIds
<1>4. sdkId[t] = 0
  BY <1>1 DEF DInv, BeginsOutside
<1>5. /\ \A u \in Threads : /\ op'[u] = (IF u = t THEN "none" ELSE op[u])
                            /\ arg'[u] = (IF u = t THEN 0 ELSE arg[u])
                            /\ sdkId'[u] = (IF u = t THEN i ELSE sdkId[u])
                            /\ held'[u] = (IF u = t THEN NoConn ELSE held[u])
      /\ \A d \in Conns : /\ sess'[d] = (IF d = c THEN "open" ELSE sess[d])
                          /\ tag'[d] = (IF d = c THEN i ELSE tag[d])
      /\ \A j \in TxIds : /\ txs'[j] = (IF j = i THEN c ELSE txs[j])
                          /\ outcome'[j] = (IF j = i THEN "live" ELSE outcome[j])
  BY <1>1 DEF IInv, TypeOK
<1>6. (NoScript /\ Untold /\ OwnId)'
  <2>1. (NoScript /\ OwnId)'
    BY <1>2, <1>5 DEF DInv, NoScript, OwnId, TxOps, EndOps
  <2>2. Untold'
    BY <1>1, <1>5 DEF DInv, Untold, IInv, TypeOK, TxIds
  <2> QED BY <2>1, <2>2
<1>7. (BeginsOutside /\ Findable)'
  <2>1. \A u \in Threads : sdkId[u] # 0 => sdkId[u] \in TxIds
    BY DEF IInv, TypeOK, TxIds
  <2> QED BY <1>1, <1>2, <1>5, <2>1 DEF DInv, BeginsOutside, Findable
<1>8. FailedIsSeen'
  <2>1. ASSUME NEW d \in Conns, sess'[d] = "aborted"
        PROVE  tag'[d] # 0 /\ \E u \in Threads : sdkId'[u] = tag'[d] /\ raised'[u]
    <3>1. d # c /\ sess[d] = "aborted" /\ tag'[d] = tag[d]
      BY <1>5, <2>1
    <3>2. PICK u \in Threads : sdkId[u] = tag[d] /\ raised[u] /\ tag[d] # 0
      BY <3>1 DEF DInv, FailedIsSeen
    <3>3. u # t
      BY <1>4, <3>2
    <3> QED BY <1>1, <1>5, <3>1, <3>2, <3>3
  <2>2. \A u \in Threads : sdkId'[u] # 0 /\ raised'[u] => op'[u] \in {"none", "rollback"}
    BY <1>1, <1>5 DEF DInv, FailedIsSeen
  <2> QED BY <2>1, <2>2 DEF FailedIsSeen
<1>9. TagLive'
  <2>1. \A d \in Conns : tag[d] # 0 => tag[d] \in TxIds
    BY DEF IInv, TypeOK, TxIds
  <2>2. \A d \in Conns : tag'[d] # 0 => outcome'[tag'[d]] = "live"
    BY <1>1, <1>5, <2>1 DEF DInv, TagLive
  <2>3. \A d \in idle' : tag'[d] = 0
    BY <1>1, <1>5 DEF DInv, TagLive, IInv, TypeOK, ConnOwnedOnce
  <2>4. \A u \in Threads : op'[u] \in PoolOps /\ held'[u] # NoConn => tag'[held'[u]] = 0
    BY <1>1, <1>5 DEF DInv, TagLive, IInv, TypeOK, ConnOwnedOnce, HeldOnce, PoolOps
  <2> QED BY <2>2, <2>3, <2>4 DEF TagLive
<1>10. CommitMeansDurable'
  BY <1>1, <1>5 DEF DInv, CommitMeansDurable
<1>11. TerminalReturnsConn'
  <2> SUFFICES ASSUME NEW j \in TxIds, txs'[j] # NoConn
               PROVE  \E u \in Threads : sdkId'[u] = j
    BY DEF TerminalReturnsConn, TxIds
  <2>1. CASE j = i
    BY <1>5, <2>1
  <2>2. CASE j # i
    <3>1. PICK u \in Threads : sdkId[u] = j
      BY <1>5, <2>2 DEF DInv, TerminalReturnsConn
    <3>2. u # t
      BY <1>4, <3>1 DEF TxIds
    <3> QED BY <1>5, <3>1, <3>2
  <2> QED BY <2>1, <2>2
<1> QED BY <1>6, <1>7, <1>8, <1>9, <1>10, <1>11 DEF DInv

LEMMA TakeTxUsed ==
  ASSUME IInv, DInv, NEW t \in Threads, TakeTx(t)
  PROVE  DInv'
<1> DEFINE i == arg[t]
           c == txs[i]
<1>1. /\ op[t] \in TxOps /\ held[t] = NoConn /\ i \in TxIds
      /\ c \in Conns /\ c # NoConn /\ i = sdkId[t]
      /\ held' = [held EXCEPT ![t] = c]
      /\ txs' = [txs EXCEPT ![i] = NoConn]
      /\ UNCHANGED <<idle, sess, seq, sdkId, op, arg, raised, tag, ran, durable, outcome>>
  BY ArgIsTxId DEF IInv, TypeOK, TakeTx, sdkVars, ghostVars, DInv, OwnId
<1>2. /\ \A u \in Threads : held'[u] = IF u = t THEN c ELSE held[u]
      /\ \A j \in TxIds : txs'[j] = IF j = i THEN NoConn ELSE txs[j]
  BY <1>1 DEF IInv, TypeOK
<1>3. (NoScript /\ Untold /\ OwnId /\ BeginsOutside /\ FailedIsSeen /\ CommitMeansDurable)'
  BY <1>1 DEF DInv, NoScript, Untold, OwnId, BeginsOutside, FailedIsSeen, CommitMeansDurable
<1>4. Findable'
  <2>1. \A u \in Threads : sdkId[u] # 0 => sdkId[u] \in TxIds
    BY DEF IInv, TypeOK, TxIds
  <2>2. \A u \in Threads : u # t /\ sdkId[u] # 0 => sdkId[u] # i
    BY <1>1 DEF DInv, OwnId, TxIds
  <2> QED BY <1>1, <1>2, <2>1, <2>2 DEF DInv, Findable
<1>5. TagLive'
  BY <1>1, <1>2 DEF DInv, TagLive, TxOps, EndOps, PoolOps
<1>6. TerminalReturnsConn'
  BY <1>1, <1>2 DEF DInv, TerminalReturnsConn
<1> QED BY <1>3, <1>4, <1>5, <1>6 DEF DInv

LEMMA RunStmtUsed ==
  ASSUME IInv, DInv, NEW t \in Threads, RunStmt(t)
  PROVE  DInv'
<1> DEFINE i == arg[t]
           c == held[t]
<1>1. /\ op[t] = "stmt" /\ i \in TxIds /\ c \in Conns /\ c # NoConn /\ i = sdkId[t]
      /\ op' = [op EXCEPT ![t] = "none"]
      /\ arg' = [arg EXCEPT ![t] = 0]
      /\ txs' = [txs EXCEPT ![i] = c]
      /\ held' = [held EXCEPT ![t] = NoConn]
      /\ UNCHANGED <<idle, seq, sdkId, tag, durable, outcome>>
  BY ArgIsTxId DEF IInv, TypeOK, RunStmt, Returns, Raises, TxOps, DInv, OwnId
<1>2. /\ tag[c] = i /\ i # 0
      /\ outcome[i] = "live"
  BY <1>1 DEF IInv, TxConfined, TxOps, TxIds, DInv, TagLive
<1>3. /\ ran' \in {ran, [ran EXCEPT ![i] = @ + 1]}
      /\ \/ sess' = sess /\ raised' \in {raised, [raised EXCEPT ![t] = TRUE]}
         \/ /\ sess' = [sess EXCEPT ![c] = "aborted"]
            /\ raised' = [raised EXCEPT ![t] = TRUE]
  BY DEF RunStmt, Returns, Raises
<1>4. /\ \A u \in Threads : /\ op'[u] = (IF u = t THEN "none" ELSE op[u])
                            /\ arg'[u] = (IF u = t THEN 0 ELSE arg[u])
                            /\ held'[u] = (IF u = t THEN NoConn ELSE held[u])
                            /\ raised[u] => raised'[u]
                            /\ u # t => raised'[u] = raised[u]
      /\ \A j \in TxIds : /\ txs'[j] = (IF j = i THEN c ELSE txs[j])
                          /\ j # i => ran'[j] = ran[j]
  BY <1>1, <1>3 DEF IInv, TypeOK
<1>5. (NoScript /\ Untold /\ OwnId /\ BeginsOutside)'
  BY <1>1, <1>4 DEF DInv, NoScript, Untold, OwnId, BeginsOutside, TxOps, EndOps
<1>6. Findable'
  <2>1. \A u \in Threads : sdkId[u] # 0 => sdkId[u] \in TxIds
    BY DEF IInv, TypeOK, TxIds
  <2> QED BY <1>1, <1>4, <2>1 DEF DInv, Findable
<1>7. FailedIsSeen'
  <2>1. ASSUME NEW d \in Conns, sess'[d] = "aborted"
        PROVE  tag'[d] # 0 /\ \E u \in Threads : sdkId'[u] = tag'[d] /\ raised'[u]
    <3>1. CASE sess[d] = "aborted"
      BY <1>1, <1>4, <3>1 DEF DInv, FailedIsSeen
    <3>2. CASE sess[d] # "aborted"
      <4>1. d = c /\ raised'[t]
        BY <1>1, <1>3, <2>1, <3>2 DEF IInv, TypeOK
      <4> QED BY <1>1, <1>2, <4>1
    <3> QED BY <3>1, <3>2
  <2>2. \A u \in Threads : sdkId'[u] # 0 /\ raised'[u] => op'[u] \in {"none", "rollback"}
    BY <1>1, <1>4 DEF DInv, FailedIsSeen
  <2> QED BY <2>1, <2>2 DEF FailedIsSeen
<1>8. TagLive'
  BY <1>1, <1>4 DEF DInv, TagLive, PoolOps
<1>9. CommitMeansDurable'
  BY <1>1, <1>2, <1>4 DEF DInv, CommitMeansDurable
<1>10. TerminalReturnsConn'
  BY <1>1, <1>4 DEF DInv, TerminalReturnsConn
<1> QED BY <1>5, <1>6, <1>7, <1>8, <1>9, <1>10 DEF DInv

(* The end of a block, told what is so.                                    *)
LEMMA EndBlockUsed ==
  ASSUME IInv, DInv, NEW t \in Threads, op[t] \in EndOps, held[t] # NoConn,
         NEW told \in {"committed", "rolledback", "error"},
         NEW s \in {"clean", "closed"},
         NEW n \in {0, ran[arg[t]]},
         told = "committed" => n = ran[arg[t]],
         EndBlock(t, told),
         sess' = [sess EXCEPT ![held[t]] = s],
         durable' = [durable EXCEPT ![arg[t]] = n]
  PROVE  DInv'
<1> DEFINE i == arg[t]
           c == held[t]
<1>1. /\ i \in TxIds /\ c \in Conns /\ c # NoConn /\ i = sdkId[t]
      /\ sdkId' = [sdkId EXCEPT ![t] = 0]
      /\ outcome' = [outcome EXCEPT ![i] = told]
      /\ op' = [op EXCEPT ![t] = "none"]
      /\ arg' = [arg EXCEPT ![t] = 0]
      /\ held' = [held EXCEPT ![t] = NoConn]
      /\ idle' = idle \union {c}
      /\ tag' = [tag EXCEPT ![c] = 0]
      /\ UNCHANGED <<txs, seq, ran>>
  BY ArgIsTxId DEF IInv, TypeOK, EndBlock, DropToPool, Returns, Raises, TxOps, DInv, OwnId
<1>2. raised' \in {raised, [raised EXCEPT ![t] = TRUE]}
  BY DEF EndBlock, Returns, Raises
<1>3. /\ tag[c] = i /\ i # 0 /\ ~(i > seq)
      /\ \A d \in Conns : d # c => tag[d] # i
  BY <1>1 DEF IInv, TypeOK, TxConfined, TxOps, TxIds, TagOnce, IdsInOrder
<1>4. /\ \A u \in Threads : /\ op'[u] = (IF u = t THEN "none" ELSE op[u])
                            /\ arg'[u] = (IF u = t THEN 0 ELSE arg[u])
                            /\ held'[u] = (IF u = t THEN NoConn ELSE held[u])
                            /\ sdkId'[u] = (IF u = t THEN 0 ELSE sdkId[u])
                            /\ raised[u] => raised'[u]
                            /\ u # t => raised'[u] = raised[u]
      /\ \A d \in Conns : /\ tag'[d] = (IF d = c THEN 0 ELSE tag[d])
                          /\ sess'[d] = (IF d = c THEN s ELSE sess[d])
      /\ \A j \in TxIds : /\ outcome'[j] = (IF j = i THEN told ELSE outcome[j])
                          /\ durable'[j] = (IF j = i THEN n ELSE durable[j])
  BY <1>1, <1>2 DEF IInv, TypeOK
<1>5. (NoScript /\ Untold /\ OwnId /\ BeginsOutside /\ Findable)'
  BY <1>1, <1>3, <1>4
  DEF DInv, NoScript, Untold, OwnId, BeginsOutside, Findable, TxOps, EndOps
<1>6. FailedIsSeen'
  <2>1. ASSUME NEW d \in Conns, sess'[d] = "aborted"
        PROVE  tag'[d] # 0 /\ \E u \in Threads : sdkId'[u] = tag'[d] /\ raised'[u]
    <3>1. d # c /\ sess[d] = "aborted" /\ tag'[d] = tag[d]
      BY <1>4, <2>1
    <3>2. PICK u \in Threads : sdkId[u] = tag[d] /\ raised[u] /\ tag[d] # 0
      BY <3>1 DEF DInv, FailedIsSeen
    <3>3. u # t
      BY <1>1, <1>3, <3>1, <3>2
    <3> QED BY <1>4, <3>1, <3>2, <3>3
  <2>2. \A u \in Threads : sdkId'[u] # 0 /\ raised'[u] => op'[u] \in {"none", "rollback"}
    BY <1>4 DEF DInv, FailedIsSeen
  <2> QED BY <2>1, <2>2 DEF FailedIsSeen
<1>7. TagLive'
  <2>1. \A d \in Conns : tag'[d] # 0 =>
          tag'[d] = tag[d] /\ tag[d] \in TxIds /\ tag[d] # i
    BY <1>3, <1>4 DEF IInv, TypeOK, TxIds
  <2>2. \A d \in Conns : tag'[d] # 0 => outcome'[tag'[d]] = "live"
    BY <1>4, <2>1 DEF DInv, TagLive
  <2>3. \A d \in idle' : tag'[d] = 0
    BY <1>1, <1>4 DEF DInv, TagLive, IInv, TypeOK
  <2>4. \A u \in Threads : op'[u] \in PoolOps /\ held'[u] # NoConn => tag'[held'[u]] = 0
    BY <1>1, <1>4 DEF DInv, TagLive, IInv, TypeOK, PoolOps
  <2> QED BY <2>2, <2>3, <2>4 DEF TagLive
<1>8. CommitMeansDurable'
  BY <1>1, <1>4 DEF DInv, CommitMeansDurable
<1>9. TerminalReturnsConn'
  <2> SUFFICES ASSUME NEW j \in TxIds, txs[j] # NoConn
               PROVE  \E u \in Threads : sdkId'[u] = j
    BY <1>1 DEF TerminalReturnsConn, TxIds
  <2>1. j # i
    <3>1. txs[j] \in Conns /\ tag[txs[j]] = j /\ txs[j] # c
      BY <1>1 DEF IInv, TypeOK, TxConfined, ConnOwnedOnce
    <3> QED BY <1>3, <3>1
  <2>2. PICK u \in Threads : sdkId[u] = j
    BY DEF DInv, TerminalReturnsConn
  <2> QED BY <1>1, <1>4, <2>1, <2>2
<1> QED BY <1>5, <1>6, <1>7, <1>8, <1>9 DEF DInv

(* COMMIT is only sent in a transaction in which nothing failed.           *)
LEMMA CommitsUnfailed ==
  ASSUME IInv, DInv, NEW t \in Threads, op[t] = "commit", held[t] # NoConn
  PROVE  sess[held[t]] # "aborted"
<1>1. held[t] \in Conns /\ op[t] \in TxOps
  BY DEF IInv, TypeOK, TxOps, EndOps
<1>2. tag[held[t]] = arg[t] /\ arg[t] # 0 /\ arg[t] = sdkId[t]
  BY <1>1, ArgIsTxId DEF IInv, TypeOK, TxConfined, TxIds, DInv, OwnId
<1>3. SUFFICES ASSUME sess[held[t]] = "aborted" PROVE FALSE
  OBVIOUS
<1>4. PICK u \in Threads : sdkId[u] = arg[t] /\ raised[u]
  BY <1>1, <1>2, <1>3 DEF DInv, FailedIsSeen
<1>5. u = t
  BY <1>2, <1>4 DEF DInv, OwnId
<1> QED BY <1>2, <1>4, <1>5 DEF DInv, FailedIsSeen

LEMMA CommitUsed ==
  ASSUME IInv, DInv, NEW t \in Threads, RunCommit(t)
  PROVE  DInv'
<1>1. /\ op[t] = "commit" /\ op[t] \in EndOps
      /\ held[t] # NoConn /\ held[t] \in Conns /\ arg[t] \in TxIds
  BY ArgIsTxId DEF IInv, TypeOK, RunCommit, EndOps, TxOps
<1>2. tag[held[t]] = arg[t] /\ arg[t] # 0 /\ arg[t] = sdkId[t]
  BY <1>1 DEF IInv, TxConfined, TxOps, TxIds, DInv, OwnId
<1>3. durable = [durable EXCEPT ![arg[t]] = 0]
  BY <1>1, <1>2 DEF IInv, TypeOK, DurableIsOver
<1>4. sess[held[t]] # "aborted"
  BY <1>1, CommitsUnfailed
<1>5. \E told \in {"committed", "error"}, s \in {"clean", "closed"},
         n \in {0, ran[arg[t]]} :
         /\ told = "committed" => n = ran[arg[t]]
         /\ EndBlock(t, told)
         /\ sess' = [sess EXCEPT ![held[t]] = s]
         /\ durable' = [durable EXCEPT ![arg[t]] = n]
  <2>1. sess[held[t]] = "closed" => sess = [sess EXCEPT ![held[t]] = "closed"]
    BY <1>1 DEF IInv, TypeOK
  <2> QED BY <1>1, <1>3, <1>4, <2>1 DEF RunCommit
<1> QED BY <1>1, <1>5, EndBlockUsed, ZenonT(60)

LEMMA RollbackUsed ==
  ASSUME IInv, DInv, NEW t \in Threads, RunRollback(t)
  PROVE  DInv'
<1>1. op[t] \in EndOps /\ held[t] # NoConn /\ held[t] \in Conns /\ arg[t] \in TxIds
  BY ArgIsTxId DEF IInv, TypeOK, RunRollback, EndOps, TxOps
<1>2. tag[held[t]] = arg[t] /\ arg[t] # 0
  BY <1>1 DEF IInv, TxConfined, TxOps, TxIds
<1>3. durable' = [durable EXCEPT ![arg[t]] = 0]
  BY <1>1, <1>2 DEF IInv, TypeOK, DurableIsOver, RunRollback
<1>4. \E s \in {"clean", "closed"} : sess' = [sess EXCEPT ![held[t]] = s]
  BY DEF RunRollback
<1>5. EndBlock(t, "rolledback")
  BY DEF RunRollback
<1> QED BY <1>1, <1>3, <1>4, <1>5, EndBlockUsed

LEMMA LoseUsed ==
  ASSUME IInv, DInv, NEW c \in Conns, Lose(c)
  PROVE  DInv'
<1>1. /\ sess' = [sess EXCEPT ![c] = "closed"]
      /\ UNCHANGED <<idle, held, txs, seq, sdkId, op, arg, raised, tag, ran, durable,
                     outcome>>
  BY DEF Lose, sdkVars, ghostVars
<1>2. \A d \in Conns : sess'[d] = "aborted" => sess[d] = "aborted"
  BY <1>1 DEF IInv, TypeOK
<1> QED BY <1>1, <1>2
  DEF DInv, NoScript, Untold, OwnId, BeginsOutside, Findable, FailedIsSeen, TagLive,
      CommitMeansDurable, TerminalReturnsConn

LEMMA NextDInv == Disciplined /\ IInv /\ DInv /\ [Next]_vars => DInv'
<1> SUFFICES ASSUME Disciplined, IInv, DInv, [Next]_vars PROVE DInv'
  OBVIOUS
<1>1. ASSUME NEW t \in Threads, Calls(t) PROVE DInv'
  BY <1>1, CallsUsed
<1>2. ASSUME NEW t \in Threads, Progress(t) PROVE DInv'
  BY <1>2, AcquireUsed, PoolCallEndUsed, RunBeginUsed, TakeTxUsed, RunStmtUsed,
     CommitUsed, RollbackUsed
  DEF Progress
<1>3. ASSUME NEW c \in Conns, Lose(c) PROVE DInv'
  BY <1>3, LoseUsed
<1>4. CASE UNCHANGED vars
  BY <1>4
  DEF vars, DInv, NoScript, Untold, OwnId, BeginsOutside, Findable, FailedIsSeen, TagLive,
      CommitMeansDurable, TerminalReturnsConn
<1> QED BY <1>1, <1>2, <1>3, <1>4 DEF Next

LEMMA SpecDInv ==
  ASSUME Disciplined
  PROVE  Spec => [](IInv /\ DInv)
<1>1. IInv /\ DInv /\ [Next]_vars => (IInv /\ DInv)'
  BY NextIInv, NextDInv, Disciplined
<1>2. Init => IInv /\ DInv
  BY InitIInv, InitDInv
<1> QED BY <1>1, <1>2, PTL DEF Spec

-----------------------------------------------------------------------------
(* The refinement.  The state of transaction i is read off the connection  *)
(* that carries it.                                                        *)
StateMap == [i \in TxIds |-> TxState(i)]
ToldMap  == [i \in TxIds |-> Told(i)]

LEMMA SameState ==
  ASSUME NEW j \in TxIds, j > seq' <=> j > seq,
         \A d \in Conns : tag'[d] = j <=> tag[d] = j,
         \A d \in Conns : tag[d] = j => (sess'[d] = "open" <=> sess[d] = "open")
  PROVE  TxState(j)' = TxState(j)
<1>1. (\E d \in Conns : tag'[d] = j) <=> \E d \in Conns : tag[d] = j
  OBVIOUS
<1>2. (\E d \in Conns : tag'[d] = j /\ sess'[d] = "open")
        <=> \E d \in Conns : tag[d] = j /\ sess[d] = "open"
  OBVIOUS
<1> QED BY <1>1, <1>2, Zenon DEF TxState

LEMMA StateOf ==
  ASSUME IInv, NEW c \in Conns, tag[c] # 0
  PROVE  /\ tag[c] \in TxIds
         /\ TxState(tag[c]) = IF sess[c] = "open" THEN "live" ELSE "failed"
<1>1. tag[c] \in TxIds /\ ~(tag[c] > seq)
  BY DEF IInv, TypeOK, TxIds, IdsInOrder
<1>2. \A d \in Conns : tag[d] = tag[c] => d = c
  BY DEF IInv, TagOnce
<1> QED BY <1>1, <1>2 DEF TxState

(* What does not touch the sessions of transactions is not seen.           *)
LEMMA Unseen ==
  ASSUME IInv, UNCHANGED <<seq, tag, ran, durable, outcome>>,
         \A c \in Conns : tag[c] # 0 => (sess'[c] = "open" <=> sess[c] = "open")
  PROVE  UNCHANGED Abstract!vars
<1>1. \A i \in TxIds : TxState(i)' = TxState(i) /\ Told(i)' = Told(i)
  BY DEF TxState, Told, TxIds
<1>2. StateMap' = StateMap /\ ToldMap' = ToldMap
  BY <1>1 DEF StateMap, ToldMap, TxIds
<1> QED BY <1>2 DEF Abstract!vars, StateMap, ToldMap

(* A change of state of one transaction, told or not.                      *)
LEMMA Moves ==
  ASSUME NEW i \in TxIds, NEW st, NEW m,
         \A j \in TxIds : /\ TxState(j)' = (IF j = i THEN st ELSE TxState(j))
                         /\ Told(j)' = (IF j = i THEN m ELSE Told(j))
  PROVE  /\ StateMap' = [StateMap EXCEPT ![i] = st]
         /\ ToldMap' = [ToldMap EXCEPT ![i] = m]
BY DEF StateMap, ToldMap, TxIds

LEMMA InitRefines == Init => Abstract!Init
<1> SUFFICES ASSUME Init PROVE Abstract!Init
  OBVIOUS
<1>1. \A i \in TxIds : TxState(i) = "new" /\ Told(i) = "none"
  BY DEF Init, TxState, Told, TxIds
<1> QED BY <1>1 DEF Init, Abstract!Init

LEMMA BeginRefines ==
  ASSUME IInv, DInv, NEW t \in Threads, RunBegin(t)
  PROVE  Abstract!Next
<1>0. PICK i \in TxIds, c \in Conns : i = seq + 1 /\ c = held[t]
  BY SqlTxAssumption DEF IInv, TypeOK, RunBegin, TxIds
<1>1. /\ op[t] = "begin" /\ i # 0
      /\ sess' = [sess EXCEPT ![c] = "open"]
      /\ tag' = [tag EXCEPT ![c] = i]
      /\ seq' = i
      /\ outcome' = [outcome EXCEPT ![i] = "live"]
      /\ UNCHANGED <<ran, durable>>
  BY <1>0 DEF RunBegin, NextId, TxIds
<1>2. /\ tag[c] = 0
      /\ \A d \in Conns : tag[d] # i
      /\ outcome[i] = "none"
  BY <1>0, <1>1 DEF IInv, TypeOK, IdsInOrder, DInv, TagLive, Untold, PoolOps, TxIds, RunBegin
<1>3. \A d \in Conns : /\ sess'[d] = (IF d = c THEN "open" ELSE sess[d])
                      /\ tag'[d] = (IF d = c THEN i ELSE tag[d])
  BY <1>1 DEF IInv, TypeOK
<1>4. TxState(i) = "new" /\ TxState(i)' = "live"
  <2>1. seq \in Nat /\ i > seq /\ ~(i > seq')
    BY <1>0, <1>1 DEF IInv, TypeOK
  <2>2. tag'[c] = i /\ sess'[c] = "open"
    BY <1>1, <1>3
  <2>3. TxState(i) = "new"
    BY <2>1, Zenon DEF TxState
  <2>4. TxState(i)' = "live"
    BY <1>1, <2>1, <2>2, Zenon DEF TxState
  <2> QED BY <2>3, <2>4
<1>5. ASSUME NEW j \in TxIds, j # i
      PROVE  TxState(j)' = TxState(j)
  <2>1. j > seq' <=> j > seq
    BY <1>0, <1>1, <1>5 DEF IInv, TypeOK, TxIds
  <2>2. \A d \in Conns : tag'[d] = j <=> tag[d] = j
    BY <1>2, <1>3, <1>5 DEF TxIds
  <2>3. \A d \in Conns : tag[d] = j => (sess'[d] = "open" <=> sess[d] = "open")
    BY <1>2, <1>3 DEF TxIds
  <2> QED BY <2>1, <2>2, <2>3, SameState, Zenon
<1>6. \A j \in TxIds : Told(j)' = Told(j)
  BY <1>1, <1>2 DEF Told, IInv, TypeOK
<1>7. StateMap' = [StateMap EXCEPT ![i] = "live"] /\ ToldMap' = ToldMap
  <2>1. StateMap' = [StateMap EXCEPT ![i] = "live"]
    BY <1>1, <1>4, <1>5 DEF StateMap, TxIds
  <2>2. ToldMap' = ToldMap
    BY <1>6 DEF ToldMap, TxIds
  <2> QED BY <2>1, <2>2
<1>8. StateMap[i] = "new"
  BY <1>1, <1>4 DEF StateMap
<1>9. Abstract!Begin(i)
  BY <1>1, <1>7, <1>8 DEF Abstract!Begin, StateMap, ToldMap
<1> QED BY <1>1, <1>9 DEF Abstract!Next

(* A transaction on a connection c changes its state with the session of   *)
(* c; no other does.                                                       *)
LEMMA OneMoves ==
  ASSUME IInv, NEW c \in Conns, NEW st, tag[c] # 0, seq' = seq,
         \A d \in Conns \ {c} : tag'[d] = tag[d] /\ sess'[d] = sess[d],
         \/ tag'[c] = tag[c] /\ st = IF sess'[c] = "open" THEN "live" ELSE "failed"
         \/ tag'[c] = 0 /\ st = "over"
  PROVE  StateMap' = [StateMap EXCEPT ![tag[c]] = st]
<1>0. PICK i \in TxIds : i = tag[c]
  BY StateOf
<1>1. \A d \in Conns \ {c} : tag[d] # i
  BY <1>0 DEF IInv, TagOnce
<1>2. ~(i > seq')
  BY <1>0 DEF IInv, TypeOK, IdsInOrder
<1>3. TxState(i)' = st
  <2>1. \A d \in Conns : tag'[d] = i => d = c
    BY <1>1
  <2>2. CASE tag'[c] = tag[c] /\ sess'[c] = "open" /\ st = "live"
    BY <1>0, <1>2, <2>2, Zenon DEF TxState
  <2>3. CASE tag'[c] = tag[c] /\ sess'[c] # "open" /\ st = "failed"
    BY <1>0, <1>2, <2>1, <2>3, Zenon DEF TxState
  <2>4. CASE tag'[c] = 0 /\ st = "over"
    <3>1. i # 0
      BY <1>0
    <3> QED BY <1>2, <2>1, <2>4, <3>1, Zenon DEF TxState
  <2> QED BY <2>2, <2>3, <2>4
<1>4. ASSUME NEW j \in TxIds, j # i
      PROVE  TxState(j)' = TxState(j)
  <2>1. j > seq' <=> j > seq
    OBVIOUS
  <2>2. j # 0 /\ j # tag[c]
    BY <1>0, <1>4 DEF TxIds
  <2>3. tag[c] # j /\ tag'[c] # j
    BY <2>2
  <2>4. \A d \in Conns : tag'[d] = j <=> tag[d] = j
    BY <2>3
  <2>5. \A d \in Conns : tag[d] = j => (sess'[d] = "open" <=> sess[d] = "open")
    BY <2>3
  <2> QED BY <2>1, <2>4, <2>5, SameState, Zenon
<1>5. StateMap' = [StateMap EXCEPT ![i] = st]
  BY <1>3, <1>4 DEF StateMap, TxIds
<1> QED BY <1>0, <1>5

LEMMA StmtRefines ==
  ASSUME IInv, DInv, NEW t \in Threads, RunStmt(t)
  PROVE  [Abstract!Next]_Abstract!vars
<1>0. PICK c \in Conns, i \in TxIds : c = held[t] /\ i = arg[t]
  BY ArgIsTxId, SqlTxAssumption DEF IInv, TypeOK, RunStmt, TxOps
<1>1. /\ tag[c] = i /\ i # 0
      /\ UNCHANGED <<seq, tag, durable, outcome>>
  BY <1>0 DEF IInv, TxConfined, TxOps, TxIds, RunStmt
<1>2. StateMap[i] = IF sess[c] = "open" THEN "live" ELSE "failed"
  BY <1>1, StateOf DEF StateMap
<1>3. ToldMap' = ToldMap
  BY <1>1 DEF ToldMap, Told, TxIds
<1>4. CASE UNCHANGED <<sess, ran>>
  <2>1. UNCHANGED Abstract!vars
    BY <1>1, <1>4, Unseen
  <2> QED BY <2>1
<1>5. CASE /\ sess[c] = "open" /\ UNCHANGED sess
           /\ ran' = [ran EXCEPT ![i] = @ + 1]
  <2>1. StateMap' = StateMap
    BY <1>1, <1>5, SameState, Zenon DEF StateMap, TxIds
  <2>2. Abstract!Write(i)
    BY <1>1, <1>2, <1>3, <1>5, <2>1 DEF Abstract!Write, StateMap, ToldMap
  <2> QED BY <2>2 DEF Abstract!Next
<1>6. CASE /\ sess[c] = "open" /\ UNCHANGED ran
           /\ sess' = [sess EXCEPT ![c] = "aborted"]
  <2>1. /\ sess'[c] = "aborted"
        /\ \A d \in Conns \ {c} : sess'[d] = sess[d]
    BY <1>6 DEF IInv, TypeOK
  <2>2. StateMap' = [StateMap EXCEPT ![i] = "failed"]
    BY <1>1, <2>1, OneMoves
  <2>3. Abstract!Fail(i)
    BY <1>1, <1>2, <1>3, <1>6, <2>2 DEF Abstract!Fail, StateMap, ToldMap
  <2> QED BY <2>3 DEF Abstract!Next
<1> QED BY <1>0, <1>4, <1>5, <1>6 DEF RunStmt

LEMMA LoseRefines ==
  ASSUME IInv, NEW c \in Conns, Lose(c)
  PROVE  [Abstract!Next]_Abstract!vars
<1>1. /\ sess'[c] = "closed"
      /\ \A d \in Conns \ {c} : sess'[d] = sess[d]
      /\ UNCHANGED <<seq, tag, ran, durable, outcome>>
  BY DEF IInv, TypeOK, Lose, ghostVars
<1>2. CASE tag[c] = 0 \/ sess[c] # "open"
  <2>1. UNCHANGED Abstract!vars
    BY <1>1, <1>2, Unseen
  <2> QED BY <2>1
<1>3. CASE tag[c] # 0 /\ sess[c] = "open"
  <2>0. PICK i \in TxIds : i = tag[c]
    BY <1>3, StateOf
  <2>1. StateMap' = [StateMap EXCEPT ![i] = "failed"]
    BY <1>1, <1>3, <2>0, OneMoves
  <2>2. StateMap[i] = "live"
    BY <1>3, <2>0, StateOf DEF StateMap
  <2>3. ToldMap' = ToldMap
    BY <1>1 DEF ToldMap, Told, TxIds
  <2>4. Abstract!Fail(i)
    BY <1>1, <2>1, <2>2, <2>3 DEF Abstract!Fail, StateMap, ToldMap
  <2> QED BY <2>4 DEF Abstract!Next
<1> QED BY <1>2, <1>3

(* The end of a block is a commit when anything is durable or it was told  *)
(* so, and a rollback otherwise.                                           *)
LEMMA EndRefines ==
  ASSUME IInv, DInv, NEW t \in Threads, op[t] \in EndOps, held[t] # NoConn,
         NEW told \in {"committed", "rolledback", "error"},
         NEW n \in {0, ran[arg[t]]},
         told = "committed" => n = ran[arg[t]] /\ sess[held[t]] = "open",
         n # 0 => told # "rolledback" /\ sess[held[t]] = "open",
         EndBlock(t, told),
         \A d \in Conns : d # held[t] => sess'[d] = sess[d],
         durable' = [durable EXCEPT ![arg[t]] = n]
  PROVE  Abstract!Next
<1>0. PICK c \in Conns, i \in TxIds : c = held[t] /\ i = arg[t]
  BY ArgIsTxId, SqlTxAssumption DEF IInv, TypeOK, TxOps
<1>1. /\ tag[c] = i /\ i # 0
      /\ tag' = [tag EXCEPT ![c] = 0]
      /\ outcome' = [outcome EXCEPT ![i] = told]
      /\ UNCHANGED <<seq, ran>>
  BY <1>0 DEF IInv, TxConfined, TxOps, TxIds, EndBlock
<1>2. durable[i] = 0 /\ outcome[i] = "live"
  BY <1>1 DEF IInv, DurableIsOver, DInv, TagLive
<1>3. StateMap[i] = IF sess[c] = "open" THEN "live" ELSE "failed"
  BY <1>1, StateOf DEF StateMap
<1>4. StateMap' = [StateMap EXCEPT ![i] = "over"]
  <2>1. /\ tag'[c] = 0
        /\ \A d \in Conns \ {c} : tag'[d] = tag[d] /\ sess'[d] = sess[d]
    BY <1>0, <1>1 DEF IInv, TypeOK
  <2> QED BY <1>1, <2>1, OneMoves
<1>5. ToldMap' = [ToldMap EXCEPT ![i] = told]
  <2>1. \A j \in TxIds : Told(j)' = IF j = i THEN told ELSE Told(j)
    BY <1>1 DEF Told, IInv, TypeOK
  <2> QED BY <2>1 DEF ToldMap, TxIds
<1>6. CASE told = "committed" \/ n # 0
  <2>1. n = ran[i] /\ sess[c] = "open" /\ told \in {"committed", "error"}
    BY <1>0, <1>6
  <2>2. durable' = [durable EXCEPT ![i] = ran[i]]
    BY <1>0, <2>1
  <2>3. Abstract!Commit(i)
    BY <1>1, <1>3, <1>4, <1>5, <2>1, <2>2 DEF Abstract!Commit, StateMap, ToldMap
  <2> QED BY <2>3 DEF Abstract!Next
<1>7. CASE told # "committed" /\ n = 0
  <2>1. durable' = durable
    BY <1>0, <1>2, <1>7 DEF IInv, TypeOK
  <2>2. told \in {"rolledback", "error"} /\ StateMap[i] \in {"live", "failed"}
    BY <1>3, <1>7
  <2>3. Abstract!Rollback(i)
    BY <1>1, <1>4, <1>5, <2>1, <2>2 DEF Abstract!Rollback, StateMap, ToldMap
  <2> QED BY <2>3 DEF Abstract!Next
<1> QED BY <1>6, <1>7

LEMMA CommitRefines ==
  ASSUME IInv, DInv, NEW t \in Threads, RunCommit(t)
  PROVE  Abstract!Next
<1>1. /\ op[t] = "commit" /\ op[t] \in EndOps
      /\ held[t] # NoConn /\ held[t] \in Conns /\ arg[t] \in TxIds
  BY ArgIsTxId DEF IInv, TypeOK, RunCommit, EndOps, TxOps
<1>2. durable = [durable EXCEPT ![arg[t]] = 0]
  <2>1. tag[held[t]] = arg[t] /\ arg[t] # 0
    BY <1>1 DEF IInv, TxConfined, TxOps, TxIds
  <2> QED BY <1>1, <2>1 DEF IInv, TypeOK, DurableIsOver
<1>3. sess[held[t]] # "aborted"
  BY <1>1, CommitsUnfailed
<1>4. \A d \in Conns : d # held[t] => sess'[d] = sess[d]
  BY DEF RunCommit, IInv, TypeOK
<1>5. \E told \in {"committed", "error"}, n \in {0, ran[arg[t]]} :
         /\ told = "committed" => n = ran[arg[t]] /\ sess[held[t]] = "open"
         /\ n # 0 => sess[held[t]] = "open"
         /\ EndBlock(t, told)
         /\ durable' = [durable EXCEPT ![arg[t]] = n]
  BY <1>1, <1>2, <1>3 DEF RunCommit
<1> QED BY <1>1, <1>4, <1>5, EndRefines

LEMMA RollbackRefines ==
  ASSUME IInv, DInv, NEW t \in Threads, RunRollback(t)
  PROVE  Abstract!Next
<1>1. op[t] \in EndOps /\ held[t] # NoConn /\ held[t] \in Conns /\ arg[t] \in TxIds
  BY ArgIsTxId DEF IInv, TypeOK, RunRollback, EndOps, TxOps
<1>2. tag[held[t]] = arg[t] /\ arg[t] # 0
  BY <1>1 DEF IInv, TxConfined, TxOps, TxIds
<1>3. durable' = [durable EXCEPT ![arg[t]] = 0]
  BY <1>1, <1>2 DEF IInv, TypeOK, DurableIsOver, RunRollback
<1>4. \A d \in Conns : d # held[t] => sess'[d] = sess[d]
  BY DEF RunRollback, IInv, TypeOK
<1>5. EndBlock(t, "rolledback")
  BY DEF RunRollback
<1> QED BY <1>1, <1>3, <1>4, <1>5, EndRefines

LEMMA NextRefines ==
  ASSUME IInv, DInv, Disciplined, [Next]_vars
  PROVE  [Abstract!Next]_Abstract!vars
<1>1. ASSUME NEW t \in Threads,
             \/ Calls(t) \/ TakeTx(t) \/ AcquireFails(t) \/ TakeTxFails(t)
             \/ RunDirect(t) \/ RunScript(t) \/ BeginFails(t)
      PROVE  UNCHANGED Abstract!vars
  <2>1. ~RunScript(t) /\ ~TakeTxFails(t)
    BY RegistryFinds
  <2>2. UNCHANGED <<sess, seq, tag, ran, durable, outcome>>
    BY <1>1, <2>1 DEF Calls, CallDirect, CallScript, Enter, CallStmt, CallCommit,
       CallRollback, TakeTx, AcquireFails, RunDirect, BeginFails, poolVars, ghostVars
  <2> QED BY <2>2, Unseen
<1>2. ASSUME NEW t \in Threads, Acquire(t)
      PROVE  UNCHANGED Abstract!vars
  <2>1. PICK c \in idle : sess' = sess \/ sess' = [sess EXCEPT ![c] = "clean"]
    BY <1>2 DEF Acquire
  <2>2. tag[c] = 0 /\ UNCHANGED <<seq, tag, ran, durable, outcome>>
    BY <1>2 DEF Acquire, ghostVars, DInv, TagLive
  <2>3. \A d \in Conns : tag[d] # 0 => sess'[d] = sess[d]
    BY <2>1, <2>2 DEF IInv, TypeOK
  <2> QED BY <2>2, <2>3, Unseen
<1>3. ASSUME NEW t \in Threads, Progress(t)
      PROVE  [Abstract!Next]_Abstract!vars
  BY <1>1, <1>2, <1>3, BeginRefines, StmtRefines, CommitRefines, RollbackRefines
  DEF Progress
<1>4. CASE UNCHANGED vars
  BY <1>4, Unseen DEF vars
<1> QED BY <1>1, <1>3, <1>4, LoseRefines DEF Next

-----------------------------------------------------------------------------
(* The theorems.                                                           *)

(* Leaving the block without an exception (__exit__ in sqldb.py) means     *)
(* that its writes are durable, if no error of a statement was caught.     *)
THEOREM CommitsAreDurable ==
  ASSUME Disciplined
  PROVE  Spec => []CommitMeansDurable
<1>1. IInv /\ DInv => CommitMeansDurable
  BY DEF DInv
<1> QED BY <1>1, SpecDInv, Disciplined, PTL

(* A connection returns to the pool with its transaction over, after any   *)
(* failure and any loss, if no script opened one.                          *)
THEOREM PoolStaysClean ==
  ASSUME Disciplined
  PROVE  Spec => []IdleConnsClean
<1>1. IInv /\ DInv => IdleConnsClean
  <2> SUFFICES ASSUME IInv, DInv, NEW c \in idle
               PROVE  sess[c] \in {"clean", "closed"}
    BY DEF IdleConnsClean
  <2>1. c \in Conns /\ sess[c] \in Sessions
    BY DEF IInv, TypeOK
  <2>2. sess[c] # "open"
    BY <2>1 DEF IInv, NeverLendsOpenTx
  <2>3. sess[c] # "aborted"
    BY <2>1 DEF DInv, FailedIsSeen, TagLive
  <2> QED BY <2>1, <2>2, <2>3 DEF Sessions
<1> QED BY <1>1, SpecDInv, Disciplined, PTL

(* The registry keeps the connection of no transaction whose block has     *)
(* ended (tx_finish in transaction.rs), if blocks keep their transaction   *)
(* to themselves.                                                          *)
THEOREM RegistryKeepsOpenOnly ==
  ASSUME Disciplined
  PROVE  Spec => []TerminalReturnsConn
<1>1. IInv /\ DInv => TerminalReturnsConn
  BY DEF DInv
<1> QED BY <1>1, SpecDInv, Disciplined, PTL

(* Transactions are atomic transactions, as the docstring of               *)
(* SQLDatabase.transaction promises: every step of the pool, the registry  *)
(* and the block is one of module AtomicTx, or changes nothing there.      *)
THEOREM TransactionsImplement ==
  ASSUME Disciplined
  PROVE  Spec => ImplementsAtomicTx
<1>1. IInv /\ DInv /\ [Next]_vars => [Abstract!Next]_Abstract!vars
  BY NextRefines, Disciplined
<1> QED BY <1>1, InitRefines, SpecDInv, Disciplined, PTL
        DEF Spec, ImplementsAtomicTx, Abstract!Spec
=============================================================================
