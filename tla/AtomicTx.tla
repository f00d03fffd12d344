------------------------------ MODULE AtomicTx ------------------------------
(***************************************************************************)
(* What `with db.transaction()` promises (vignemale/sqldb.py, the          *)
(* docstring of SQLDatabase.transaction): the statements of a block take   *)
(* effect together or not at all, and the way the block is left says       *)
(* which.  No pool, no registry, no threads: SqlTx implements this.        *)
(***************************************************************************)
EXTENDS Integers

CONSTANT Ids       (* transactions                                         *)

VARIABLES
  state,           (* "new", "live", "failed" (can only roll back), "over" *)
  ran,             (* statements that took effect inside the transaction   *)
  durable,         (* of these, the ones visible to everyone for good      *)
  told             (* what the program was told                            *)

vars == <<state, ran, durable, told>>

Init ==
  /\ state = [i \in Ids |-> "new"]
  /\ ran = [i \in Ids |-> 0]
  /\ durable = [i \in Ids |-> 0]
  /\ told = [i \in Ids |-> "none"]

Begin(i) ==
  /\ state[i] = "new"
  /\ state' = [state EXCEPT ![i] = "live"]
  /\ UNCHANGED <<ran, durable, told>>

Write(i) ==
  /\ state[i] = "live"
  /\ ran' = [ran EXCEPT ![i] = @ + 1]
  /\ UNCHANGED <<state, durable, told>>

(* A statement fails or the connection is lost.                            *)
Fail(i) ==
  /\ state[i] = "live"
  /\ state' = [state EXCEPT ![i] = "failed"]
  /\ UNCHANGED <<ran, durable, told>>

(* Everything becomes durable; told so, or an error when the answer is     *)
(* lost.                                                                   *)
Commit(i) ==
  /\ state[i] = "live"
  /\ state' = [state EXCEPT ![i] = "over"]
  /\ durable' = [durable EXCEPT ![i] = ran[i]]
  /\ \E m \in {"committed", "error"} : told' = [told EXCEPT ![i] = m]
  /\ UNCHANGED ran

(* Nothing becomes durable, and the program is never told "committed".     *)
Rollback(i) ==
  /\ state[i] \in {"live", "failed"}
  /\ state' = [state EXCEPT ![i] = "over"]
  /\ \E m \in {"rolledback", "error"} : told' = [told EXCEPT ![i] = m]
  /\ UNCHANGED <<ran, durable>>

Next == \E i \in Ids : Begin(i) \/ Write(i) \/ Fail(i) \/ Commit(i) \/ Rollback(i)

Spec == Init /\ [][Next]_vars
=============================================================================
