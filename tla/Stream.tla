------------------------------- MODULE Stream -------------------------------
(***************************************************************************)
(* One streaming endpoint (@api(stream=True)): a handler on a blocking     *)
(* thread writes chunks into a bounded tokio channel, and the response     *)
(* sends them to the client as server-sent events (core/src/api/server.rs  *)
(* and PyStreamSink in python/src/lib.rs).                                 *)
(*                                                                         *)
(* The handler may share its `stream` with threads of its own, which write *)
(* while it does and after it has returned.  A write clones the sink under *)
(* a lock, releases the GIL and waits for a place; the end of the handler  *)
(* takes the sink away; the response ends when no sender is left.          *)
(***************************************************************************)
EXTENDS Integers, FiniteSets, SequencesExt

CONSTANTS
  Writers,    (* the threads that write: the handler's and its helpers     *)
  Handler,    (* the one the handler runs on                               *)
  Cap,        (* the channel's capacity (64)                               *)
  MaxWrites   (* bound: writes of each thread                              *)

ASSUME StreamAssumption ==
  /\ IsFiniteSet(Writers)
  /\ Handler \in Writers
  /\ Cap \in Nat \ {0}
  /\ MaxWrites \in Nat

VARIABLES
  job,       (* the blocking job that runs the handler                     *)
  open,      (* PyStreamSink.sink is Some                                  *)
  calls,     (* the writes each thread has begun                           *)
  waiting,   (* threads in blocking_send that wait for a permit, in order  *)
  permits,   (* threads that have one and have not pushed their chunk yet  *)
  buf,       (* chunks in the channel                                      *)
  client,    (* the other end: reading, stalled, gone, or told of the end  *)
  accepted,  (* history: the chunks whose write returned True              *)
  received   (* the chunks sent to the client                              *)

writerVars == <<calls, waiting, permits>>
chunkVars  == <<buf, accepted, received>>
vars       == <<job, open, calls, waiting, permits, buf, client, accepted, received>>

Chunks    == Writers \X (1..MaxWrites)
Blocked   == Range(waiting) \union permits
Used      == Len(buf) + Cardinality(permits)

(* Mutant: the end of the handler closes the channel under the writes.     *)
ClosedByHandler == ~open

(* The channel is closed once its last sender is dropped: the sink itself, *)
(* and the clone of each write that is under way.                          *)
Closed == ~open /\ Blocked = {}

Init ==
  /\ job = "queued"
  /\ open = TRUE
  /\ calls = [w \in Writers |-> 0]
  /\ waiting = <<>>
  /\ permits = {}
  /\ buf = <<>>
  /\ client = "reading"
  /\ accepted = <<>>
  /\ received = <<>>

-----------------------------------------------------------------------------
(* The handler.                                                            *)

(* The response has begun before the job does.  Its arguments may not be   *)
(* those of the handler: nothing is written then and the sink is dropped.  *)
Start ==
  /\ job = "queued"
  /\ \/ job' = "running" /\ UNCHANGED open
     \/ job' = "failed" /\ open' = FALSE
  /\ UNCHANGED <<writerVars, client, chunkVars>>

(* Mutant: the sink is left to Python's garbage collector.                 *)
HandlerEndsOpen ==
  /\ job = "running"
  /\ Handler \notin Blocked
  /\ job' = "returned"
  /\ UNCHANGED <<open, writerVars, client, chunkVars>>

(* The handler returns or raises: the client cannot tell which.            *)
HandlerEnds ==
  /\ job = "running"
  /\ Handler \notin Blocked
  /\ job' = "returned"
  /\ open' = FALSE
  /\ UNCHANGED <<writerVars, client, chunkVars>>

(* stream.write: False at once when the sink has been taken away.          *)
CallWrite(w) ==
  /\ job = "running" \/ (job = "returned" /\ w # Handler)
  /\ w \notin Blocked
  /\ calls[w] < MaxWrites
  /\ calls' = [calls EXCEPT ![w] = @ + 1]
  /\ waiting' = IF open THEN Append(waiting, w) ELSE waiting
  /\ UNCHANGED <<job, open, permits, client, chunkVars>>

-----------------------------------------------------------------------------
(* The channel: tokio's, whose places are given in the order of the wait.  *)

GetPermit ==
  /\ client # "gone"
  /\ waiting # <<>>
  /\ Used < Cap
  /\ permits' = permits \union {Head(waiting)}
  /\ waiting' = Tail(waiting)
  /\ UNCHANGED <<job, open, calls, client, chunkVars>>

(* Mutant: a write whose client has left waits like the others.            *)
WriteFailsOnceClosed(w) ==
  /\ client = "gone"
  /\ ~open
  /\ \E i \in DOMAIN waiting :
       waiting[i] = w /\ waiting' = RemoveAt(waiting, i)
  /\ UNCHANGED <<job, open, calls, permits, client, chunkVars>>

(* The client has left: write returns False.                               *)
WriteFails(w) ==
  /\ client = "gone"
  /\ \E i \in DOMAIN waiting :
       waiting[i] = w /\ waiting' = RemoveAt(waiting, i)
  /\ UNCHANGED <<job, open, calls, permits, client, chunkVars>>

(* Mutant: try_send, whose refusal is taken for a success.                 *)
PushOrDrop(w) ==
  /\ w \in permits
  /\ permits' = permits \ {w}
  /\ accepted' = Append(accepted, <<w, calls[w]>>)
  /\ buf' = IF client = "gone" \/ Used = Cap THEN buf ELSE Append(buf, <<w, calls[w]>>)
  /\ UNCHANGED <<job, open, calls, waiting, client, received>>

(* write returns True, even if the client has just left.                   *)
Push(w) ==
  /\ w \in permits
  /\ permits' = permits \ {w}
  /\ accepted' = Append(accepted, <<w, calls[w]>>)
  /\ buf' = IF client = "gone" THEN buf ELSE Append(buf, <<w, calls[w]>>)
  /\ UNCHANGED <<job, open, calls, waiting, client, received>>

-----------------------------------------------------------------------------
(* The response and its client.                                            *)

Deliver ==
  /\ client = "reading"
  /\ buf # <<>>
  /\ received' = Append(received, Head(buf))
  /\ buf' = Tail(buf)
  /\ UNCHANGED <<job, open, writerVars, client, accepted>>

End ==
  /\ client = "reading"
  /\ buf = <<>>
  /\ Closed
  /\ client' = "ended"
  /\ UNCHANGED <<job, open, writerVars, chunkVars>>

(* A client that does not read, as long as it likes: nothing bounds it.    *)
Stall ==
  /\ client = "reading"
  /\ client' = "stalled"
  /\ UNCHANGED <<job, open, writerVars, chunkVars>>

Resume ==
  /\ client = "stalled"
  /\ client' = "reading"
  /\ UNCHANGED <<job, open, writerVars, chunkVars>>

(* The client leaves: the receiver is dropped, with what it holds.         *)
Leave ==
  /\ client \in {"reading", "stalled"}
  /\ client' = "gone"
  /\ buf' = <<>>
  /\ UNCHANGED <<job, open, writerVars, accepted, received>>

-----------------------------------------------------------------------------
Next ==
  \/ Start \/ HandlerEnds \/ GetPermit
  \/ \E w \in Writers : CallWrite(w) \/ WriteFails(w) \/ Push(w)
  \/ Deliver \/ End \/ Stall \/ Resume \/ Leave

Spec == Init /\ [][Next]_vars

(* The runtime serves the channel and the connection.  Nothing is assumed  *)
(* of the handler, nor of a client that stalls.                            *)
Fairness ==
  /\ WF_vars(GetPermit)
  /\ \A w \in Writers : WF_vars(WriteFails(w)) /\ WF_vars(Push(w))
  /\ WF_vars(Deliver)
  /\ WF_vars(End)

FairSpec == Spec /\ Fairness

-----------------------------------------------------------------------------
TypeOK ==
  /\ job \in {"queued", "running", "returned", "failed"}
  /\ open \in BOOLEAN
  /\ calls \in [Writers -> 0..MaxWrites]
  /\ waiting \in Seq(Writers)
  /\ permits \subseteq Writers
  /\ buf \in Seq(Chunks)
  /\ Used <= Cap
  /\ client \in {"reading", "stalled", "gone", "ended"}
  /\ accepted \in Seq(Chunks)
  /\ received \in Seq(Chunks)

(* The end of the stream is the last thing a client is told: it has then   *)
(* every chunk whose write returned True, those included that were under   *)
(* way when the handler returned, and no later write returns True.         *)
EndIsLast == client = "ended" => received = accepted

(* Every chunk comes once, and after the one its thread wrote before it.   *)
InTurn(s) ==
  /\ \A i \in DOMAIN s :
       s[i][2] > 1 => \E j \in 1..(i - 1) : s[j] = <<s[i][1], s[i][2] - 1>>
  /\ \A i, j \in DOMAIN s : s[i] = s[j] => i = j

(* Whatever the interleaving, the client gets the chunks of each thread in *)
(* the order of its writes, once and without a gap.                        *)
NoGaps == InTurn(received)

(* A write does not keep its thread (one of the pool all handlers share)   *)
(* once the client has left: it only waits for a client that is there and  *)
(* does not read.                                                          *)
WritersReleased ==
  \A w \in Writers : w \in Blocked ~> (w \notin Blocked \/ client = "stalled")

(* "the end of the stream does not depend on Python's GC" (PyStreamSink):  *)
(* when the handler is over, a client that reads sees the end.             *)
StreamEnds ==
  job \in {"returned", "failed"} ~> client \in {"ended", "gone", "stalled"}
=============================================================================
