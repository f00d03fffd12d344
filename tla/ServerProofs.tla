---------------------------- MODULE ServerProofs ----------------------------
(***************************************************************************)
(* What the drain of module Server guarantees, for every number of         *)
(* requests, of blocking threads and every kind of endpoint; and that a    *)
(* supervisor of such servers (module Workers) leaves none behind.         *)
(***************************************************************************)
EXTENDS Server, Workers, TLAPS

(* Before it listens the server has seen no request.                       *)
NothingBefore ==
  srv = "starting" =>
    /\ lb = "down"
    /\ \A r \in Reqs : req[r] = "none"
    /\ \A j \in Jobs : job[j] = "none"

(* Once it stops listening it holds no unread request, and once the        *)
(* runtime goes it serves none.                                            *)
NothingAfter ==
  \A r \in Reqs :
    /\ srv \in {"closing", "dropping", "done"} => req[r] # "sent"
    /\ srv \in {"dropping", "done"} => req[r] \notin InFlight

(* The jobs that survive each stage of the runtime's end.                  *)
JobsAfter ==
  \A j \in Jobs :
    /\ srv \in {"dropping", "done"} => job[j] # "queued"
    /\ srv = "done" => job[j] \notin {"running", "hung"}

(* Who may still wait for a job that has not started.                      *)
QueuedFor ==
  \A r \in Reqs :
    /\ job[<<r, "auth">>] = "queued" => req[r] \in {"auth", "gone"}
    /\ job[<<r, "work">>] = "queued" =>
         \/ req[r] \in {"work", "gone"}
         \/ req[r] = "answered" /\ status[r] = 504

(* The inductive invariant.                                                *)
IInv ==
  /\ TypeOK
  /\ NothingBefore
  /\ NothingAfter
  /\ JobsAfter
  /\ QueuedFor
  /\ DrainedInTime
  /\ AbandonsOnlyUnawaited

(* The jobs of a request, one by one.                                      *)
LEMMA JobsOf ==
  \A r \in Reqs : <<r, "auth">> \in Jobs /\ <<r, "work">> \in Jobs
BY DEF Jobs

LEMMA InitHolds == Init => IInv
<1> SUFFICES ASSUME Init PROVE IInv
  OBVIOUS
<1> USE JobsOf DEF Init, InFlight, Over, Results
<1>1. TypeOK
  BY ZenonT(60) DEF TypeOK
<1>2. \A j \in Jobs : job[j] = "none"
  OBVIOUS
<1>3. \A r \in Reqs : job[<<r, "auth">>] = "none" /\ job[<<r, "work">>] = "none"
  BY <1>2
<1>4. NothingBefore /\ NothingAfter /\ JobsAfter
  BY <1>2 DEF NothingBefore, NothingAfter, JobsAfter
<1>5. QueuedFor /\ DrainedInTime /\ AbandonsOnlyUnawaited
  BY <1>2, <1>3 DEF QueuedFor, DrainedInTime, AbandonsOnlyUnawaited
<1> QED BY <1>1, <1>4, <1>5 DEF IInv

(* Steps of the main thread.                                               *)
LEMMA MainKeeps ==
  ASSUME IInv, Signal \/ MainSteps
  PROVE  IInv'
<1> USE JobsOf DEF IInv, TypeOK, InFlight, Over, Results
<1>1. CASE Signal
  BY <1>1 DEF Signal, config, lbVars, NothingBefore, NothingAfter, JobsAfter,
     QueuedFor, DrainedInTime, AbandonsOnlyUnawaited
<1>2. CASE StopAccepting
  BY <1>2 DEF StopAccepting, config, lbVars, NothingBefore, NothingAfter, JobsAfter,
     QueuedFor, DrainedInTime, AbandonsOnlyUnawaited
<1>3. ASSUME NEW how \in Over, Exit(how), srv = "done" \/ how = "late",
             main \notin Over
      PROVE  IInv'
  <2> USE <1>3 DEF Exit, config, lbVars, Pending, Busy
  <2>1. TypeOK'
    OBVIOUS
  <2>2. NothingBefore'
    BY DEF NothingBefore
  <2>3. NothingAfter'
    BY DEF NothingAfter
  <2>4. JobsAfter'
    BY DEF JobsAfter
  <2>5. QueuedFor'
    BY ZenonT(60) DEF QueuedFor
  <2>6. DrainedInTime'
    BY DEF DrainedInTime, NothingAfter, JobsAfter
  <2>7. AbandonsOnlyUnawaited'
    BY DEF AbandonsOnlyUnawaited
  <2> QED BY <2>1, <2>2, <2>3, <2>4, <2>5, <2>6, <2>7
<1>4. CASE Drained \/ DrainsLate \/ ServerFailed
  BY <1>3, <1>4 DEF Drained, DrainsLate, ServerFailed
<1> QED BY <1>1, <1>2, <1>4 DEF MainSteps

(* Steps of the server thread.                                             *)
LEMMA ServerKeeps ==
  ASSUME IInv, ServerSteps
  PROVE  IInv'
<1> USE JobsOf DEF IInv, TypeOK, InFlight, Over, Results, mainVars, lbVars
<1>1. CASE Listen \/ ListenFails
  BY <1>1 DEF Listen, ListenFails, NothingBefore, NothingAfter, JobsAfter,
     QueuedFor, DrainedInTime, AbandonsOnlyUnawaited
<1>2. CASE CloseListener
  BY <1>2 DEF CloseListener, NothingBefore, NothingAfter, JobsAfter,
     QueuedFor, DrainedInTime, AbandonsOnlyUnawaited
<1>3. CASE CloseRuntime
  <2> USE <1>3 DEF CloseRuntime, Pending
  <2>1. TypeOK' /\ NothingBefore'
    BY DEF NothingBefore
  <2>2. NothingAfter' /\ JobsAfter'
    BY DEF NothingAfter, JobsAfter
  <2>3. QueuedFor' /\ DrainedInTime'
    BY DEF QueuedFor, DrainedInTime
  <2>4. AbandonsOnlyUnawaited'
    BY DEF QueuedFor, AbandonsOnlyUnawaited
  <2> QED BY <2>1, <2>2, <2>3, <2>4
<1>4. CASE EndThread
  BY <1>4 DEF EndThread, Busy, NothingBefore, NothingAfter, JobsAfter,
     QueuedFor, DrainedInTime, AbandonsOnlyUnawaited
<1> QED BY <1>1, <1>2, <1>3, <1>4 DEF ServerSteps

(* Steps of the clients and of the load balancer.                          *)
LEMMA ClientsKeep ==
  ASSUME IInv, Poll \/ \E r \in Reqs : Send(r) \/ Disconnect(r)
  PROVE  IInv'
<1> USE JobsOf DEF IInv, TypeOK, InFlight, Over, Results, mainVars, lbVars
<1>1. CASE Poll
  BY <1>1 DEF Poll, NothingBefore, NothingAfter, JobsAfter,
     QueuedFor, DrainedInTime, AbandonsOnlyUnawaited
<1>2. ASSUME NEW r \in Reqs, Send(r)
      PROVE  IInv'
  BY <1>2 DEF Send, NothingBefore, NothingAfter, JobsAfter,
     QueuedFor, DrainedInTime, AbandonsOnlyUnawaited
<1>3. ASSUME NEW r \in Reqs, Disconnect(r)
      PROVE  IInv'
  BY <1>3 DEF Disconnect, Pending, NothingBefore, NothingAfter, JobsAfter,
     QueuedFor, DrainedInTime, AbandonsOnlyUnawaited
<1> QED BY <1>1, <1>2, <1>3

(* The two ways a request moves on, from one of its stages in the server.  *)
LEMMA AnswerKeeps ==
  ASSUME IInv, NEW r \in Reqs, req[r] \in InFlight, main \notin Over,
         NEW s \in {200, 401, 413, 500, 502, 504}, Answer(r, s),
         job[<<r, "auth">>] # "queued",
         s = 504 \/ job[<<r, "work">>] # "queued",
         \A k \in {"auth", "work"} : job[<<r, k>>] # "dropped",
         UNCHANGED <<mainVars, srv, lbVars>>
  PROVE  IInv'
<1> USE JobsOf DEF IInv, TypeOK, InFlight, Over, Results, Answer, mainVars, lbVars
<1>1. TypeOK' /\ NothingBefore' /\ NothingAfter'
  BY DEF NothingBefore, NothingAfter
<1>2. JobsAfter' /\ QueuedFor'
  BY DEF JobsAfter, QueuedFor
<1>3. DrainedInTime' /\ AbandonsOnlyUnawaited'
  BY DEF DrainedInTime, AbandonsOnlyUnawaited
<1> QED BY <1>1, <1>2, <1>3

LEMMA SubmitKeeps ==
  ASSUME IInv, NEW r \in Reqs, req[r] \in InFlight, main \notin Over,
         NEW stage \in {"auth", "work"}, Submit(r, stage),
         \A k \in {"auth", "work"} : job[<<r, k>>] \notin {"queued", "dropped"},
         UNCHANGED <<mainVars, srv, lbVars>>
  PROVE  IInv'
<1> USE JobsOf DEF IInv, TypeOK, InFlight, Over, Results, Submit, mainVars, lbVars
<1>0. srv \notin {"starting", "dropping", "done"}
  BY DEF NothingBefore, NothingAfter
<1>1. TypeOK' /\ NothingBefore' /\ NothingAfter'
  BY <1>0 DEF NothingBefore, NothingAfter
<1>2. JobsAfter' /\ QueuedFor'
  BY <1>0 DEF JobsAfter, QueuedFor
<1>3. DrainedInTime'
  BY DEF DrainedInTime
<1>4. AbandonsOnlyUnawaited'
  BY DEF AbandonsOnlyUnawaited
<1> QED BY <1>1, <1>2, <1>3, <1>4

(* Steps of a request in the server.                                       *)
LEMMA ServingKeeps ==
  ASSUME IInv, NEW r \in Reqs,
         Accept(r) \/ BodyRead(r) \/ AuthDone(r) \/ Respond(r) \/ TimeOut(r)
           \/ Forwarded(r)
  PROVE  IInv'
<1> USE JobsOf DEF InFlight
<1>1. CASE Accept(r)
  BY <1>1 DEF Accept, IInv, TypeOK, Over, Results, mainVars, lbVars, NothingBefore,
     NothingAfter, JobsAfter, QueuedFor, DrainedInTime, AbandonsOnlyUnawaited
<1>2. ASSUME req[r] \in {"body", "auth", "forward"}
      PROVE  /\ job[<<r, "work">>] \notin {"queued", "dropped"}
             /\ job[<<r, "auth">>] # "dropped"
             /\ req[r] # "auth" => job[<<r, "auth">>] # "queued"
  BY <1>2 DEF IInv, QueuedFor, AbandonsOnlyUnawaited
<1>3. ASSUME req[r] \in {"body", "auth"}, Alive, Dispatch(r),
             job[<<r, "auth">>] # "queued",
             UNCHANGED <<mainVars, srv, lbVars>>
      PROVE  IInv'
  <2>1. CASE Submit(r, "work")
    BY <1>2, <1>3, <2>1, SubmitKeeps DEF Alive
  <2>2. CASE req' = [req EXCEPT ![r] = "forward"] /\ UNCHANGED <<status, job>>
    BY <1>3, <2>2 DEF IInv, TypeOK, Over, Results, mainVars, lbVars, NothingBefore,
       NothingAfter, JobsAfter, QueuedFor, DrainedInTime, AbandonsOnlyUnawaited
  <2> QED BY <1>3, <2>1, <2>2 DEF Dispatch
<1>4. CASE BodyRead(r)
  <2>1. /\ req[r] = "body"
        /\ Alive
        /\ UNCHANGED <<mainVars, srv, lbVars>>
        /\ job[<<r, "auth">>] # "queued"
    BY <1>4, <1>2 DEF BodyRead
  <2>2. ASSUME NEW s \in {401, 413, 500}, Answer(r, s)
        PROVE  IInv'
    BY <1>2, <2>1, <2>2, AnswerKeeps DEF Alive
  <2>3. CASE Submit(r, "auth")
    BY <1>2, <2>1, <2>3, SubmitKeeps DEF Alive
  <2>4. CASE Dispatch(r)
    BY <1>3, <2>1, <2>4
  <2> QED BY <1>4, <2>2, <2>3, <2>4 DEF BodyRead
<1>5. CASE AuthDone(r)
  <2>1. /\ req[r] = "auth"
        /\ Alive
        /\ UNCHANGED <<mainVars, srv, lbVars>>
        /\ job[<<r, "auth">>] # "queued"
    BY <1>5 DEF AuthDone
  <2>2. ASSUME NEW s \in {401, 500}, Answer(r, s)
        PROVE  IInv'
    BY <1>2, <2>1, <2>2, AnswerKeeps DEF Alive
  <2>3. CASE Dispatch(r)
    BY <1>3, <2>1, <2>3
  <2> QED BY <1>5, <2>2, <2>3 DEF AuthDone
<1>6. CASE Respond(r) \/ TimeOut(r)
  <2>1. /\ req[r] = "work"
        /\ Alive
        /\ UNCHANGED <<mainVars, srv, lbVars>>
        /\ job[<<r, "auth">>] \notin {"queued", "dropped"}
        /\ job[<<r, "work">>] # "dropped"
    BY <1>6 DEF Respond, TimeOut, IInv, QueuedFor, AbandonsOnlyUnawaited
  <2>2. ASSUME NEW s \in {200, 500, 504}, Answer(r, s),
               s = 504 \/ job[<<r, "work">>] # "queued"
        PROVE  IInv'
    BY <2>1, <2>2, AnswerKeeps DEF Alive
  <2> QED BY <1>6, <2>2 DEF Respond, TimeOut
<1>7. CASE Forwarded(r)
  BY <1>2, <1>7, AnswerKeeps DEF Forwarded, Alive
<1> QED BY <1>1, <1>4, <1>5, <1>6, <1>7

(* Steps of the blocking pool.                                             *)
LEMMA JobsKeep ==
  ASSUME IInv, NEW j \in Jobs, StartJob(j) \/ FinishJob(j) \/ Hang(j)
  PROVE  IInv'
<1> USE JobsOf DEF IInv, TypeOK, InFlight, Over, Results, mainVars, lbVars
<1>1. PICK to \in {"running", "hung"} \union Results :
        /\ Alive
        /\ job[j] \in {"queued", "running"}
        /\ job[j] = "queued" => to = "running"
        /\ job' = [job EXCEPT ![j] = to]
        /\ UNCHANGED <<mainVars, srv, lbVars, req, status>>
  BY DEF StartJob, FinishJob, Hang
<1>2. srv \notin {"starting", "done"}
  BY <1>1 DEF NothingBefore, JobsAfter
<1>3. TypeOK' /\ NothingBefore' /\ NothingAfter'
  BY <1>1, <1>2 DEF NothingBefore, NothingAfter
<1>4. JobsAfter' /\ QueuedFor'
  BY <1>1, <1>2 DEF JobsAfter, QueuedFor
<1>5. DrainedInTime' /\ AbandonsOnlyUnawaited'
  BY <1>1 DEF DrainedInTime, AbandonsOnlyUnawaited
<1> QED BY <1>3, <1>4, <1>5

LEMMA StutterKeeps == ASSUME IInv, UNCHANGED vars PROVE IInv'
BY DEF vars, mainVars, lbVars, IInv, TypeOK, NothingBefore, NothingAfter, JobsAfter,
   QueuedFor, DrainedInTime, AbandonsOnlyUnawaited

LEMMA InductiveStep == ASSUME IInv, [Next]_vars PROVE IInv'
BY MainKeeps, ServerKeeps, ClientsKeep, ServingKeeps, JobsKeep, StutterKeeps
   DEF Next, Serving

LEMMA ServerInductive == Spec => []IInv
BY InitHolds, InductiveStep, PTL DEF Spec

(* The type invariant, for any number of requests and threads.             *)
THEOREM ServerTypeCorrect == Spec => []TypeOK
BY ServerInductive, PTL DEF IInv

(* The process owes nothing when it ends in time: graceful_shutdown waits  *)
(* for the server thread, which waits for its connections and, dropping    *)
(* the runtime, for the handlers that have started.                        *)
THEOREM DrainsWhatItOwes == Spec => []DrainedInTime
BY ServerInductive, PTL DEF IInv

(* What the end of the runtime abandons, nobody waits for: a job is only   *)
(* queued for a request in flight, one answered 504, or one whose client   *)
(* left.                                                                   *)
THEOREM AbandonsNoAwaitedHandler == Spec => []AbandonsOnlyUnawaited
BY ServerInductive, PTL DEF IInv

-----------------------------------------------------------------------------
(* The keep-accepting window.                                              *)

(* The main thread and the server thread agree on how far the shutdown is. *)
ShutdownOrder ==
  /\ polled => flag
  /\ stop <=> main \in {"draining", "drained", "late"}
  /\ srv \in {"closing", "dropping"} => stop
  /\ main = "failed" => srv = "done"

(* The load balancer routes to a server that listens until the shutdown    *)
(* closes it; with a window, it has stopped by then and nothing is unread. *)
LbFollows ==
  /\ lb = "up" /\ ~stop => srv = "accepting"
  /\ polled /\ ~gateway => lb = "down"
  /\ stop /\ window /\ ~gateway => polled /\ \A r \in Reqs : req[r] # "sent"

WInv == IInv /\ ShutdownOrder /\ LbFollows /\ NothingRefused

LEMMA WindowInit == Init => WInv
<1> SUFFICES ASSUME Init PROVE WInv
  OBVIOUS
<1>1. ShutdownOrder /\ LbFollows /\ NothingRefused
  BY DEF Init, ShutdownOrder, LbFollows, NothingRefused, Refused
<1> QED BY <1>1, InitHolds DEF WInv

LEMMA WindowMain ==
  ASSUME WInv, Signal \/ MainSteps
  PROVE  (ShutdownOrder /\ LbFollows /\ NothingRefused)'
<1> USE DEF WInv, IInv, TypeOK, ShutdownOrder, LbFollows, NothingRefused, Refused,
            config, lbVars, Over
<1>1. CASE Signal
  BY <1>1 DEF Signal
<1>2. CASE StopAccepting
  BY <1>2 DEF StopAccepting
<1>3. ASSUME NEW how \in Over, Exit(how), main \notin Over,
             \/ how = "failed" /\ main = "serving" /\ srv = "done"
             \/ how # "failed" /\ main = "draining"
      PROVE  (ShutdownOrder /\ LbFollows /\ NothingRefused)'
  <2> USE <1>3 DEF Exit, Pending, InFlight
  <2>1. ShutdownOrder'
    OBVIOUS
  <2>2. window /\ ~gateway => \A r \in Reqs : req[r] # "sent"
    BY DEF NothingAfter
  <2>3. LbFollows' /\ NothingRefused'
    BY <2>2
  <2> QED BY <2>1, <2>3
<1>4. CASE Drained \/ DrainsLate \/ ServerFailed
  BY <1>3, <1>4 DEF Drained, DrainsLate, ServerFailed
<1> QED BY <1>1, <1>2, <1>4 DEF MainSteps

LEMMA WindowServer ==
  ASSUME WInv, ServerSteps
  PROVE  (ShutdownOrder /\ LbFollows /\ NothingRefused)'
<1> USE DEF WInv, IInv, TypeOK, ShutdownOrder, LbFollows, NothingRefused, Refused,
            mainVars, lbVars, Over, Alive
<1>1. CASE Listen \/ ListenFails
  BY <1>1 DEF Listen, ListenFails, NothingBefore
<1>2. CASE CloseListener
  BY <1>2 DEF CloseListener
<1>3. CASE CloseRuntime \/ EndThread
  BY <1>3 DEF CloseRuntime, EndThread
<1> QED BY <1>1, <1>2, <1>3 DEF ServerSteps

LEMMA WindowClients ==
  ASSUME WInv, Poll \/ \E r \in Reqs : Send(r) \/ Disconnect(r)
  PROVE  (ShutdownOrder /\ LbFollows /\ NothingRefused)'
<1> USE DEF WInv, IInv, TypeOK, ShutdownOrder, LbFollows, NothingRefused, Refused,
            mainVars, lbVars, Over, Alive
<1>1. CASE Poll
  BY <1>1 DEF Poll
<1>2. ASSUME NEW r \in Reqs, Send(r)
      PROVE  (ShutdownOrder /\ LbFollows /\ NothingRefused)'
  <2>1. /\ ~stop => Alive /\ srv = "accepting"
        /\ window /\ ~gateway => ~stop
    BY <1>2 DEF Send
  <2>2. \A q \in Reqs : q # r => req'[q] = req[q]
    BY <1>2 DEF Send
  <2>3. ~stop => req'[r] = "sent"
    BY <1>2, <2>1 DEF Send
  <2> QED BY <1>2, <2>1, <2>2, <2>3 DEF Send
<1>3. ASSUME NEW r \in Reqs, Disconnect(r)
      PROVE  (ShutdownOrder /\ LbFollows /\ NothingRefused)'
  BY <1>3 DEF Disconnect
<1> QED BY <1>1, <1>2, <1>3

(* What happens inside the server neither refuses a request nor sends one. *)
LEMMA WindowServing ==
  ASSUME WInv,
         \/ \E r \in Reqs : BodyRead(r) \/ Serving(r) \/ Forwarded(r)
         \/ \E j \in Jobs : StartJob(j) \/ FinishJob(j) \/ Hang(j)
  PROVE  (ShutdownOrder /\ LbFollows /\ NothingRefused)'
<1>1. /\ UNCHANGED <<mainVars, srv, lbVars>>
      /\ \A r \in Reqs : req'[r] = req[r] \/ req'[r] \notin {"sent", "refused"}
  <2> USE DEF WInv, IInv, TypeOK, Answer, Submit, Dispatch
  <2>1. ASSUME NEW r \in Reqs, BodyRead(r) \/ Serving(r) \/ Forwarded(r)
        PROVE  <1>1!1 /\ <1>1!2
    BY <2>1 DEF BodyRead, Serving, Accept, AuthDone, Respond, TimeOut, Forwarded
  <2>2. ASSUME NEW j \in Jobs, StartJob(j) \/ FinishJob(j) \/ Hang(j)
        PROVE  <1>1!1 /\ <1>1!2
    BY <2>2 DEF StartJob, FinishJob, Hang
  <2> QED BY <2>1, <2>2
<1> QED
  BY <1>1 DEF WInv, ShutdownOrder, LbFollows, NothingRefused, Refused, mainVars, lbVars

LEMMA WindowStutter ==
  ASSUME WInv, UNCHANGED vars
  PROVE  (ShutdownOrder /\ LbFollows /\ NothingRefused)'
BY DEF WInv, vars, ShutdownOrder, LbFollows, NothingRefused, Refused

(* A service with a keep-accepting window turns no request away: the flag  *)
(* is set before the window, the load balancer polls healthz within it,    *)
(* and the listener only closes after it.                                  *)
THEOREM WindowRefusesNone == Spec => []NothingRefused
<1>1. ASSUME WInv, [Next]_vars
      PROVE  WInv'
  <2>1. IInv'
    BY <1>1, InductiveStep DEF WInv
  <2>2. (ShutdownOrder /\ LbFollows /\ NothingRefused)'
    BY <1>1, WindowMain, WindowServer, WindowClients, WindowServing, WindowStutter
       DEF Next
  <2> QED BY <2>1, <2>2 DEF WInv
<1>2. WInv => NothingRefused
  BY DEF WInv
<1> QED BY <1>1, <1>2, WindowInit, PTL DEF Spec

-----------------------------------------------------------------------------
(* Several servers under a supervisor (module Workers): it leaves no       *)
(* worker behind, whatever their number and whenever signals arrive.       *)
(*                                                                         *)
(* A worker that runs has not been reaped: os.wait only tells of the dead, *)
(* and no worker is forked twice.                                          *)
Reapable == Running \subseteq alive

(* The inductive invariant.                                                *)
SupInv == SupType /\ Reapable /\ NoOrphans

LEMMA SupStarts == SupInit => SupInv
BY DEF SupInit, SupInv, SupType, Reapable, NoOrphans, Running, Ended

(* Steps of the supervisor.                                                *)
LEMMA SupParent ==
  ASSUME SupInv, ParentStep
  PROVE  SupInv'
<1> USE DEF SupInv, SupType, Reapable, NoOrphans, Running, Ended
<1>1. CASE WaitChild
  BY <1>1 DEF WaitChild
<1>2. CASE Watch
  BY <1>2 DEF Watch
<1>3. CASE StopOthers
  BY <1>3 DEF StopOthers, Stop
<1>4. CASE Leave
  BY <1>4 DEF Leave
<1>5. ASSUME NEW w \in Workers, Fork(w)
      PROVE  SupInv'
  BY <1>5 DEF Fork
<1>6. ASSUME NEW w \in Workers, Reap(w)
      PROVE  SupInv'
  <2>1. w \notin Running
    BY <1>6 DEF Reap
  <2>2. Reapable' /\ SupType'
    BY <1>6, <2>1 DEF Reap
  <2>3. NoOrphans'
    BY <1>6 DEF Reap
  <2> QED BY <2>2, <2>3
<1> QED BY <1>1, <1>2, <1>3, <1>4, <1>5, <1>6 DEF ParentStep

(* Signals from outside, and the end of the throwaway child.               *)
LEMMA SupOutside ==
  ASSUME SupInv, ChildEnds \/ CtrlC \/ Term
  PROVE  SupInv'
<1> USE DEF SupInv, SupType, Reapable, NoOrphans, Running, Ended
<1>1. CASE ChildEnds
  BY <1>1 DEF ChildEnds
<1>2. CASE CtrlC
  BY <1>2 DEF CtrlC, HasHandlers
<1>3. CASE Term
  BY <1>3 DEF Term, Stop, HasHandlers
<1> QED BY <1>1, <1>2, <1>3

(* Steps of a worker: it may stop running, it never starts again.          *)
LEMMA SupWorker ==
  ASSUME SupInv, NEW w \in Workers, WorkerStep(w) \/ Dies(w)
  PROVE  SupInv'
<1> USE DEF SupInv, SupType, Reapable, NoOrphans, Running, Ended
<1>1. CASE Loaded(w)
  BY <1>1 DEF Loaded, Becomes
<1>2. CASE HandleSigint(w)
  BY <1>2 DEF HandleSigint, Becomes
<1>3. CASE DrainEnds(w)
  BY <1>3 DEF DrainEnds, Becomes
<1>4. CASE Dies(w)
  BY <1>4 DEF Dies, Becomes
<1> QED BY <1>1, <1>2, <1>3, <1>4 DEF WorkerStep

LEMMA SupInductive == SupInv /\ [SupNext]_supVars => SupInv'
<1> SUFFICES ASSUME SupInv, [SupNext]_supVars PROVE SupInv'
  OBVIOUS
<1>1. CASE SupNext
  BY <1>1, SupParent, SupOutside, SupWorker DEF SupNext
<1>2. CASE UNCHANGED supVars
  BY <1>2 DEF supVars, SupInv, SupType, Reapable, NoOrphans, Running
<1> QED BY <1>1, <1>2

LEMMA SupInvariant == SupSpec => []SupInv
BY SupStarts, SupInductive, PTL DEF SupSpec

(* The supervisor leaves no worker behind: it returns from _run_workers    *)
(* when all have ended, and when Ctrl-C ends it every one has been told    *)
(* to stop.                                                                *)
THEOREM LeavesNoOrphans == SupSpec => []NoOrphans
<1>1. SupInv => NoOrphans
  BY DEF SupInv
<1> QED BY SupInvariant, <1>1, PTL

(* The supervisor's bookkeeping is well typed, and a worker that runs has  *)
(* not been reaped, so os.wait waits for each of them.                     *)
THEOREM WaitsForEachWorker == SupSpec => [](SupType /\ Running \subseteq alive)
<1>1. SupInv => SupType /\ Running \subseteq alive
  BY DEF SupInv, Reapable
<1> QED BY SupInvariant, <1>1, PTL
=============================================================================
