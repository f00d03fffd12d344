------------------------------- MODULE Server -------------------------------
(***************************************************************************)
(* One serving process, from the listening socket to its exit: the main    *)
(* thread in _core.serve (python/src/lib.rs), which waits for a signal and *)
(* then drains; the server thread with its tokio runtime and its pool of   *)
(* blocking threads (core/src/api/server.rs); the requests; and the load   *)
(* balancer in front, which routes here while healthz answers 200.         *)
(*                                                                         *)
(* A request is "sent" while the kernel holds it (in the listen backlog,   *)
(* or unread on a connection) and in flight once the server has read its   *)
(* head.  Its handler is a job of the blocking pool with a life of its     *)
(* own: it goes on, or even starts, when nobody waits for it any more.     *)
(*                                                                         *)
(* Time is left out: a timer may fire at any moment.  The process is a     *)
(* service or the gateway, with the same life cycle (gateway::serve),      *)
(* which forwards requests instead of handling them.                       *)
(***************************************************************************)
EXTENDS Integers, FiniteSets

CONSTANTS
  Reqs,          (* requests, each sent at most once                       *)
  Protected,     (* those whose endpoint has auth=True, checked here       *)
  Timed,         (* those whose endpoint has a timeout (not 0)             *)
  PoolSize       (* blocking threads of the tokio runtime                  *)

ASSUME ServerAssumption ==
  /\ Protected \subseteq Reqs
  /\ Timed \subseteq Reqs
  /\ PoolSize \in Nat \ {0}

VARIABLES
  gateway,  (* TRUE if the process is the gateway                          *)
  window,   (* TRUE if VIGNEMALE_SHUTDOWN_KEEP_ACCEPTING is > 0            *)
  main,     (* the main thread: in the loop of serve, in graceful_shutdown *)
            (* or out of the process, drained, late or failed              *)
  flag,     (* shutting_down                                               *)
  stop,     (* the value of the shutdown watch channel                     *)
  srv,      (* the server thread                                           *)
  lb,       (* what the load balancer thinks of this process               *)
  polled,   (* it has polled healthz since the flag was set                *)
  req,      (* where each request is                                       *)
  status,   (* HTTP status answered, 0 before                              *)
  job       (* the blocking jobs of each request: its auth and its handler *)

config   == <<gateway, window>>
mainVars == <<gateway, window, main, flag, stop>>
lbVars   == <<lb, polled>>
vars     == <<gateway, window, main, flag, stop, srv, lb, polled, req, status, job>>

Jobs     == Reqs \X {"auth", "work"}
InFlight == {"body", "auth", "work", "forward"}
Results  == {"ok", "denied", "panicked"}
Over     == {"drained", "late", "failed"}

Alive       == main \notin Over
Pending(r)  == req[r] \in InFlight
Busy        == {j \in Jobs : job[j] \in {"running", "hung"}}

Init ==
  /\ gateway \in BOOLEAN
  /\ window \in BOOLEAN
  /\ main = "serving"
  /\ flag = FALSE
  /\ stop = FALSE
  /\ srv = "starting"
  /\ lb = "down"
  /\ polled = FALSE
  /\ req = [r \in Reqs |-> "none"]
  /\ status = [r \in Reqs |-> 0]
  /\ job = [j \in Jobs |-> "none"]

-----------------------------------------------------------------------------
(* The main thread.                                                        *)

(* check_signals raises; graceful_shutdown first turns healthz to 503.     *)
Signal ==
  /\ main = "serving"
  /\ main' = "keep"
  /\ flag' = TRUE
  /\ UNCHANGED <<config, stop, srv, lbVars, req, status, job>>

(* Mutant: no window.                                                      *)
StopAcceptingAtOnce ==
  /\ main = "keep"
  /\ main' = "draining"
  /\ stop' = TRUE
  /\ UNCHANGED <<config, flag, srv, lbVars, req, status, job>>

(* The end of the keep-accepting window.  Where there is one it is assumed *)
(* long enough for the load balancer to poll healthz, and for what it had  *)
(* routed before to be read.                                               *)
StopAccepting ==
  /\ main = "keep"
  /\ window => polled /\ \A r \in Reqs : req[r] # "sent"
  /\ main' = "draining"
  /\ stop' = TRUE
  /\ UNCHANGED <<config, flag, srv, lbVars, req, status, job>>

(* serve returns and the process ends, with all it was still doing.        *)
Exit(how) ==
  /\ main' = how
  /\ req' = [r \in Reqs |->
               IF Pending(r) THEN "cut"
               ELSE IF req[r] = "sent" THEN "refused" ELSE req[r]]
  /\ job' = [j \in Jobs |->
               IF job[j] = "queued" \/ j \in Busy THEN "killed" ELSE job[j]]
  /\ UNCHANGED <<config, flag, stop, srv, lbVars, status>>

(* Mutant: waits for the server thread without a deadline.                 *)
DrainsForEver == main = "draining" /\ srv = "done" /\ Exit("late")

(* is_finished, or the deadline of VIGNEMALE_SHUTDOWN_TIMEOUT.             *)
Drained    == main = "draining" /\ srv = "done" /\ Exit("drained")
DrainsLate == main = "draining" /\ srv # "done" /\ Exit("late")

(* The server thread ended by itself: it could not bind.                   *)
ServerFailed == main = "serving" /\ srv = "done" /\ Exit("failed")

-----------------------------------------------------------------------------
(* The server thread.                                                      *)

Listen ==
  /\ Alive
  /\ srv = "starting"
  /\ srv' = "accepting"
  /\ UNCHANGED <<mainVars, lbVars, req, status, job>>

ListenFails ==
  /\ Alive
  /\ srv = "starting"
  /\ srv' = "done"
  /\ UNCHANGED <<mainVars, lbVars, req, status, job>>

(* The graceful-shutdown future resolves, even for a send that came before *)
(* it was first polled: the listener is dropped, and what the server had   *)
(* not read with it.                                                       *)
CloseListener ==
  /\ Alive
  /\ srv = "accepting"
  /\ stop
  /\ srv' = "closing"
  /\ req' = [r \in Reqs |-> IF req[r] = "sent" THEN "refused" ELSE req[r]]
  /\ UNCHANGED <<mainVars, lbVars, status, job>>

(* Mutant: the runtime goes while connections are still served.            *)
CloseRuntimeAtOnce ==
  /\ Alive
  /\ srv = "closing"
  /\ srv' = "dropping"
  /\ job' = [j \in Jobs |-> IF job[j] = "queued" THEN "dropped" ELSE job[j]]
  /\ UNCHANGED <<mainVars, lbVars, req, status>>

(* axum::serve returns once every connection is closed.  The runtime is    *)
(* then dropped: jobs not started yet are abandoned ...                    *)
CloseRuntime ==
  /\ Alive
  /\ srv = "closing"
  /\ \A r \in Reqs : ~Pending(r)
  /\ srv' = "dropping"
  /\ job' = [j \in Jobs |-> IF job[j] = "queued" THEN "dropped" ELSE job[j]]
  /\ UNCHANGED <<mainVars, lbVars, req, status>>

(* Mutant: shutdown_background, which waits for no job.                    *)
EndThreadInBackground ==
  /\ Alive
  /\ srv = "dropping"
  /\ srv' = "done"
  /\ UNCHANGED <<mainVars, lbVars, req, status, job>>

(* ... and the running ones are waited for.                                *)
EndThread ==
  /\ Alive
  /\ srv = "dropping"
  /\ Busy = {}
  /\ srv' = "done"
  /\ UNCHANGED <<mainVars, lbVars, req, status, job>>

-----------------------------------------------------------------------------
(* Clients and the load balancer.                                          *)

(* healthz.  The gateway has no such route: it forwards the poll to the    *)
(* service behind "/", which is up.                                        *)
Poll ==
  /\ lb' = IF Alive /\ srv = "accepting" /\ (gateway \/ ~flag)
           THEN "up" ELSE "down"
  /\ polled' = flag
  /\ UNCHANGED <<mainVars, srv, req, status, job>>

Send(r) ==
  /\ lb = "up"
  /\ req[r] = "none"
  /\ req' = [req EXCEPT ![r] =
               IF Alive /\ srv = "accepting" THEN "sent" ELSE "refused"]
  /\ UNCHANGED <<mainVars, srv, lbVars, status, job>>

(* The client gives up: the connection closes and the future that served   *)
(* it is dropped.  Its job is not.                                         *)
Disconnect(r) ==
  /\ Alive
  /\ Pending(r) \/ req[r] = "sent"
  /\ req' = [req EXCEPT ![r] = "gone"]
  /\ UNCHANGED <<mainVars, srv, lbVars, status, job>>

-----------------------------------------------------------------------------
(* A request in the server.                                                *)

Accept(r) ==
  /\ Alive
  /\ srv = "accepting"
  /\ req[r] = "sent"
  /\ req' = [req EXCEPT ![r] = "body"]
  /\ UNCHANGED <<mainVars, srv, lbVars, status, job>>

Answer(r, s) ==
  /\ req' = [req EXCEPT ![r] = "answered"]
  /\ status' = [status EXCEPT ![r] = s]
  /\ UNCHANGED job

Submit(r, stage) ==
  /\ req' = [req EXCEPT ![r] = stage]
  /\ job' = [job EXCEPT ![<<r, stage>>] = "queued"]
  /\ UNCHANGED status

(* Past authentication: spawn_blocking of the handler, or the gateway's    *)
(* request to the service.                                                 *)
Dispatch(r) ==
  \/ ~gateway /\ Submit(r, "work")
  \/ gateway /\ req' = [req EXCEPT ![r] = "forward"] /\ UNCHANGED <<status, job>>

(* The whole body has come: refused by check_body, by run_auth for want of *)
(* a token or of an auth handler, or passed on.                            *)
BodyRead(r) ==
  /\ Alive
  /\ req[r] = "body"
  /\ \/ Answer(r, 413)
     \/ r \in Protected /\ \E s \in {401, 500} : Answer(r, s)
     \/ r \in Protected /\ Submit(r, "auth")
     \/ r \notin Protected /\ Dispatch(r)
  /\ UNCHANGED <<mainVars, srv, lbVars>>

(* The auth handler has answered: a refusal, whatever its status, is 401.  *)
(* Nothing bounds the wait for it.                                         *)
AuthDone(r) ==
  /\ Alive
  /\ req[r] = "auth"
  /\ \/ job[<<r, "auth">>] = "ok" /\ Dispatch(r)
     \/ job[<<r, "auth">>] = "denied" /\ Answer(r, 401)
     \/ job[<<r, "auth">>] = "panicked" /\ Answer(r, 500)
  /\ UNCHANGED <<mainVars, srv, lbVars>>

(* The handler has answered, whatever its status.                          *)
Respond(r) ==
  /\ Alive
  /\ req[r] = "work"
  /\ \/ job[<<r, "work">>] = "ok" /\ Answer(r, 200)
     \/ job[<<r, "work">>] = "panicked" /\ Answer(r, 500)
  /\ UNCHANGED <<mainVars, srv, lbVars>>

(* Mutant: the timer starts with the handler.                              *)
TimeOutOnceRunning(r) ==
  /\ Alive
  /\ r \in Timed
  /\ req[r] = "work"
  /\ job[<<r, "work">>] = "running"
  /\ Answer(r, 504)
  /\ UNCHANGED <<mainVars, srv, lbVars>>

(* tokio::time::timeout polls the handler first: it only gives up on one   *)
(* that has no answer yet, and leaves it queued or running.                *)
TimeOut(r) ==
  /\ Alive
  /\ r \in Timed
  /\ req[r] = "work"
  /\ job[<<r, "work">>] \in {"queued", "running", "hung"}
  /\ Answer(r, 504)
  /\ UNCHANGED <<mainVars, srv, lbVars>>

(* The service behind the gateway has answered, or is unreachable.         *)
Forwarded(r) ==
  /\ Alive
  /\ req[r] = "forward"
  /\ \E s \in {200, 502} : Answer(r, s)
  /\ UNCHANGED <<mainVars, srv, lbVars>>

(* Mutant: an off-by-one at the pool's limit.                              *)
StartJobBelowLimit(j) ==
  /\ Alive
  /\ job[j] = "queued"
  /\ Cardinality(Busy) + 1 < PoolSize
  /\ job' = [job EXCEPT ![j] = "running"]
  /\ UNCHANGED <<mainVars, srv, lbVars, req, status>>

(* The blocking pool.                                                      *)
StartJob(j) ==
  /\ Alive
  /\ job[j] = "queued"
  /\ Cardinality(Busy) < PoolSize
  /\ job' = [job EXCEPT ![j] = "running"]
  /\ UNCHANGED <<mainVars, srv, lbVars, req, status>>

FinishJob(j) ==
  /\ Alive
  /\ job[j] = "running"
  /\ \E res \in Results :
       /\ res = "denied" => j[2] = "auth"
       /\ job' = [job EXCEPT ![j] = res]
  /\ UNCHANGED <<mainVars, srv, lbVars, req, status>>

(* User code that never ends.                                              *)
Hang(j) ==
  /\ Alive
  /\ job[j] = "running"
  /\ job' = [job EXCEPT ![j] = "hung"]
  /\ UNCHANGED <<mainVars, srv, lbVars, req, status>>

-----------------------------------------------------------------------------
MainSteps   == StopAccepting \/ Drained \/ DrainsLate \/ ServerFailed
ServerSteps == Listen \/ ListenFails \/ CloseListener \/ CloseRuntime \/ EndThread
Serving(r)  == Accept(r) \/ AuthDone(r) \/ Respond(r) \/ TimeOut(r)

Next ==
  \/ Signal \/ MainSteps \/ ServerSteps \/ Poll
  \/ \E r \in Reqs :
       Send(r) \/ Disconnect(r) \/ BodyRead(r) \/ Serving(r) \/ Forwarded(r)
  \/ \E j \in Jobs : StartJob(j) \/ FinishJob(j) \/ Hang(j)

Spec == Init /\ [][Next]_vars

(* The process's own threads run, its timers fire and the load balancer    *)
(* keeps polling; tokio starts what is queued, and a handler ends unless   *)
(* it hangs.  Nothing is assumed of clients.                               *)
Fairness ==
  /\ WF_vars(MainSteps)
  /\ WF_vars(ServerSteps)
  /\ WF_vars(Poll)
  /\ \A r \in Reqs : WF_vars(Serving(r))
  /\ \A j \in Jobs : WF_vars(StartJob(j)) /\ WF_vars(FinishJob(j))

FairSpec == Spec /\ Fairness

-----------------------------------------------------------------------------
TypeOK ==
  /\ gateway \in BOOLEAN
  /\ window \in BOOLEAN
  /\ main \in {"serving", "keep", "draining"} \union Over
  /\ flag \in BOOLEAN
  /\ stop \in BOOLEAN
  /\ srv \in {"starting", "accepting", "closing", "dropping", "done"}
  /\ lb \in {"up", "down"}
  /\ polled \in BOOLEAN
  /\ req \in [Reqs -> {"none", "sent", "answered", "gone", "refused", "cut"}
                        \union InFlight]
  /\ status \in [Reqs -> {0, 200, 401, 413, 500, 502, 504}]
  /\ job \in [Jobs -> {"none", "queued", "running", "hung", "dropped", "killed"}
                        \union Results]

(* Unless the deadline forces it out, the process only ends when it owes   *)
(* nothing: no request read by the server is cut, and no handler is killed *)
(* half way, even one nobody waits for any more (README: "in-flight        *)
(* requests run to completion").                                           *)
DrainedInTime ==
  main # "late" =>
    /\ \A r \in Reqs : req[r] # "cut"
    /\ \A j \in Jobs : job[j] # "killed"

(* A handler the drain abandons before its start is one nobody waits for:  *)
(* its request was answered 504, or its client left.                       *)
AbandonsOnlyUnawaited ==
  \A r \in Reqs :
    "dropped" \in {job[<<r, "auth">>], job[<<r, "work">>]} =>
      req[r] = "gone" \/ (req[r] = "answered" /\ status[r] = 504)

Refused(r) == req[r] = "refused"

(* With a window, no request is turned away by the shutdown of a service:  *)
(* the load balancer has stopped routing here before the listener closes   *)
(* (README: "long enough for the load balancer to stop routing").          *)
NothingRefused == window /\ ~gateway => \A r \in Reqs : ~Refused(r)

-----------------------------------------------------------------------------
(* A signal stops the process, whatever handlers and clients do.           *)
SignalExits == main = "keep" ~> ~Alive

(* A request handed to the handler of an endpoint with a timeout is        *)
(* answered, even if that handler, or those before it in the pool, hang.   *)
TimedAnswered == \A r \in Timed : req[r] = "work" ~> req[r] # "work"

(* If no user code hangs, every request past its body is answered (or      *)
(* forwarded, or its client left, or the process was forced out), however  *)
(* small the pool that authentication and handlers share.                  *)
Answered ==
  \A r \in Reqs :
    req[r] \in {"auth", "work"} ~>
      \/ req[r] \in {"answered", "forward", "gone", "cut"}
      \/ \E j \in Jobs : job[j] = "hung"
=============================================================================
