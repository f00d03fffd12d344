------------------------------- MODULE Calls -------------------------------
(***************************************************************************)
(* A request to an application (module App) answered twice: by one process *)
(* that holds every service ("mono"), and by a container per service       *)
(* behind a gateway ("services").  Handlers call other services: call.py   *)
(* in one process, or the signed internal route of server.rs.              *)
(*                                                                         *)
(* The secret is set and containers answer: SvcAuth and Server are about   *)
(* that.  A handler is the calls it makes, whether it catches APIError,    *)
(* and how it ends.                                                        *)
(***************************************************************************)
EXTENDS App, TLC

CONSTANTS
  Apps,      (* directories: sequences of modules, in the listing's order  *)
  Methods,   (* of HTTP: those a request may have                          *)
  Users      (* tokens the app's auth handler accepts                      *)

ASSUME CallsAssumption == \A a \in Apps : Directory(a)

Forged == "forged"    (* a token it does not know                          *)

VARIABLES
  app,
  topo,  (* known: services whose URL is in the environment of every       *)
         (* container; table: who builds the gateway's routes, `vignemale  *)
         (* gateway` ("static") or VIGNEMALE_ROLE=gateway ("runtime")      *)
  req,   (* the request                                                    *)
  run    (* how far it is in each world                                    *)

vars == <<app, topo, req, run>>

Worlds == {"mono", "services"}

(* at: where the request is; stack: the handlers that run, each the caller *)
(* of the next; ctx: _request_ctx of the threads that have one; seen: who  *)
(* ran, for whom, with what kind of argument ("str", "int", or a body that *)
(* is "refused"); answer: the status.                                      *)
Idle == [at |-> "idle", stack |-> <<>>, ctx |-> <<>>, seen |-> <<>>, answer |-> 0]

(* How a handler ends: an APIError has the status of its code, an          *)
(* HTTPError one of its own.                                               *)
Ok          == [is |-> "ok", status |-> 200]
APIError(s) == [is |-> "api", status |-> s]
HTTPError   == [is |-> "http", status |-> 418]
Crash       == [is |-> "crash", status |-> 500]

Routes == IF topo.table = "static" THEN BuildRoutes(app) ELSE GatewayRoutes(app, topo.known)

(* The URLs of all containers, or of all but one; `vignemale gateway`      *)
(* stops when one is missing.                                              *)
Topologies(a) ==
  [known : {Containers(a) \ c : c \in SUBSET Containers(a)}, table : {"static", "runtime"}]

Init ==
  /\ app \in {a \in Apps : Starts(a)}
  /\ topo \in {t \in Topologies(app) :
                 /\ Cardinality(Containers(app) \ t.known) <= 1
                 /\ t.table = "static" => t.known = Containers(app)}
  /\ req = [path |-> None, method |-> None, token |-> None, arg |-> "str"]
  /\ run = [w \in Worlds |-> Idle]

Arrive(path, method, token, arg) ==
  /\ \A w \in Worlds : run[w].at \in {"idle", "done"}
  /\ req' = [path |-> path, method |-> method, token |-> token, arg |-> arg]
  /\ run' = [w \in Worlds |-> [Idle EXCEPT !.at = "edge", !.ctx = run[w].ctx]]
  /\ UNCHANGED <<app, topo>>

Set(w, r) == run' = [run EXCEPT ![w] = r] /\ UNCHANGED <<app, topo, req>>

Done(r, status) == [r EXCEPT !.at = "done", !.answer = status]

(* ---- threads, the context, the wrapper of @api ------------------------ *)

(* The first idle thread of the process: tokio takes any.                  *)
Thread(r, proc) ==
  <<proc, 1 + Cardinality({f.thread : f \in ToSet(r.stack)}
                            \intersect {<<proc, n>> : n \in DOMAIN r.stack})>>

Ctx(r, thread) == IF thread \in DOMAIN r.ctx THEN r.ctx[thread] ELSE None

SetCtx(ctx, thread, value) ==
  [t \in {u \in DOMAIN ctx \union {thread} : u # thread \/ value # None} |->
     IF t = thread THEN value ELSE ctx[t]]

Frame(r, via, proc, thread, ep, auth) ==
  [via |-> via, proc |-> proc, thread |-> thread, ep |-> ep, auth |-> auth,
   before |-> Ctx(r, thread), todo |-> ep.calls, ends |-> ep.ends]

(* An error a call raised goes through the handler unless it catches it:   *)
(* HTTPError is an APIError, another exception is not.                     *)
Resume(r, outcome) ==
  LET top == Len(r.stack)
      f == r.stack[top]
      goes == outcome.is = "ok" \/ (f.ep.catches /\ outcome.is # "crash")
  IN  [r EXCEPT !.stack[top].todo = IF goes THEN Tail(@) ELSE <<>>,
                !.stack[top].ends = IF goes THEN @ ELSE outcome]

(* wrapper: refuses a body its model does not accept (a stream has been    *)
(* answered by then), else sets the context and runs the handler.          *)
Enter(r, via, proc, thread, ep, auth, arg) ==
  CASE arg = "refused" /\ via = "edge" -> Done(r, IF ep.stream THEN 200 ELSE 400)
    [] arg = "refused" /\ via # "edge" -> Resume(r, APIError(400))
    [] OTHER ->
         [r EXCEPT !.at = "running",
                   !.stack = Append(@, Frame(r, via, proc, thread, ep, auth)),
                   !.ctx = SetCtx(@, thread, auth),
                   !.seen = Append(@, [fn |-> ep.fn, auth |-> auth, arg |-> arg])]

(* The wrapper's finally; the auth handler has no wrapper.                 *)
Leave(r) ==
  LET f == Last(r.stack)
  IN  [r EXCEPT !.stack = Front(@),
                !.ctx = IF f.via = "auth" THEN @ ELSE SetCtx(@, f.thread, f.before)]

(* ---- the edge and the container --------------------------------------- *)

(* run_auth: in a blocking thread of the process at the edge.              *)
Authenticate(r, proc) ==
  CASE ~HasHandler(app)  -> Done(r, 500)
    [] req.token = None  -> Done(r, 401)
    [] OTHER -> [r EXCEPT !.at = "running",
                   !.stack = <<Frame(r, "auth", proc, Thread(r, proc),
                                     Handler(app), None)>>]

(* Mutant: a container trusts the gateway to have authenticated.           *)
AdmitTrusting(r, proc, identity) ==
  LET hits == Hit(app, proc, req.path, req.method)
  IN  IF hits = {} THEN Done(r, IF Found(app, proc, req.path) = {} THEN 404 ELSE 405)
      ELSE Enter(r, "edge", proc, Thread(r, proc), CHOOSE ep \in hits : TRUE,
                 identity, req.arg)

(* The public route of the process: in a container the gateway's identity, *)
(* whatever the endpoint, but one if it is protected.                      *)
Admit(r, proc, identity) ==
  LET hits == Hit(app, proc, req.path, req.method)
      ep   == CHOOSE e \in hits : TRUE
  IN  CASE hits = {} -> Done(r, IF Found(app, proc, req.path) = {} THEN 404 ELSE 405)
        [] hits # {} /\ ep.auth /\ identity = None -> Done(r, 401)
        [] OTHER -> Enter(r, "edge", proc, Thread(r, proc), ep, identity, req.arg)

Upstream == (CHOOSE route \in PickRoute(Routes, req.path) : TRUE).service

EdgeMono ==
  LET r == run["mono"]
  IN  /\ r.at = "edge"
      /\ Set("mono", IF \E ep \in Hit(app, "app", req.path, req.method) : ep.auth
                     THEN Authenticate(r, "app") ELSE Admit(r, "app", None))

(* The gateway: no route, a protected route, or straight to the service.   *)
EdgeGateway ==
  LET r == run["services"]
      picked == PickRoute(Routes, req.path)
  IN  /\ r.at = "edge"
      /\ Set("services",
             CASE picked = {} -> Done(r, 404)
               [] \E route \in picked : route.auth -> Authenticate(r, "gateway")
               [] OTHER -> Admit(r, Upstream, None))

(* ---- call() ----------------------------------------------------------- *)

(* _call_local: any endpoint of that name if the service is not declared;  *)
(* the first one; with the caller's identity, on its thread.               *)
CallLocal(r, f, c) ==
  LET fits == {x \in Served(app, c.svc) : x.decl.fn = c.fn}
      ep == First(fits).decl
  IN  CASE fits = {} -> Resume(r, APIError(404))
        [] fits # {} /\ ep.stream -> Resume(r, APIError(501))
        [] OTHER -> Enter(r, "local", f.proc, f.thread, ep, Ctx(r, f.thread), c.arg)

(* Parameters go into the query string, a body is JSON as it is.           *)
Sent(arg) == IF arg = "int" THEN "str" ELSE arg

(* Mutant: the caller's identity is not sent.                              *)
CallHttpBare(r, f, c) ==
  LET fits == {x \in Served(app, c.svc) : x.decl.fn = c.fn /\ ~x.decl.stream}
  IN  IF fits = {} THEN Resume(r, APIError(404))
      ELSE Enter(r, "http", c.svc, Thread(r, c.svc), Latest(fits).decl, None, Sent(c.arg))

(* _call_http and the internal route: the last endpoint of that name, no   *)
(* streams; an identity for a protected endpoint only; arguments by str(). *)
CallHttp(r, f, c) ==
  LET fits == {x \in Served(app, c.svc) : x.decl.fn = c.fn /\ ~x.decl.stream}
      ep == Latest(fits).decl
      identity == Ctx(r, f.thread)
  IN  CASE fits = {} -> Resume(r, APIError(404))
        [] fits # {} /\ ep.auth /\ identity = None -> Resume(r, APIError(401))
        [] OTHER -> Enter(r, "http", c.svc, Thread(r, c.svc), ep,
                          IF ep.auth THEN identity ELSE None, Sent(c.arg))

(* call(): over HTTP if the service's URL is known, else in this process.  *)
Call(w) ==
  LET r == run[w]
      f == Last(r.stack)
      c == Head(f.todo)
  IN  /\ r.at = "running"
      /\ f.todo # <<>>
      /\ Set(w, IF w = "services" /\ c.svc \in topo.known
                THEN CallHttp(r, f, c) ELSE CallLocal(r, f, c))

(* Over HTTP an error comes back as an APIError with the code it had.      *)
Received(via, outcome) ==
  CASE via = "local" \/ outcome.is = "ok" -> outcome
    [] via = "http" /\ outcome.is = "api" -> outcome
    [] OTHER -> APIError(500)

(* The handler on top ends: for its caller, for the edge that asked who it *)
(* is, or for the client.  A stream has been answered before it ran.       *)
Return(w) ==
  LET r == run[w]
      f == Last(r.stack)
      left == Leave(r)
  IN  /\ r.at = "running"
      /\ f.todo = <<>>
      /\ Set(w,
           CASE f.via \in {"local", "http"} -> Resume(left, Received(f.via, f.ends))
             [] f.via = "edge" -> Done(left, IF f.ep.stream THEN 200 ELSE f.ends.status)
             [] f.via = "auth" /\ f.ends # Ok -> Done(left, f.ends.status)
             [] f.via = "auth" /\ f.ends = Ok /\ req.token \notin Users -> Done(left, 401)
             [] OTHER -> Admit(left, IF w = "mono" THEN "app" ELSE Upstream, req.token))

(* The two worlds do not meet: one goes first.                             *)
Next ==
  \/ \E path \in Paths, method \in Methods,
        token \in Users \union {Forged, None}, arg \in {"str", "refused"} :
        Arrive(path, method, token, arg)
  \/ EdgeMono \/ Call("mono") \/ Return("mono")
  \/ run["mono"].at = "done" /\ (EdgeGateway \/ Call("services") \/ Return("services"))

Spec == Init /\ [][Next]_vars

(***************************************************************************)
(* Properties.                                                             *)
(***************************************************************************)

(* A client reaches only what is exposed, a protected endpoint only as     *)
(* somebody the auth handler knows, and nobody runs for another user than  *)
(* the one who asks: not through a route of the gateway that does not      *)
(* authenticate (server.rs:225), nor by a context that an earlier request  *)
(* left on the thread (api.py:280-284).                                    *)
EntryGuarded ==
  \A w \in Worlds :
    /\ \A f \in ToSet(run[w].stack) :
         f.via = "edge" => f.ep.expose /\ (f.ep.auth => f.auth \in Users)
    /\ \A x \in ToSet(run[w].seen) : x.auth \in {None, req.token}

OneServiceEach(a) ==
  /\ \A m \in Visible(a) :
       /\ \E d \in DOMAIN a[m].own :
            {e \in DOMAIN a[m].own : a[m].own[e].is = "service"} = {d}
       /\ \A sub \in ToSet(a[m].inside) :
            /\ ~sub.hidden /\ ~sub.package
            /\ \A d \in DOMAIN sub.own : sub.own[d].is # "service"
  /\ \A m, n \in Visible(a) : Extract(a, m).service = Extract(a, n).service => m = n

(* The declarations that still have their name where their file ends.      *)
Kept(kind) ==
  {x \in Declared(app, kind) :
     /\ x.decl.bound # None
     /\ \A y \in Lines(app, x.place[1], {x.place[2]}) :
          y.decl.bound = x.decl.bound => ~Earlier(x, y)}

(* What is read of an endpoint, whatever its arguments: what literals say, *)
(* and not that it is public if it is protected, or private if exposed.    *)
ReadNoLaxer(ep, rpcs) ==
  \E rpc \in rpcs :
    /\ "path" \notin ep.computed => rpc.path = ep.path
    /\ "method" \notin ep.computed => rpc.method = ep.method
    /\ rpc.fn = ep.fn
    /\ ep.auth => rpc.access # "PUBLIC"
    /\ ep.expose => rpc.access # "PRIVATE"

(* What importing an app declares, `check` has found in its source         *)
(* (collect.py against _load_app), as far as it can: each endpoint that    *)
(* keeps its name, never taken for a public one if it is protected, and    *)
(* the auth handler.  If each declaration is read as it is, it finds all   *)
(* of them, every endpoint with its access and every resource; and if each *)
(* module is also one service and hides nothing, it finds no more, and in  *)
(* the same services.                                                      *)
LoadedIsExtracted ==
  LET meta == Meta(app)
      loaded == Declared(app, "api")
      Nameless(rpc) == [rpc EXCEPT !.service = None]
  IN  /\ \A x \in Kept("api") : ReadNoLaxer(x.decl, meta.rpcs)
      /\ Kept("auth_handler") # {} => meta.auth_handler
      /\ Readable(app) =>
           /\ {Rpc(None, x.decl) : x \in loaded}
                \subseteq {Nameless(rpc) : rpc \in meta.rpcs}
           /\ Resources(Declared(app, "resource")) \subseteq meta.resources
           /\ HasHandler(app) => meta.auth_handler
           /\ OneServiceEach(app) =>
                {Rpc(ServiceOf(app, x.module), x.decl) : x \in loaded} = meta.rpcs

(* What an app and its deployment must keep to for both to answer alike.   *)
Deployed == topo.known = Containers(app) /\ OneServiceEach(app) /\ Readable(app)

(* Under one prefix, one service and one kind of endpoint.                 *)
PrefixesApart ==
  LET routes == {[prefix  |-> Literal(rpc.path, Params \union Wildcards),
                  service |-> rpc.service,
                  auth    |-> rpc.access = "AUTH",
                  private |-> rpc.access = "PRIVATE"] : rpc \in Meta(app).rpcs}
  IN  /\ \A r, s \in routes :
           IsPrefix(r.prefix, s.prefix) => r = [s EXCEPT !.prefix = r.prefix]
      /\ topo.table = "runtime" =>
           \A rpc \in Meta(app).rpcs : ToSet(rpc.path) \intersect Wildcards = {}

(* Calls go to a unary endpoint, alone of its name in its service and as   *)
(* protected as the caller, with no number; an error has the status of its *)
(* code, and who catches APIError calls nothing that may raise another.    *)
Callees(c) ==
  {x.decl : x \in {y \in Declared(app, "api") :
                     y.decl.fn = c.fn /\ InService(app, c.svc, y.module)}}

CallsAlike ==
  LET callers == {x.decl : x \in Declared(app, "api") \union Declared(app, "auth_handler")}
  IN  \A ep \in callers : \A c \in ToSet(ep.calls) :
        /\ c.arg # "int"
        /\ \E callee \in Callees(c) :
             /\ Callees(c) = {callee}
             /\ ~callee.stream /\ callee.auth = ep.auth /\ callee.ends.is \in {"ok", "api"}

Answered == \A w \in Worlds : run[w].at = "done"

Same == /\ run["mono"].answer = run["services"].answer
        /\ run["mono"].seen = run["services"].seen

(* The same code in both worlds (call.py:3): the answer to a request for   *)
(* an endpoint is the same behind the gateway as from one process, and the *)
(* same handlers have run, for the same users, with the same arguments.    *)
SameAnswers ==
  /\ Answered /\ Hit(app, "app", req.path, req.method) # {}
  /\ Deployed /\ PrefixesApart /\ CallsAlike
  => Same
=============================================================================
