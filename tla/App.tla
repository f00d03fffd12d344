-------------------------------- MODULE App --------------------------------
(***************************************************************************)
(* An application: what `check` extracts from its source (collect.py),     *)
(* what importing it declares (__main__.py, cli.py, api.py, service.py),   *)
(* and the routes of its processes and of its gateway (api.py, server.rs). *)
(* Left out: names a module imports from another one, decorators under     *)
(* another name, and declarations in a branch that is not taken.           *)
(***************************************************************************)
EXTENDS Integers, Sequences, FiniteSets, SequencesExt

CONSTANTS
  Paths,     (* what may be asked for: sequences of segments               *)
  Params,    (* segments ":name" of a declared path                        *)
  Wildcards, (* segments "*name"                                           *)
  None

ASSUME AppAssumption == \A path \in Paths : path \in Seq(STRING)

(* ---- modules and what they declare ------------------------------------ *)
(* An application is a sequence of modules, in the directory's order.  A   *)
(* module: where it is, whether its name hides it, whether it is a         *)
(* package, its own declarations and, of a package, the modules inside it  *)
(* at any depth, each before those inside it.                              *)
Inside(mod) == <<mod>> \o mod.inside

(* Nothing is read or loaded of a hidden one.                              *)
Visible(a) == {m \in DOMAIN a : ~a[m].hidden}

(* A declaration: an @api, an @auth_handler (not protected in turn), a     *)
(* Service, a resource, or any "other" assignment; the name it binds in    *)
(* its file (None: an expression that binds none); and which of its        *)
(* arguments are computed, not written as literals.  Methods are written   *)
(* in capitals.                                                            *)
Flags     == {"auth", "expose", "stream"}
Arguments == Flags \union {"path", "method", "name"}

Declaration(decl) ==
  /\ "is" \in DOMAIN decl /\ decl.computed \subseteq Arguments
  /\ decl.is = "api" => Flags \union {"fn", "path", "method"} \subseteq DOMAIN decl
  /\ decl.is \in {"api", "auth_handler"} =>
       decl.calls \in Seq(ToSet(decl.calls)) /\ decl.bound \in {decl.fn, None}
  /\ decl.is = "api" => decl.path \in Seq(STRING) /\ {decl.auth, decl.expose} \subseteq BOOLEAN
  /\ decl.is = "auth_handler" => ~decl.auth

(* A directory: no two modules of it have one name, and what is inside a   *)
(* package is right in it unless it has packages in turn.                  *)
Directory(a) ==
  /\ a \in Seq(ToSet(a))
  /\ \A m \in DOMAIN a : \A file \in ToSet(Inside(a[m])) :
       /\ file.own \in Seq(ToSet(file.own))
       /\ \A decl \in ToSet(file.own) : Declaration(decl)
  /\ \A m \in DOMAIN a : a[m].at \in Seq(STRING) /\ Len(a[m].at) = 1
  /\ \A m, n \in DOMAIN a : a[m].at = a[n].at => m = n
  /\ \A m \in DOMAIN a :
       /\ a[m].inside \in Seq(ToSet(a[m].inside))
       /\ \A sub \in ToSet(a[m].inside) :
            /\ sub.at \in Seq(STRING) /\ sub.at # a[m].at /\ IsPrefix(a[m].at, sub.at)
            /\ Len(sub.at) = 2 \/ \E pkg \in ToSet(a[m].inside) : pkg.package

(* What some files of module m declare, each declaration in its place.     *)
Line(a, m, k, d) ==
  LET file == Inside(a[m])[k]
  IN  [place |-> <<m, k, d>>, module |-> file.at, decl |-> file.own[d]]

Lines(a, m, files) ==
  UNION {{Line(a, m, k, d) : d \in DOMAIN Inside(a[m])[k].own} : k \in files}

Kind(lines, kind) == {x \in lines : x.decl.is = kind}

Earlier(x, y) ==
  \E i \in 1..3 : /\ x.place[i] < y.place[i]
                  /\ \A j \in 1..(i - 1) : x.place[j] = y.place[j]

First(lines)  == CHOOSE x \in lines : \A y \in lines : ~Earlier(y, x)
Latest(lines) == CHOOSE x \in lines : \A y \in lines : ~Earlier(x, y)

(* ---- collect.py: what is read from the source, nothing is imported ---- *)

(* The text of an expression: no segment, method or name.                  *)
Unread == "?"

AsText(arg) == IF arg = "path" THEN <<Unread>> ELSE Unread

(* Mutant: a computed flag is not taken for true.                          *)
ReadStrict(decl) ==
  [arg \in DOMAIN decl |->
     IF arg \notin decl.computed THEN decl[arg]
     ELSE IF arg \in Flags THEN arg = "expose" ELSE AsText(arg)]

(* _lit: a computed argument is read as its text, which is true if it is   *)
(* to be a flag.                                                           *)
Read(decl) ==
  [arg \in DOMAIN decl |->
     IF arg \notin decl.computed THEN decl[arg]
     ELSE IF arg \in Flags THEN TRUE ELSE AsText(arg)]

(* A file has one member per name: where the name is first bound, what is  *)
(* bound to it last.                                                       *)
Members(file) ==
  LET Same(x) == {y \in file : y.decl.bound = x.decl.bound}
  IN  {[x EXCEPT !.decl = Read(Latest(Same(x)).decl)] :
         x \in {y \in file : y.decl.bound # None /\ \A z \in Same(y) : ~Earlier(z, y)}}

Source(a, m, files) == UNION {Members(Lines(a, m, {k})) : k \in files}

(* A module's last Service counts, of a package its own or else that of    *)
(* the first module that has one; without any it is named after the file.  *)
Named(a, m, services) ==
  LET file == {x \in services : \A y \in services : x.place[2] <= y.place[2]}
  IN  IF services = {} THEN Last(a[m].at) ELSE Latest(file).decl.name

Resources(lines) == {<<x.decl.of, x.decl.name>> : x \in Kind(lines, "resource")}

Summary(a, m, lines) ==
  [ service   |-> Named(a, m, Kind(lines, "service")),
    declared  |-> Kind(lines, "service") # {},
    auth      |-> Kind(lines, "auth_handler") # {},
    endpoints |-> Kind(lines, "api"),
    resources |-> Resources(lines) ]

(* Mutant: one level of modules only.                                      *)
ExtractShallow(a, m) == Summary(a, m, Source(a, m, {1}))

(* A package adds up its modules, whatever their names and depth.          *)
Extract(a, m) == Summary(a, m, Source(a, m, DOMAIN Inside(a[m])))

(* What is read of an application is what it says: each declaration binds  *)
(* a name of its own and is read as it is.                                 *)
Readable(a) ==
  \A m \in Visible(a) : \A file \in ToSet(Inside(a[m])) : \A d \in DOMAIN file.own :
    /\ file.own[d].bound # None /\ Read(file.own[d]) = file.own[d]
    /\ \A e \in DOMAIN file.own : file.own[e].bound = file.own[d].bound => e = d

(* extract_path: the modules that make a service.                          *)
Extracted(a) ==
  {x \in {Extract(a, m) : m \in Visible(a)} : x.declared \/ x.endpoints # {}}

Containers(a) == {x.service : x \in Extracted(a)}

(* build_meta: PRIVATE wins over AUTH.                                     *)
Access(ep) == IF ~ep.expose THEN "PRIVATE" ELSE IF ep.auth THEN "AUTH" ELSE "PUBLIC"

Rpc(svc, ep) == [service |-> svc, fn |-> ep.fn, method |-> ep.method, path |-> ep.path,
                 access |-> Access(ep), streaming |-> ep.stream]

Meta(a) ==
  [ rpcs |-> UNION {{Rpc(x.service, e.decl) : e \in x.endpoints} : x \in Extracted(a)},
    resources |-> UNION {Extract(a, m).resources : m \in Visible(a)},
    auth_handler |-> \E m \in Visible(a) : Extract(a, m).auth ]

(* ---- _load_app: what importing it declares, in order ------------------ *)

(* A package imports itself, then its files that are not hidden.           *)
Imported(mod) ==
  {k \in DOMAIN Inside(mod) :
     \/ k = 1
     \/ LET file == Inside(mod)[k]
        IN  ~file.hidden /\ ~file.package /\ Len(file.at) = Len(mod.at) + 1}

Declared(a, kind) == UNION {Kind(Lines(a, m, Imported(a[m])), kind) : m \in Visible(a)}

(* A name is in a service if its module is the Service's or under it.      *)
InService(a, svc, module) ==
  \E x \in Declared(a, "service") : x.decl.name = svc /\ IsPrefix(x.module, module)

ServiceOf(a, module) ==
  LET s == {x \in Declared(a, "service") : IsPrefix(x.module, module)}
  IN  IF s = {} THEN None ELSE First(s).decl.name

IsService(a, svc) == \E x \in Declared(a, "service") : x.decl.name = svc

Handler(a)    == First(Declared(a, "auth_handler")).decl
HasHandler(a) == Declared(a, "auth_handler") # {}

(* _endpoints_to_serve: of the process with that VIGNEMALE_SERVICE_NAME.   *)
Served(a, proc) ==
  {x \in Declared(a, "api") : IsService(a, proc) => InService(a, proc, x.module)}

(* ---- the routes of a process ------------------------------------------ *)

Rank(seg) == IF seg \in Params THEN 1 ELSE IF seg \in Wildcards THEN 2 ELSE 0

Matches(path, asked) ==
  LET wild == path # <<>> /\ Last(path) \in Wildcards
      Fits(i) == Rank(path[i]) > 0 \/ path[i] = asked[i]
  IN  /\ IF wild THEN Len(asked) >= Len(path) ELSE Len(asked) = Len(path)
      /\ \A i \in DOMAIN path : Fits(i)

(* The router prefers a literal to a parameter, and that to a wildcard.    *)
Before(p, q) ==
  \E i \in DOMAIN p \intersect DOMAIN q :
     /\ Rank(p[i]) < Rank(q[i])
     /\ \A j \in 1..(i - 1) : Rank(p[j]) = Rank(q[j])

(* The router looks for the path, then for the method.                     *)
Found(a, proc, asked) ==
  LET hits == {ep \in {x.decl : x \in Served(a, proc)} :
                ep.expose /\ Matches(ep.path, asked)}
  IN  {ep \in hits : \A other \in hits : ~Before(other.path, ep.path)}

(* The exposed endpoint a request is for: {} or one.                       *)
Hit(a, proc, asked, method) == {ep \in Found(a, proc, asked) : ep.method = method}

(* The router takes two paths that differ where both are dynamic for a     *)
(* mistake.                                                                *)
Clash(p, q) ==
  \E i \in DOMAIN p \intersect DOMAIN q :
     /\ p[i] # q[i] /\ Rank(p[i]) > 0 /\ Rank(q[i]) > 0
     /\ \A j \in 1..(i - 1) : p[j] = q[j]

(* One auth handler at most; a protected endpoint has one; and the router  *)
(* takes a path and a method once.                                         *)
Starts(a) ==
  /\ \A x, y \in Declared(a, "auth_handler") : x = y
  /\ (\E x \in Declared(a, "api") : x.decl.auth) => HasHandler(a)
  /\ LET shown == {x \in Declared(a, "api") : x.decl.expose}
     IN  \A x, y \in shown :
           /\ ~Clash(x.decl.path, y.decl.path)
           /\ x # y /\ x.decl.path = y.decl.path => x.decl.method # y.decl.method

(* ---- the routes of the gateway ---------------------------------------- *)

Literal(path, stops) ==
  LET ends == {i \in DOMAIN path : path[i] \in stops}
      end  == CHOOSE i \in ends : \A j \in ends : i <= j
  IN  IF ends = {} THEN path ELSE SubSeq(path, 1, end - 1)

(* One route per key, where it first comes; it authenticates if an         *)
(* endpoint it stands for does.                                            *)
Merged(routes) ==
  LET Same(r) == {s \in routes : s.key = r.key}
  IN  {[r EXCEPT !.auth = \E s \in Same(r) : s.auth] :
         r \in {q \in routes : \A s \in Same(q) : ~Earlier(s, q)}}

(* `vignemale gateway`, build_routes: from the source.  The first service  *)
(* keeps a prefix.                                                         *)
BuildRoutes(a) ==
  LET Route(svc, e) ==
        LET prefix == Literal(e.decl.path, Params \union Wildcards)
        IN  [key |-> prefix, place |-> e.place,
             prefix |-> prefix, service |-> svc, auth |-> e.decl.auth]
  IN  Merged(UNION {{Route(x.service, e) : e \in x.endpoints} : x \in Extracted(a)})

(* VIGNEMALE_ROLE=gateway, _gateway_routes: from what is loaded; wildcards *)
(* do not end the prefix.                                                  *)
GatewayRoutes(a, known) ==
  LET Route(x) ==
        LET prefix == Literal(x.decl.path, Params)
            svc == ServiceOf(a, x.module)
        IN  [key |-> <<prefix, svc>>, place |-> x.place,
             prefix |-> prefix, service |-> svc, auth |-> x.decl.auth]
  IN  Merged({Route(x) : x \in {y \in Declared(a, "api") :
                                   y.decl.expose /\ ServiceOf(a, y.module) \in known}})

(* pick_route: the longest prefix, then the first.  {} or one route.       *)
PickRoute(routes, asked) ==
  LET fit == {r \in routes : IsPrefix(r.prefix, asked)}
      Loses(r, s) == \/ Len(r.prefix) < Len(s.prefix)
                     \/ Len(r.prefix) = Len(s.prefix) /\ Earlier(s, r)
  IN  {r \in fit : \A s \in fit : ~Loses(r, s)}
=============================================================================
