------------------------------ MODULE MCCalls ------------------------------
EXTENDS Calls

Each(Op(_), s) == [i \in DOMAIN s |-> Op(s[i])]

(* A module of these modules, which are then inside it.                    *)
Module(name, own, subs) ==
  LET Under(mod) == [mod EXCEPT !.at = <<name>> \o @, !.inside = <<>>]
  IN  [at |-> <<name>>, hidden |-> FALSE, package |-> subs # <<>>, own |-> own,
       inside |-> Each(Under, FlattenSeq(Each(Inside, subs)))]
Hidden(mod) == [mod EXCEPT !.hidden = TRUE]

Service(name)  == [is |-> "service", bound |-> "svc", computed |-> {}, name |-> name]
Resource(name) == [is |-> "resource", bound |-> name, computed |-> {}, of |-> "SQLDatabase",
                   name |-> name]
Other(name)    == [is |-> "other", bound |-> name, computed |-> {}]
Auth(calls)    == [is |-> "auth_handler", bound |-> "check", computed |-> {}, fn |-> "check",
                   auth |-> FALSE, stream |-> FALSE,
                   calls |-> calls, catches |-> FALSE, ends |-> Ok]
Get(fn, path)  == [is |-> "api", bound |-> fn, computed |-> {}, fn |-> fn,
                   method |-> "GET", path |-> path, stream |-> FALSE, auth |-> FALSE,
                   expose |-> TRUE, calls |-> <<>>, catches |-> FALSE, ends |-> Ok]

Post(ep)       == [ep EXCEPT !.method = "POST"]
Bound(name, decl)    == [decl EXCEPT !.bound = name]
Computed(args, decl) == [decl EXCEPT !.computed = args]
Protected(ep)  == [ep EXCEPT !.auth = TRUE]
Private(ep)    == [ep EXCEPT !.expose = FALSE]
Streams(ep)    == [ep EXCEPT !.stream = TRUE]
Catches(ep)    == [ep EXCEPT !.catches = TRUE]
Ends(ep, how)  == [ep EXCEPT !.ends = how]
To(svc, fn, arg) == [svc |-> svc, fn |-> fn, arg |-> arg]
Calling(ep, c) == [ep EXCEPT !.calls = <<c>>]

(* Two services; `orders` calls `item` of `catalog`, which may vary.       *)
Item == Get("item", <<"items", ":id">>)
Items == { Item, Protected(Item), Private(Item), Protected(Private(Item)), Streams(Item),
           Ends(Item, APIError(404)), Ends(Item, HTTPError), Ends(Item, Crash) }

Order == Get("order", <<"orders", "new">>)
Orders == { Calling(ep, to) :
              ep \in {Order, Protected(Order), Catches(Order)},
              to \in {To("catalog", "item", arg) : arg \in {"str", "int", "refused"}}
                     \union {To("catalog", "nothing", "str")} }

Shop(item, order, more) ==
  << Module("catalog", <<Service("catalog"), Resource("db")>>,
            <<Module("items", <<item>>, <<>>)>>),
     Module("orders", <<Service("orders"), Auth(<<>>), order>> \o more, <<>>) >>

Shops == {Shop(item, order, <<>>) : item \in Items, order \in Orders}

(* Endpoints that share a prefix with `item`, within and across services.  *)
Neighbours == { Get("near", <<"items", "x">>), Protected(Get("deep", <<"items", "x", ":id">>)),
                Get("all", <<"*rest">>), Protected(Get("any", <<"orders", "*rest">>)),
                Streams(Get("feed", <<"orders">>)) }
Late == Protected(Get("late", <<"items", ":id", "y">>))
Streets == { Shop(item, Order, more) : item \in {Item, Protected(Item)},
               more \in {<<ep>> : ep \in Neighbours} \union {<<Get("near", <<"items", "x">>), Late>>} }

(* Two methods on one path, in one service, public or not; one method at a *)
(* path that another one has under a parameter.                            *)
Put == Get("put", <<"items", ":id">>)
TwoMethods(put, more) ==
  << Module("catalog", <<Service("catalog"), Item, Auth(<<>>), put>> \o more, <<>>) >>
Verbs == { TwoMethods(put, more) : put \in {Post(Put), Protected(Post(Put)), Put},
                                   more \in {<<>>, <<Post(Get("near", <<"items", "x">>))>>} }

(* What cannot be read: a name bound again, by another endpoint or by      *)
(* anything; a declaration that binds none; computed arguments.            *)
Again == Bound("item", Get("item", <<"orders", "new">>))
Computing == {"auth", "expose", "stream", "path", "method"}
Rebound(order, again) ==
  << Module("catalog", <<Service("catalog"), Auth(<<>>), order, again, Resource("db")>>, <<>>) >>
Unseen ==
  { Rebound(item, Again) : item \in {Item, Protected(Item), Private(Item)} }
    \union { Rebound(Item, Other(name)) : name \in {"item", "check", "svc"} }
    \union { Rebound(Item, [again EXCEPT !.name = "stock"]) :
               again \in {Service("catalog"), Bound("other", Service("catalog"))} }
    \union { Rebound(Bound(None, Item), Resource("more")),
             Rebound(Item, Bound(None, Resource("more"))),
             Rebound(Item, Computed({"name"}, Resource("more"))),
             << Module("catalog", <<Computed({"name"}, Service("catalog")), Item>>, <<>>) >> }
    \union { Rebound(Computed({arg}, ep), Other("more")) :
               arg \in Computing, ep \in {Item, Protected(Private(Item))} }
    \union { Rebound(Computed(Computing, Streams(Protected(Item))), Other("more")) }

(* Three in a row, the one in the middle protected or not; an auth handler *)
(* that asks a service.                                                    *)
Row(middle, last) ==
  << Module("a", <<Service("a"), Auth(<<>>),
                   Protected(Calling(Get("first", <<"a">>), To("b", "second", "str")))>>, <<>>),
     Module("b", <<Service("b"), Calling(middle, To("c", "third", "str"))>>, <<>>),
     Module("c", <<Service("c"), last>>, <<>>) >>

Second == Get("second", <<"b">>)
Third  == Private(Get("third", <<"c">>))
Rows   == {Row(Protected(Second), last) : last \in {Third, Protected(Third)}}
            \union {Row(Second, Protected(Third))}

Asking(third) ==
  << Module("a", <<Service("a"), Auth(<<To("c", "third", "str")>>), Protected(Get("first", <<"a">>))>>, <<>>),
     Module("c", <<Service("c"), third>>, <<>>) >>
Askings == {Asking(third) : third \in {Third, Protected(Third), Ends(Third, APIError(404))}}

(* Modules without a Service, hidden ones, packages in packages, a Service *)
(* in a module of a package, two of one name.                              *)
Odd ==
  { << Module("web", <<Get("home", <<>>)>>, <<>>), Hidden(Module("_off", <<Item>>, <<>>)) >>,
    << Module("catalog", <<Service("catalog")>>,
              <<Hidden(Module("_aux", <<Item, Resource("db")>>, <<>>)),
                Module("deep", <<>>, <<Module("more", <<Order>>, <<>>)>>)>>) >>,
    << Module("catalog", <<>>, <<Module("items", <<Service("catalog"), Item>>, <<>>),
                                 Module("other", <<Order>>, <<>>)>>) >>,
    << Module("x", <<Service("catalog"), Item>>, <<>>),
       Module("y", <<Service("catalog"), Calling(Order, To("catalog", "item", "str"))>>, <<>>) >>,
    << Module("x", <<Calling(Order, To("typo", "item", "str"))>>, <<>>),
       Module("y", <<Service("catalog"), Item>>, <<>>) >>,
    << Module("x", <<Protected(Order)>>, <<>>) >> }

AllApps ==
  Shops \union Streets \union Rows \union Askings \union Odd \union Verbs \union Unseen

Asked == { <<>>, <<"items", "x">>, <<"items", "x", "y">>, <<"orders", "new">>, <<"a">> }
=============================================================================
