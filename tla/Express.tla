------------------------------ MODULE Express -------------------------------
(***************************************************************************)
(* What the Express adapter makes of a file (rl-discovery:                 *)
(* adapters/express.rs): applications and routers, routes registered by    *)
(* calls that may be chained, mounts, and middleware that looks like a     *)
(* guard.  Groups taken from file names and body fields are left out.      *)
(***************************************************************************)
EXTENDS JsSource

Chained(function) == function \in {"use", "all"} \union DOMAIN Verb

\* What an expression that may be a chain is called on, in turn.
RECURSIVE Receivers(_)
Receivers(e) == IF e.is = "call" /\ e.object # None THEN <<e>> \o Receivers(e.object) ELSE <<e>>

\* Mutation: a call on a call is no chain.
NotUnwound(receiver) ==
  [router |-> IF receiver.is \in {"call", "require"} THEN None ELSE receiver, route |-> None]

\* unwind: the router a chain started from, or None, with the call that
\* gave the chain its path, or None.
Unwind(receiver) ==
  LET links == Receivers(receiver)
      stops == {k \in DOMAIN links : links[k].is # "call" \/ links[k].object = None
                                       \/ ~Chained(links[k].function)}
      at    == links[Min(stops)]
  IN IF at.is = "call"
       THEN IF at.object # None /\ at.function = "route" THEN [router |-> at.object, route |-> at]
            ELSE [router |-> None, route |-> None]
     ELSE [router |-> IF at.is = "require" THEN None ELSE at, route |-> None]

\* chained_route_path
ThroughRoute(receiver) ==
  \E k \in DOMAIN Receivers(receiver) : LET e == Receivers(receiver)[k] IN
    e.is = "call" /\ e.object # None /\ e.function = "route"

(***************************************************************************)
(* Arguments.                                                              *)
(***************************************************************************)
\* is_path_argument: a path, rather than a handler, a router or a word.
PathArgument(names, arg, forRoute) ==
  LET IsOne(e) ==
        CASE e.is \in {"text", "joined"} -> Value(names, e) = None \/ Rooted(Value(names, e))
          [] e.is = "name"      -> IF names[e.name] # None THEN Rooted(names[e.name])
                                                          ELSE forRoute /\ e.name \in Screaming
          [] e.is = "attribute" -> {e.of, e.name} \intersect Screaming # {}
          [] OTHER              -> e.is = "regex"
  IN IF arg.is = "list" THEN arg.items # <<>> /\ IsOne(Head(arg.items)) ELSE IsOne(arg)

PathFirst(names, args, forRoute) == args # <<>> /\ PathArgument(names, Head(args), forRoute)

\* paths_of
PathsOf(names, arg) ==
  LET items == IF arg.is = "list" THEN arg.items ELSE <<arg>>
  IN [k \in DOMAIN items |-> PathValue(names, items[k])]

Flattened(args) == FlattenSeq([k \in DOMAIN args |-> IF args[k].is = "list" THEN args[k].items ELSE <<args[k]>>])

\* auth_from_middleware, of the text of a call or of a member.
MiddlewareAuth(e) ==
  CASE e.is = "name"      -> AuthFromName(e.name)
    [] e.is = "attribute" -> FirstAuth(<<AuthFromName(e.of), AuthFromName(e.name)>>)
    [] e.is = "call"      ->
         FirstAuth((IF e.object # None /\ e.object.is = "name" THEN <<AuthFromName(e.object.name)>> ELSE <<>>)
                   \o [k \in DOMAIN e.args |-> IF e.args[k].is = "name" THEN AuthFromName(e.args[k].name) ELSE None])
    [] OTHER              -> None

(***************************************************************************)
(* Routes.                                                                 *)
(***************************************************************************)
\* inspect_handler: what the handlers read between them, and the first of
\* them, but for functions of this file, that looks like a guard.
Inspected(file, handlers) ==
  LET all == Flattened(handlers)
      ReadBy(e) ==
        CASE e.is = "function" -> e.reads
          [] e.is = "name" /\ ReadsOfFunction(file, e.name) # None -> ReadsOfFunction(file, e.name)
          [] OTHER -> {}
      Auth(e) == IF e.is = "name" /\ ReadsOfFunction(file, e.name) # None THEN None ELSE MiddlewareAuth(e)
  IN [reads |-> UNION {ReadBy(all[k]) : k \in DOMAIN all},
      auth  |-> FirstAuth([k \in DOMAIN all |-> Auth(all[k])])]

\* route.  `guarded` is what the routers registered on so far are guarded by.
ExpressRoute(file, names, call, guarded) ==
  LET start  == Unwind(call.object)
      first  == PathFirst(names, call.args, TRUE)
      router == IF start.router = None THEN None ELSE Named(file, start.router)
      inRoute == start.route # None /\ start.route.args # <<>>
      paths  == IF inRoute THEN <<PathValue(names, Head(start.route.args))>>
                ELSE IF first THEN PathsOf(names, Head(call.args)) ELSE <<>>
      found  == Inspected(file, IF inRoute THEN call.args ELSE Tail(call.args))
      auth   == IF found.auth # None \/ router \notin DOMAIN guarded THEN found.auth ELSE guarded[router]
      methods == IF call.function = "all" THEN Unspecified ELSE <<Verb[call.function]>>
      Fact(path) == Using([RouteFact(router, methods, path) EXCEPT !.auth = auth], found.reads, {})
  IN IF ~(first \/ ThroughRoute(call.object)) \/ router = None THEN NoFacts
     ELSE Absorbed(<<Brings(file, start.router), Routes([k \in DOMAIN paths |-> Fact(paths[k])])>>)

(***************************************************************************)
(* Mounts.                                                                 *)
(***************************************************************************)
\* mount and mount_child: each argument in turn.  A guard ahead of a router
\* guards the mount, or, without a prefix, the routes registered from then on.
ExpressMount(file, names, call, guarded) ==
  LET start    == Unwind(call.object)
      parent   == IF start.router = None THEN None ELSE Named(file, start.router)
      first    == PathFirst(names, call.args, FALSE)
      prefixes == IF first THEN PathsOf(names, Head(call.args)) ELSE <<<<>>>>
      prefixed == \E k \in DOMAIN prefixes : prefixes[k] # <<>>
      External(e) == \E f \in ToSet(JsImports(file)) : f.local = e.name /\ f.of = None
      Edge(e, auth) == Mounts([k \in DOMAIN prefixes |->
                         [MountFact(parent, Named(file, e), prefixes[k]) EXCEPT !.auth = auth]])
      Step(so, e) ==
        CASE e.is = "name" /\ External(e) -> so
          [] e.is = "name" /\ ~External(e) /\ AuthFromName(e.name) # None ->
               IF prefixed THEN [so EXCEPT !.auth = AuthFromName(e.name)]
                           ELSE [so EXCEPT !.guarded = (parent :> AuthFromName(e.name)) @@ @]
          [] e.is = "call" -> IF so.auth = None THEN [so EXCEPT !.auth = MiddlewareAuth(e)] ELSE so
          [] OTHER -> IF Named(file, e) = None THEN so
                      ELSE [so EXCEPT !.facts = Absorbed(<<@, Brings(file, e), Edge(e, so.auth)>>)]
      before == [facts |-> Brings(file, start.router), guarded |-> guarded, auth |-> None]
  IN IF parent = None THEN [facts |-> NoFacts, guarded |-> guarded, auth |-> None]
     ELSE FoldLeft(Step, before, Flattened(IF first THEN Tail(call.args) ELSE call.args))

(***************************************************************************)
(* A file.                                                                 *)
(***************************************************************************)
\* What a declaration is given, behind the exports it may also be.
Given(s) == IF s.value.is = "exports too" THEN s.value.value ELSE s.value

\* declaration
ExpressRouters(file, s) ==
  IF s.is \notin {"const", "assign"} THEN NoFacts
  ELSE Absorbed(<<
    Exports(IF s.value.is = "exports too" THEN <<ExportFact(file.module, default, s.name)>> ELSE <<>>),
    Routers(IF Given(s).is = "call" /\ Given(s).function \in {"express", "Router"}
              THEN <<RouterFact(<<file.module, s.name>>, <<>>, None, Given(s).function = "express")>>
              ELSE <<>>)>>)

\* The calls of a statement as the walk meets them: the end of a chain first.
CallsIn(s) ==
  LET whole == IF s.is = "do" THEN s.call ELSE IF s.is \in {"const", "assign"} THEN Given(s) ELSE Other
  IN SelectSeq(Receivers(whole), LAMBDA e : e.is = "call" /\ e.object # None)

Adding(so, mounted) == [facts |-> Absorbed(<<so.facts, mounted.facts>>), guarded |-> mounted.guarded]

\* extract
Express(file) ==
  LET names == JsNames(file)
      Step(so, call) ==
        IF call.function = "use"
          THEN Adding(so, ExpressMount(file, names, call, so.guarded))
        ELSE IF Chained(call.function)
          THEN [so EXCEPT !.facts = Absorbed(<<@, ExpressRoute(file, names, call, so.guarded)>>)]
        ELSE so
      calls == FlattenSeq([k \in DOMAIN file.body |-> CallsIn(file.body[k])])
      before == Absorbed(<<Imports(JsImports(file)), Exports(JsExports(file))>>
                         \o [k \in DOMAIN file.body |-> ExpressRouters(file, file.body[k])])
  IN FoldLeft(Step, [facts |-> before, guarded |-> <<>>], calls).facts

=============================================================================
