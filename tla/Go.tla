--------------------------------- MODULE Go ---------------------------------
(***************************************************************************)
(* What the Go adapter makes of a file (rl-discovery: adapters/go.rs):     *)
(* routes registered on routers by Gin, Echo, Chi, Fiber, gorilla/mux and  *)
(* net/http, read in the order of the source.                              *)
(***************************************************************************)
EXTENDS GoRouters

\* visit: a statement or an expression, and then what is in it.
RECURSIVE Visit(_, _)

VisitAll(x, nodes) == FoldLeft(LAMBDA so, node : Visit(so, node), x, nodes)

(***************************************************************************)
(* Assignments.                                                            *)
(***************************************************************************)
\* symbol_for: what a local is called outside.
SymbolFor(x, n) == IF x.scope.function = None THEN <<n>> ELSE Append(x.scope.function, n)

\* bind_type
BindType(x, n, type) ==
  LET flavour == RouterFlavour(x.file, type)
  IN IF flavour # None THEN WithRouter(x, <<n>>, RouterExpr(SymbolFor(x, n), flavour, TRUE))
     ELSE [x EXCEPT !.scope.types = (n :> type) @@ @]

\* Returned from the function, the function is the router.
IsReturned(x, local) == x.scope.function # None /\ Len(local) = 1 /\ Head(local) \in x.scope.returned

\* declare
Declare(x, local, symbol, flavour, root) ==
  LET at     == DeclaredAs(x, symbol)
      told   == IF at = {} THEN [x EXCEPT !.declared = Append(@, Declaration(symbol, root, FALSE))]
                ELSE [x EXCEPT !.declared[Min(at)].root = @ \/ root]
      router == RouterExpr(symbol, flavour, TRUE)
  IN IF IsReturned(x, local)
       THEN WithRouter(Active(x), local, RouterExpr(x.scope.function, flavour, TRUE))
     ELSE IF x.scope.function # None \/ Len(local) > 1 THEN WithRouter(told, local, router)
     ELSE [told EXCEPT !.globals = (local :> router) @@ @]

\* bind: a group that is given a name.
BindGroup(x, local, symbol, group) ==
  LET child == IF IsReturned(x, local) THEN x.scope.function ELSE symbol
      told  == IF IsReturned(x, local) THEN Active(x)
               ELSE [ActiveIfOwn(x, group.parent) EXCEPT !.declared = Append(@, Declaration(child, FALSE, TRUE))]
  IN WithRouter(Mounting(told, group.parent.name, child, group.prefix, group.auth, group.methods),
                local, RouterExpr(child, group.parent.flavour, TRUE))

AliasFor(x, local, name, called) ==
  IF Len(local) > 1 \/ name = None THEN x
  ELSE IF IsProjectName(x.file, name)
    THEN [x EXCEPT !.scope.aliases = (Head(local) :> [name |-> name, called |-> called]) @@ @] ELSE x

Typed(x, local, type) ==
  IF Len(local) > 1 THEN x ELSE [x EXCEPT !.scope.types = (Head(local) :> type) @@ @]

\* bind: what a call is given a name for.
BindCall(x, local, symbol, call) ==
  LET built == Constructor(x, call)
      group == GroupCall(x, call)
      seen  == [x EXCEPT !.consumed = @ \union {call.at}]
      made  == Head(Head(call.pieces).args)
  IN IF built # None THEN Declare(seen, local, symbol, built.flavour, built.root)
     ELSE IF group # None THEN BindGroup(seen, local, symbol, group)
     ELSE IF call.root = None /\ Head(call.pieces).does = "new" THEN Typed(x, local, GoType(None, made.name))
     ELSE AliasFor(x, local, Qualifier(x, call), TRUE)

\* bind
BindTo(x, local, symbol, value) ==
  CASE value.is = "chain"  -> BindCall(x, local, symbol, value)
    [] value.is = "struct" ->
         LET own == value.type.package = None /\ value.type.name \in Structs(x.file)
         IN Typed(IF own THEN AliasFor(x, local, <<value.type.name>>, FALSE) ELSE x, local, value.type)
    [] value.is = "name"   ->
         IF <<value.name>> \in DOMAIN x.scope.routers
           THEN WithRouter(x, local, x.scope.routers[<<value.name>>])
         ELSE IF IsAlias(x, value) /\ Len(local) = 1
           THEN [x EXCEPT !.scope.aliases = (Head(local) :> @[value.name]) @@ @]
         ELSE x
    [] value.is = "attribute" ->
         LET router == RouterNamed(x, value)
             trusted == router # None /\ router.trusted
         IN IF trusted THEN WithRouter(x, local, router) ELSE AliasFor(x, local, Qualifier(x, value), TRUE)
    [] OTHER ->
         IF Value(x.scope.names, value) = None \/ Len(local) > 1 THEN x
         ELSE [x EXCEPT !.scope.names[Head(local)] = Value(x.scope.names, value)]

BindValue(x, target, value) ==
  LET type  == TypeOf(x, target.of)
      field == (IF type.package = None THEN <<>> ELSE <<type.package>>) \o <<type.name, target.name>>
  IN IF target.is = "name" THEN BindTo(x, <<target.name>>, SymbolFor(x, target.name), value)
     ELSE IF target.name = handler THEN MarkServed(x, value)
     ELSE IF type = None THEN x ELSE BindTo(x, field, field, value)

\* literal: http.Server{Handler: r}, Server{router: chi.NewRouter()}.
Literal(x, e) ==
  LET isServer == e.type.name = server /\ e.type.package # None /\ FlavourOf(x.file, e.type.package) = "http"
      Field(so, field) ==
        LET name  == <<e.type.name, field.key>>
            built == IF field.value.is = "chain" THEN Constructor(so, field.value) ELSE None
            seen  == IfDeclared(RouterIn(so, field.value))
        IN IF isServer THEN IF field.key = handler THEN MarkServed(so, field.value) ELSE so
           ELSE IF e.type.package # None THEN so
           ELSE IF built # None
             THEN Declare([so EXCEPT !.consumed = @ \union {field.value.at}], name, name, built.flavour, FALSE)
           ELSE IF seen.router # None
             THEN StandsFor(seen.x, name, seen.router.name)
           ELSE seen.x
  IN FoldLeft(Field, x, e.fields)

(***************************************************************************)
(* Calls.                                                                  *)
(***************************************************************************)
\* literal_router: func(r chi.Router) {...}, its parameters bound to the group.
LiteralRouter(x, f, group) ==
  LET names == {<<f.params[k].name>> : k \in DOMAIN f.params}
  IN [VisitAll([x EXCEPT !.consumed = @ \union {f.at},
                         !.scope.routers = [n \in names |-> group] @@ @], f.body)
        EXCEPT !.scope = x.scope]

\* "Group" and "Route" among the pieces: with a prefix or none, guards, and perhaps
\* a literal that registers what is in the group.
InGroup(p, at, piece) ==
  LET first    == Head(piece.args)
      bare     == first.is = "func"
      rest1    == IF bare THEN piece.args ELSE Tail(piece.args)
      literals == SelectSeq(rest1, LAMBDA e : e.is = "func")
      made     == Synthetic(p.x, [parent |-> p.current, prefix |-> IF bare THEN <<>> ELSE PathOfArgument(p.x, first),
                                  auth |-> IF bare THEN None ELSE FirstAuth(GuardsIn(p.x, rest1)),
                                  methods |-> <<>>], at)
  IN IF piece.args = <<>> THEN p
     ELSE IF ~bare /\ ~GoPath(p.x, first, TRUE) THEN p
     ELSE IF literals = <<>> THEN [p EXCEPT !.x = made.x, !.current = made.router]
     ELSE [p EXCEPT !.x = LiteralRouter(made.x, IF bare THEN first ELSE Last(literals), made.router)]

\* What is mounted on the router of the pieces, if anything is; a router among
\* middleware; and middleware put in force, from then on or for the rest of the chain.
MountsChild(p, x, child, prefix) == [p EXCEPT !.x = IF child = None THEN x ELSE MountOn(x, p.current, child, prefix)]

MountsSeen(p, seen) ==
  IF seen.router = None THEN seen.x
  ELSE IF seen.router.name = p.current.name THEN seen.x
  ELSE MountOn(seen.x, p.current, seen.router.name, <<>>)

InForce(p, alone, auth) ==
  IF auth = None THEN p
  ELSE IF alone THEN [p EXCEPT !.x.guarded = (p.current.name :> auth) @@ @]
  ELSE [p EXCEPT !.current.auth = auth]

UsesOf(p, alone, args, given) ==
  LET Mounted(so, e) == IF e.is = "func" THEN so ELSE MountsSeen(p, IfDeclared(RouterIn(so, e)))
  IN IF given.router # None THEN MountsChild(p, given.x, given.router.name, PathOfArgument(p.x, args[1]))
     ELSE InForce([p EXCEPT !.x = FoldLeft(Mounted, given.x, args)], alone, FirstAuth(GuardsIn(p.x, args)))

\* "Use" among the pieces: Fiber mounts by it, under a path.
InUse(p, alone, piece) ==
  UsesOf(p, alone, piece.args,
         IF Len(piece.args) >= 2 /\ GoPathFirst(p.x, piece.args, FALSE)
           THEN IfDeclared(RouterIn(p.x, piece.args[2])) ELSE Seen(p.x, None))

\* "Mount" among the pieces: a router, what a call returns, or nothing.
MountsHandler(p, mounted, e, prefix) ==
  IF mounted.child # None THEN MountsChild(p, mounted.x, mounted.child, mounted.prefix)
                          ELSE MountsChild(p, mounted.x, ReturnedBy(mounted.x, e), prefix)

InMount(p, piece) ==
  LET prefix  == PathOfArgument(p.x, piece.args[1])
  IN IF Len(piece.args) < 2 \/ ~GoPathFirst(p.x, piece.args, TRUE) THEN p
     ELSE MountsHandler(p, MountedHandler(p.x, piece.args[2], prefix), piece.args[2], prefix)

Registers(p, methods, e, handlers) ==
  [p EXCEPT !.x = RouteOn(@, p.current, methods, PathOfArgument(@, e), handlers, {})]

Handles(p, gorilla, args, mounted) ==
  LET methods == IF args[1].is = "pattern" /\ args[1].method # None THEN <<args[1].method>> ELSE <<>>
  IN IF mounted.child # None THEN MountsChild(p, mounted.x, mounted.child, mounted.prefix)
     ELSE IF gorilla
       THEN [p EXCEPT !.x = mounted.x, !.path = mounted.prefix, !.handler = args[2], !.methods = methods]
     ELSE Registers([p EXCEPT !.x = mounted.x], methods, args[1], Tail(args))

\* "Handle" and "HandleFunc" among the pieces: with the method, as a pattern that
\* may have it, as a mount, or as part of a gorilla route.
InHandle(p, gorilla, piece) ==
  LET args == piece.args
      path == PathOfArgument(p.x, args[1])
  IN IF piece.does = "Handle" /\ Len(args) >= 3 /\ MethodsOf(<<args[1]>>) # <<>> /\ GoPath(p.x, args[2], TRUE)
       THEN Registers(p, MethodsOf(<<args[1]>>), args[2], SubSeq(args, 3, Len(args)))
     ELSE IF Len(args) < 2 \/ ~GoPathFirst(p.x, args, FALSE) \/ ~HandlerLike(args[2]) THEN p
     ELSE Handles(p, gorilla, args, IF piece.does = "Handle" THEN MountedHandler(p.x, args[2], path)
                                    ELSE [x |-> p.x, child |-> None, prefix |-> path])

\* Pieces that say what a gorilla route matches.
InRoute(p, at, piece) ==
  LET args == piece.args
      keys == {args[k] : k \in {k \in DOMAIN args : k % 2 = 1 /\ args[k].is = "text"}}
      made == Synthetic(p.x, [parent |-> p.current, prefix |-> IF p.path = None THEN <<>> ELSE p.path,
                              auth |-> None, methods |-> p.methods], at)
  IN CASE piece.does = "Path"       -> IF args = <<>> THEN p ELSE [p EXCEPT !.path = PathOfArgument(p.x, args[1])]
       [] piece.does = "PathPrefix" -> IF args = <<>> THEN p ELSE [p EXCEPT !.path = Append(PathOfArgument(p.x, args[1]), rest)]
       [] piece.does = "Methods"    -> [p EXCEPT !.methods = MethodsOf(args)]
       [] piece.does \in {"HandlerFunc", "Handler"} ->
            [p EXCEPT !.handler = IF args = <<>> THEN None ELSE args[1]]
       [] piece.does = "Queries"    -> [p EXCEPT !.asks = @ \union {Asks("query", Head(e.text)) : e \in keys}]
       [] piece.does = "Headers"    -> [p EXCEPT !.asks = @ \union {Asks("header", Head(e.text)) : e \in keys}]
       [] piece.does = "Subrouter"  -> [p EXCEPT !.x = made.x, !.current = made.router, !.path = None, !.methods = <<>>]
       [] OTHER                     -> p

IsGorilla(e) == \E k \in DOMAIN e.pieces : e.pieces[k].does \in GorillaPieces

\* pieces: one of a chain `e`, on a router.
PieceOf(p, e, piece) ==
  LET args  == piece.args
      third == SubSeq(args, 3, Len(args))
  IN CASE piece.does \in DOMAIN Upper ->
            IF GoPathFirst(p.x, args, TRUE) THEN Registers(p, <<Upper[piece.does]>>, args[1], Tail(args)) ELSE p
       [] piece.does \in DOMAIN Title ->
            IF Len(args) >= 2 /\ GoPathFirst(p.x, args, FALSE) /\ HandlerLike(args[2])
              THEN Registers(p, <<Title[piece.does]>>, args[1], Tail(args)) ELSE p
       [] piece.does \in {"Any", "All"} ->
            IF GoPathFirst(p.x, args, p.current.trusted) /\ (p.current.trusted \/ args[1].is = "text")
              THEN Registers(p, <<>>, args[1], Tail(args)) ELSE p
       [] piece.does \in {"Handle", "HandleFunc"} -> InHandle(p, IsGorilla(e), piece)
       [] piece.does \in {"Method", "MethodFunc", "Add", "Match"} ->
            IF Len(args) >= 3 /\ GoPath(p.x, args[2], TRUE)
              THEN Registers(p, MethodsOf(<<args[1]>>), args[2], third) ELSE p
       [] piece.does \in {"Group", "Route"} -> InGroup(p, e.at, piece)
       [] piece.does = "With"  -> [p EXCEPT !.current.auth = FirstAuth(<<@>> \o GuardsIn(p.x, args))]
       [] piece.does = "Use"   -> InUse(p, Len(e.pieces) = 1, piece)
       [] piece.does = "Mount" -> InMount(p, piece)
       [] piece.does \in GorillaPieces -> InRoute(p, e.at, piece)
       [] piece.does \in ServeMethods ->
            IF p.current.trusted /\ p.current.flavour # "http"
              THEN [p EXCEPT !.x = MarkRoot(@, p.current)] ELSE p
       [] OTHER -> p

\* A gorilla route is registered at the end of its chain.
Pending(p, gorilla) ==
  IF gorilla /\ p.path # None /\ p.handler # None
    THEN RouteOn(p.x, p.current, p.methods, p.path, <<p.handler>>, p.asks) ELSE p.x

\* pieces: those of a chain, on a router.
Pieces(x, router, e) ==
  Pending(FoldLeft(LAMBDA p, piece : PieceOf(p, e, piece),
                   [x |-> x, current |-> router, path |-> None, handler |-> None, methods |-> <<>>, asks |-> {}],
                   e.pieces),
          IsGorilla(e))

\* call, on net/http itself.
OnHttp(x, e) ==
  LET piece == Head(e.pieces)
      at    == IF piece.does = "ListenAndServeTLS" THEN 4 ELSE 2
  IN IF piece.does \in {"HandleFunc", "Handle"} THEN Pieces(x, DefaultMux, e)
     ELSE IF piece.does \in {"ListenAndServe", "ListenAndServeTLS", "Serve", "ServeTLS"}
               /\ Len(piece.args) >= at
       THEN MarkServed(x, piece.args[at])
     ELSE x

MountedAs(child, found) ==
  IF found.router = None \/ child = None THEN Seen(found.x, None)
  ELSE IF found.router.name = child THEN Seen(found.x, None)
  ELSE Seen(MountOn(found.x, found.router, child, <<>>), found.router)

\* call, of a function handed a router: a mount of that function; or None.
Handed(x, e) ==
  LET external == e.root # None /\ e.root.is = "name" /\ External(x.file, e.root.name)
  IN IF external THEN Seen(x, None) ELSE MountedAs(Qualifier(x, e), RouterAmong(x, Head(e.pieces).args))

\* call: what came back from a call is known to be a router once it is used as one,
\* under the name of one or in a way only they are.
Settled(x, e, router) ==
  LET known == [router EXCEPT !.declared = TRUE]
  IN IF router = None \/ e.root.is # "name" THEN Seen(x, router)
     ELSE IF /\ router.trusted /\ ~router.declared
             /\ \E k \in DOMAIN e.pieces : /\ e.pieces[k].does \in Routing
                                           /\ e.root.name \in UsualNames \/ e.pieces[k].does \in Unmistakable
       THEN Seen(WithRouter(x, <<e.root.name>>, known), known)
     ELSE Seen(x, router)

\* call: the router it is of serves, or is handed on, or is registered on.
PiecesUnlessHanded(e, router, handed) ==
  IF handed.router # None \/ router = None THEN handed.x
  ELSE IF router.declared \/ \E k \in DOMAIN e.pieces : e.pieces[k].does \in Unmistakable
    THEN Pieces(handed.x, router, e)
  ELSE handed.x

UnlessServed(e, on, served) ==
  IF served.router # None THEN MarkRoot(served.x, served.router)
  ELSE PiecesUnlessHanded(e, on.router,
         IF Len(e.pieces) = 1 /\ (on.router = None \/ IsAlias(on.x, e.root)) THEN Handed(served.x, e) ELSE served)

CallOn(e, on) ==
  UnlessServed(e, on,
    IF on.router = None /\ Len(e.pieces) = 1 /\ Head(e.pieces).does \in ServeMethods
      THEN RouterAmong(on.x, Head(e.pieces).args) ELSE Seen(on.x, None))

CallOf(x, e) ==
  IF Len(e.pieces) = 1 /\ e.root # None /\ e.root.is = "name" /\ FlavourOf(x.file, e.root.name) = "http"
    THEN OnHttp(x, e)
  ELSE CallOn(e, Settled(x, e, RouterNamed(x, e.root)))

Visit(x, node) ==
  LET params == {node.params[k].name : k \in DOMAIN node.params}
      TypeIn(n) == node.params[CHOOSE k \in DOMAIN node.params : node.params[k].name = n].type
  IN IF node.is \in {"chain", "func"} /\ node.at \in x.consumed THEN x
     ELSE CASE node.is = "bind"   -> Visit(BindValue(x, node.target, node.value), node.value)
            [] node.is = "var"    -> BindType(x, node.name, node.type)
            [] node.is = "return" -> Visit(x, node.value)
            [] node.is = "struct" ->
                 VisitAll(Literal(x, node), [k \in DOMAIN node.fields |-> node.fields[k].value])
            [] node.is = "func"   ->
                 [VisitAll([x EXCEPT !.scope.types = [n \in params |-> TypeIn(n)] @@ @], node.body)
                    EXCEPT !.scope = x.scope]
            [] node.is = "chain"  ->
                 VisitAll(CallOf(x, node), FlattenSeq([k \in DOMAIN node.pieces |-> node.pieces[k].args]))
            [] OTHER              -> x

(***************************************************************************)
(* Functions.                                                              *)
(***************************************************************************)
SymbolOf(f) == IF f.receiver = None THEN <<f.name>> ELSE <<f.receiver.type, f.name>>

\* body: its router parameters are the function itself, which is a router if it
\* has any, or something was registered through it.
Body(x, f) ==
  LET symbol     == SymbolOf(f)
      handed     == {p \in ToSet(f.params) : RouterFlavour(x.file, p.type) # None}
      others     == ToSet(f.params) \ handed
      The(ps, n) == CHOOSE p \in ps : p.name = n
      scope == [NoScope(x.names) EXCEPT
                  !.function = symbol, !.receiver = f.receiver,
                  !.routers = [n \in {<<p.name>> : p \in handed} |->
                                 RouterExpr(symbol, RouterFlavour(x.file, The(handed, n[1]).type), TRUE)],
                  !.types = [n \in {p.name : p \in others} |-> The(others, n).type],
                  !.returned = {d.value.name : d \in {d \in ToSet(f.body) : d.is = "return" /\ d.value.is = "name"}}]
      Kept(read) == IF handed # {} \/ Last(read.functions).active THEN read ELSE [read EXCEPT !.functions = Front(@)]
  IN Kept(VisitAll([x EXCEPT !.scope = scope, !.functions = Append(@, FunctionRouter(symbol))], f.body))

\* handler_fact: of a function that is shaped like a handler.
NotingHandler(x, f) ==
  LET IsRequest(type) == /\ type.package # None /\ type.name \in RequestTypes
                         /\ FlavourOf(x.file, type.package) \in {"gin", "echo", "fiber", "http"}
      byHand == Asks("header", authorization)
      fact == HandlerFact(x.file.module, Spelled(SymbolOf(f)), f.reads \ {byHand},
                          IF byHand \in f.reads THEN bearer ELSE None, f.checks)
  IN IF \E p \in ToSet(f.params) : IsRequest(p.type)
       THEN [x EXCEPT !.facts.handlers = Append(@, fact)] ELSE x

\* function, method: what a constructor returns, and a type whose ServeHTTP has a
\* field of it do the serving, stand for each other.
ReadFunction(x, f) ==
  LET alias    == IF f.receiver = None /\ f.result # None THEN StandsFor(x, <<f.name>>, <<f.result>>) ELSE x
      noted    == NotingHandler(alias, f)
      type     == f.receiver.type
      served   == StandsFor([noted EXCEPT !.routerTypes = @ \union {type}], <<type>>, <<type, f.delegate>>)
      isServed == f.receiver # None /\ f.name = serveHttp /\ f.delegate # None
  IN Body(IF isServed THEN served ELSE noted, f)

(***************************************************************************)
(* A file.                                                                 *)
(***************************************************************************)
Each(x, body, Is(_), Read(_, _)) == FoldLeft(Read, x, SelectSeq(body, Is))

\* types: a struct that embeds a router is one.
Embedding(x, d) ==
  IF d.embeds = None THEN x
  ELSE IF FlavourOf(x.file, d.embeds.package) # None /\ d.embeds.name \in RouterTypes
    THEN StandsFor([x EXCEPT !.routerTypes = @ \union {d.name}], <<d.name>>, <<d.name, d.embeds.name>>)
  ELSE x

\* var_spec, of a package: the routers among them are known in the whole file.
PackageVar(x, d) ==
  LET bound == IF d.is = "var" THEN BindType(x, d.name, d.type) ELSE BindTo(x, <<d.name>>, <<d.name>>, d.value)
  IN [bound EXCEPT !.globals = bound.scope.routers @@ @, !.scope = NoScope(x.names)]

\* package_level: constants, whatever order they are in, types, and then variables.
PackageLevel(file) ==
  LET names == Folded(file.body, LAMBDA d : d.is = "assign")
      types == Each(Extractor(file, names), file.body, LAMBDA d : d.is = "type", Embedding)
  IN Each(types, file.body, LAMBDA d : d.is \in {"assign", "var"}, PackageVar)

\* file: what is still to be said when all of it is read.
Emitted(x) ==
  LET Router(name, root) == RouterFact(<<x.file.module, Spelled(name)>>, <<>>, None, root)
      Standing(name, used) == IF used THEN <<Router(name, TRUE)>> ELSE <<>>
      uses     == {r.router : r \in ToSet(x.facts.routes)} \union {m.parent : m \in ToSet(x.facts.mounts)}
                  \union {m.child : m \in ToSet(x.facts.mounts)}
      declared == [k \in DOMAIN x.declared |->
                     LET d == x.declared[k] IN Router(d.symbol, d.served \/ (d.root /\ ~d.mounted))]
      functions == [k \in DOMAIN x.functions |->
                      LET f == x.functions[k] IN [Router(f.symbol, f.root) EXCEPT !.implicit = ~f.active]]
      ours     == SelectSeq(x.file.body, LAMBDA d : d.is = "imports" /\ d.of # None)
  IN [x.facts EXCEPT
        !.routers = declared \o functions
                    \o Standing(<<defaultMux>>, UseIn(x, <<defaultMux>>) \in uses)
                    \o Standing(<<serverRoot>>, UseIn(x, <<serverRoot>>) \in uses),
        !.imports = [k \in DOMAIN ours |-> ImportFact(x.file.module, ours[k].local, ours[k].of, None, None)]]

Go(file) ==
  Emitted(Each(PackageLevel(file), file.body, LAMBDA d : d.is = "function", ReadFunction))

=============================================================================
