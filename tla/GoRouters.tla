----------------------------- MODULE GoRouters ------------------------------
(***************************************************************************)
(* The routers the Go adapter sees in a function (rl-discovery:            *)
(* adapters/go.rs): variables, parameters, fields, groups made where they  *)
(* are used, and functions that are handed a router or return one; and     *)
(* what it emits of them.  Names are sequences of names until then.        *)
(***************************************************************************)
EXTENDS GoSource

CONSTANTS defaultMux, serverRoot   \* Stand for net/http's own router, and for a server

\* RouterExpr: `known` to be a router.
RouterExpr(name, flavour, known) ==
  [name |-> name, flavour |-> flavour, auth |-> None, trusted |-> known, declared |-> known]

Plausibly(name) == [RouterExpr(name, "unknown", TRUE) EXCEPT !.declared = FALSE]

DefaultMux == RouterExpr(<<defaultMux>>, "http", TRUE)

\* Declared, FunctionRouter, Scope.
Declaration(symbol, root, mounted) ==
  [symbol |-> symbol, root |-> root, mounted |-> mounted, served |-> FALSE]
FunctionRouter(symbol) == [symbol |-> symbol, active |-> FALSE, root |-> FALSE]

NoScope(names) ==
  [routers |-> <<>>, aliases |-> <<>>, types |-> <<>>, receiver |-> None, function |-> None,
   returned |-> {}, names |-> names]

\* Extractor
Extractor(file, names) ==
  [file |-> file, facts |-> NoFacts, declared |-> <<>>, functions |-> <<>>, globals |-> <<>>,
   guarded |-> <<>>, routerTypes |-> {}, consumed |-> {}, scope |-> NoScope(names), names |-> names]

Spelled(parts) == CHOOSE n \in Name : Parts[n] = parts

UseIn(x, name) == Use(x.file.module, Spelled(name))

\* A name that stands for another, in the whole package.
StandsFor(x, exported, local) ==
  [x EXCEPT !.facts.exports = Append(@, ExportFact(x.file.module, Spelled(exported), Spelled(local)))]

WithRouter(x, name, router) == [x EXCEPT !.scope.routers = (name :> router) @@ @]

DeclaredAs(x, symbol) == {k \in DOMAIN x.declared : x.declared[k].symbol = symbol}

\* activity, if what is registered on is the function itself.
Active(x) == [x EXCEPT !.functions[Len(x.functions)].active = TRUE]
ActiveIfOwn(x, router) == IF router.name = x.scope.function THEN Active(x) ELSE x

Mounting(x, parent, child, prefix, auth, methods) ==
  [x EXCEPT !.facts.mounts =
     Append(@, [MountFact(UseIn(x, parent), UseIn(x, child), prefix)
                  EXCEPT !.auth = auth, !.methods = ToSet(methods)])]

(***************************************************************************)
(* Which router an expression is.                                          *)
(***************************************************************************)
RouterVar(x, n) ==
  LET type == x.scope.receiver.type IN
  IF <<n>> \in DOMAIN x.scope.routers THEN x.scope.routers[<<n>>]
  ELSE IF <<n>> \in DOMAIN x.globals THEN x.globals[<<n>>]
  ELSE IF n \in DOMAIN x.scope.aliases
    THEN IF x.scope.aliases[n].called THEN Plausibly(x.scope.aliases[n].name) ELSE None
  ELSE IF FlavourOf(x.file, n) = "http" THEN DefaultMux
  ELSE IF x.scope.receiver # None /\ x.scope.receiver.name = n
    THEN RouterExpr(<<type>>, "unknown", type \in x.routerTypes \union RouterNames)
  ELSE IF \/ n \in DOMAIN x.scope.types \/ x.scope.names[n] # None
          \/ ImportsNamed(x.file, n) # {} \/ n \in Functions(x.file)
    THEN None
  ELSE RouterExpr(<<n>>, "unknown", n \in RouterNames)

\* A field: of a package of this project, or of a variable whose type is known.
RouterField(x, of, field) ==
  LET type == TypeOf(x, of)
      name == <<type.name, field>>
  IN IF External(x.file, of) \/ IsRouterVar(x, of) \/ of \in DOMAIN x.scope.aliases THEN None
     ELSE IF Ours(x.file, of)
       THEN [Plausibly(<<of, field>>) EXCEPT !.declared = field \in RouterNames]
     ELSE IF type = None \/ type.package # None THEN None
     ELSE RouterExpr(name, "unknown",
            field \in RouterNames \/ DeclaredAs(x, name) # {} \/ name \in DOMAIN x.scope.routers)

RouterNamed(x, e) ==
  IF e = None THEN None
  ELSE IF e.is = "name" THEN RouterVar(x, e.name)
  ELSE IF e.is = "attribute" THEN RouterField(x, e.of, e.name) ELSE None

\* constructor: whether a call builds a router, of what, and whether a root.
Constructor(x, e) ==
  LET flavour == IF e.root = None \/ e.root.is # "name" THEN None ELSE FlavourOf(x.file, e.root.name)
      does    == Head(e.pieces).does
  IN IF Len(e.pieces) # 1 \/ flavour = None \/ does \notin DOMAIN Constructors[flavour] THEN None
     ELSE [flavour |-> flavour, root |-> Constructors[flavour][does]]

\* Mutation: what is in force on the way to a group is left behind.
CarvedUnguarded(x, so, piece) == [so EXCEPT !.prefix = @ \o PathOfArgument(x, Head(piece.args)), !.carved = TRUE]

\* group_call: what carving a group says.
Carved(x, so, piece) ==
  [so EXCEPT !.prefix = @ \o PathOfArgument(x, Head(piece.args)), !.carved = TRUE,
             !.auth = FirstAuth(<<@>> \o GuardsIn(x, Tail(piece.args)))]

\* group_call: one piece of a chain; None says that it makes no group.
GroupPiece(x, so, piece) ==
  CASE so = None -> None
    [] piece.does \in {"Group", "Route"} ->
         IF piece.args = <<>> THEN None
         ELSE IF Head(piece.args).is = "func" THEN [so EXCEPT !.carved = TRUE]
         ELSE IF GoPath(x, Head(piece.args), TRUE) THEN Carved(x, so, piece) ELSE None
    [] piece.does \in {"PathPrefix", "Path"} ->
         IF piece.args = <<>> THEN None ELSE [so EXCEPT !.prefix = @ \o PathOfArgument(x, Head(piece.args))]
    [] piece.does = "Methods"   -> [so EXCEPT !.methods = MethodsOf(piece.args)]
    [] piece.does = "Subrouter" -> [so EXCEPT !.carved = TRUE]
    [] piece.does \in {"With", "Use"} ->
         [so EXCEPT !.auth = FirstAuth(<<@>> \o GuardsIn(x, piece.args)), !.carved = @ \/ piece.does = "With"]
    [] piece.does \in {"Name", "Host", "Schemes", "Headers", "Queries"} -> so
    [] OTHER -> None

IfCarved(group) == IF group = None THEN None ELSE IF group.carved THEN group ELSE None

GroupMade(x, root, pieces) ==
  IF root = None THEN None
  ELSE IF ~root.declared THEN None
  ELSE IfCarved(FoldLeft(LAMBDA so, piece : GroupPiece(x, so, piece),
                         [parent |-> root, prefix |-> <<>>, auth |-> None, methods |-> <<>>, carved |-> FALSE],
                         pieces))

\* group_call: the group a chain makes of a known router, or None.
GroupCall(x, e) == GroupMade(x, RouterNamed(x, e.root), e.pieces)

\* What may have been seen on the way to a router, and the router, or None.
Seen(x, router) == [x |-> x, router |-> router]

\* synthetic: a group made where it is used is declared and mounted, once.
Synthetic(x, group, at) ==
  LET name == Append(group.parent.name, at)
      made == [x EXCEPT !.declared = Append(@, Declaration(name, FALSE, TRUE))]
  IN Seen(IF DeclaredAs(x, name) # {} THEN x
          ELSE Mounting(made, group.parent.name, name, group.prefix, group.auth, group.methods),
          RouterExpr(name, group.parent.flavour, TRUE))

SeenGroup(x, group, at) ==
  IF group = None THEN Seen(x, None)
                  ELSE Synthetic([x EXCEPT !.consumed = @ \union {at}], group, at)

\* router_of
RouterIn(x, e) ==
  IF e.is = "chain" THEN SeenGroup(x, GroupCall(x, e), e.at) ELSE Seen(x, RouterNamed(x, e))

\* What was seen, if it is known to be a router; if there is reason to take it for one.
IfDeclared(seen) == IF seen.router = None THEN seen ELSE IF seen.router.declared THEN seen ELSE Seen(seen.x, None)
IfTrusted(seen)  == IF seen.router = None THEN seen ELSE IF seen.router.trusted THEN seen ELSE Seen(seen.x, None)

\* The first argument that is known to be a router.
RouterAmong(x, args) ==
  FoldLeft(LAMBDA so, e : IF so.router # None THEN so ELSE IfDeclared(RouterIn(so.x, e)), Seen(x, None), args)

(***************************************************************************)
(* What is mounted and what is served.                                     *)
(***************************************************************************)
\* mount
MountOn(x, parent, child, prefix) ==
  LET told == ActiveIfOwn(x, parent)
      at   == DeclaredAs(x, child)
  IN Mounting(IF at = {} THEN told ELSE [told EXCEPT !.declared[Min(at)].mounted = TRUE],
              parent.name, child, prefix, parent.auth, <<>>)

\* mount_child_of_call: the router a call into the project returns, or None.
ReturnedBy(x, e) ==
  IF e.is # "chain" THEN None
  ELSE IF ExternalCall(x, e) \/ (e.root = None /\ Head(e.pieces).does = "new") THEN None
  ELSE Qualifier(x, e)

\* mounted_handler: a router, perhaps behind http.StripPrefix, and its prefix.
MountedHandler(x, e, prefix) ==
  LET strips == e.is = "chain" /\ Last(e.pieces).does = "StripPrefix"
      inner  == IF strips THEN Last(e.pieces).args[2] ELSE e
      Mounted(seen) ==
        [x |-> seen.x, prefix |-> IF strips THEN PathOfArgument(x, Last(e.pieces).args[1]) ELSE prefix,
         child |-> IF seen.router # None THEN seen.router.name ELSE IF strips THEN ReturnedBy(x, inner) ELSE None]
  IN IF e.is = "chain" /\ ~strips THEN [x |-> x, child |-> None, prefix |-> prefix]
     ELSE Mounted(IfTrusted(RouterIn(x, inner)))

\* served: what a server is handed.
PlausiblyNamed(name) == IF name = None THEN None ELSE Plausibly(name)

Served(x, e) ==
  LET ByName == PlausiblyNamed(IF IsAlias(x, e) THEN x.scope.aliases[e.name].name ELSE ReturnedBy(x, e))
      OrByName(seen) == IF seen.router # None THEN IfTrusted(seen) ELSE Seen(seen.x, ByName)
  IN OrByName(RouterIn(x, e))

\* mark_root: of this file, or else mounted on a root that stands for a server.
MarkRoot(x, router) ==
  LET declared  == DeclaredAs(x, router.name)
      functions == {k \in DOMAIN x.functions : x.functions[k].symbol = router.name}
  IN IF declared # {} THEN [x EXCEPT !.declared[Min(declared)].served = TRUE]
     ELSE IF functions # {}
       THEN [x EXCEPT !.functions[Min(functions)].active = TRUE, !.functions[Min(functions)].root = TRUE]
     ELSE IF router.name = <<defaultMux>> \/ ~router.trusted THEN x
     ELSE Mounting(x, <<serverRoot>>, router.name, <<>>, None, <<>>)

MarkIfFound(found) == IF found.router = None THEN found.x ELSE MarkRoot(found.x, found.router)
MarkServed(x, e)   == MarkIfFound(Served(x, e))

(***************************************************************************)
(* Routes.                                                                 *)
(***************************************************************************)
\* HandlerUsage: the methods handlers check for, each once.
CheckedBy(functions) ==
  FoldLeft(LAMBDA so, f : so \o SelectSeq(f.checks, LAMBDA m : m \notin ToSet(so)), <<>>, functions)

Reached(methods, checked) ==
  IF methods # <<>> THEN methods ELSE IF checked # <<>> THEN checked ELSE Unspecified

\* route: no methods, if the registration names none; `asks` are its matchers.
\* A guard is of the router, or of a handler, or was in use on the router.
RouteOn(x, router, methods, path, handlers, asks) ==
  LET inUse    == IF router.name \in DOMAIN x.guarded THEN x.guarded[router.name] ELSE None
      handled  == Unadapted(Last(handlers))
      Route(functions) ==
        Using([RouteFact(UseIn(x, router.name), Reached(methods, CheckedBy(functions)), path) EXCEPT
                 !.auth = FirstAuth(<<router.auth>> \o GuardsIn(x, handlers) \o <<inUse>>),
                 !.handler = IF handled.is \in {"name", "attribute"}
                               THEN UseIn(x, Qualifier(x, handled)) ELSE None],
              asks \union UNION {functions[k].reads : k \in DOMAIN functions}, {})
  IN [ActiveIfOwn(x, router) EXCEPT
        !.facts.routes = Append(@, Route(SelectSeq([k \in DOMAIN handlers |-> HandlerIn(x, Unadapted(handlers[k]))],
                                                   LAMBDA f : f # None)))]

=============================================================================
