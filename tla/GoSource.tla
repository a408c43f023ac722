------------------------------ MODULE GoSource ------------------------------
(***************************************************************************)
(* Go as its adapter reads it (rl-discovery: adapters/go.rs): what imports,*)
(* names and types stand for in a function, what reads as a path, and what *)
(* a handler is.                                                           *)
(*                                                                         *)
(* A call is a chain of pieces on what comes first: a.B(x).C(y), or the    *)
(* one piece f(x) on nothing.  A piece has a name, and does what methods   *)
(* of routers of that name do, if any.  A chain and a function literal are *)
(* told from others by where they start.  Pointers, the types of the       *)
(* fields of a struct, returns from within closures, ports, groups taken   *)
(* from file, function and path names, and handlers that serve files,      *)
(* which are no routes, are left out.                                      *)
(***************************************************************************)
EXTENDS SourceText, TLC

CONSTANTS
  RouterNames,     \* Names that say router, mux or engine
  UsualNames,      \* What a router is usually called
  RouterTypes,     \* Types of the frameworks that are routers,
  RequestTypes,    \* and that are what a handler is handed
  server, handler, \* http.Server, and its field
  serveHttp        \* The method of what can be served

GoType(package, name) == [package |-> package, name |-> name]

\* Expressions.  A function literal is also what it reads of a request, and the
\* methods it asks the request for.
GoPattern(method, text)       == [is |-> "pattern", method |-> method, text |-> text]
Piece(does, name, args)     == [does |-> does, name |-> name, args |-> args]
Chain(at, root, pieces)     == [is |-> "chain", at |-> at, root |-> root, pieces |-> pieces]
Struct(type, fields)        == [is |-> "struct", type |-> type, fields |-> fields]
Closure(at, params, body, reads, checks) ==
  [is |-> "func", at |-> at, params |-> params, body |-> body, reads |-> reads, checks |-> checks]

\* Statements, and declarations of a file.  An import is of a framework, of a
\* directory of this project, or of neither; a struct may embed a type.
Bind(target, value)     == [is |-> "bind", target |-> target, value |-> value]
Var(name, type)         == [is |-> "var", name |-> name, type |-> type]
Returning(value)        == [is |-> "return", value |-> value]
GoImport(local, flavour, of) == [is |-> "imports", local |-> local, flavour |-> flavour, of |-> of]
StructType(name, embeds)     == [is |-> "type", name |-> name, embeds |-> embeds]

\* `receiver` is a name and a type, or None; `result` the type of this package it
\* returns first, or None; `delegate` the field whose ServeHTTP it calls, or None.
GoFunction(name, receiver, params, result, body) ==
  [is |-> "function", name |-> name, receiver |-> receiver, params |-> params, result |-> result,
   body |-> body, delegate |-> None, reads |-> {}, checks |-> <<>>]

\* UPPER_METHODS, TITLE_METHODS.
Upper == [GET |-> Verb["get"], POST |-> Verb["post"], PUT |-> Verb["put"], PATCH |-> Verb["patch"],
          DELETE |-> Verb["delete"]]
Title == [Get |-> Verb["get"], Post |-> Verb["post"], Put |-> Verb["put"], Patch |-> Verb["patch"],
          Delete |-> Verb["delete"]]

GorillaPieces == {"Methods", "Path", "PathPrefix", "HandlerFunc", "Handler", "Queries", "Headers",
                  "Schemes", "Host", "Name", "Subrouter"}
ServeMethods  == {"Run", "RunTLS", "Start", "StartTLS", "StartServer", "Listen", "ListenTLS",
                  "ListenAndServe", "ListenAndServeTLS", "Listener", "Serve", "ServeTLS"}

\* is_unmistakable_piece, is_routing_piece
Unmistakable == DOMAIN Upper \union ServeMethods
                \union {"HandleFunc", "Handle", "Mount", "Route", "With", "Subrouter", "PathPrefix",
                        "Methods", "HandlerFunc", "MethodFunc"}
Routing == DOMAIN Upper \union DOMAIN Title \union GorillaPieces \union ServeMethods
           \union {"Any", "All", "Handle", "HandleFunc", "Group", "Route", "Mount", "Use", "With",
                   "Method", "MethodFunc", "Add", "Match", "Static"}

\* Flavour::constructor: whether what is built is an application of its own.
Constructors ==
  ("http" :> [NewServeMux |-> FALSE]) @@ ("gin" :> [Default |-> TRUE, New |-> TRUE])
  @@ ("echo" :> [New |-> TRUE]) @@ ("chi" :> [NewRouter |-> FALSE, NewMux |-> FALSE])
  @@ ("fiber" :> [New |-> TRUE]) @@ ("mux" :> [NewRouter |-> FALSE])

(***************************************************************************)
(* What names stand for, in the file.                                      *)
(***************************************************************************)
ImportsNamed(file, n) == {d \in ToSet(file.body) : d.is = "imports" /\ d.local = n}

External(file, n) == \E d \in ImportsNamed(file, n) : d.of = None
Ours(file, n)     == \E d \in ImportsNamed(file, n) : d.of # None

FlavourOf(file, n) ==
  IF ImportsNamed(file, n) = {} THEN None ELSE (CHOOSE d \in ImportsNamed(file, n) : TRUE).flavour

\* router_type: what a type of router is of, or None; also one of this project
\* that is called one.
RouterFlavour(file, type) ==
  LET flavour == IF type.package = None THEN None ELSE FlavourOf(file, type.package)
  IN IF flavour # None THEN (IF type.name \in RouterTypes THEN flavour ELSE None)
     ELSE IF type.name \in RouterNames THEN "unknown" ELSE None

Functions(file) == {d.name : d \in {d \in ToSet(file.body) : d.is = "function" /\ d.receiver = None}}
Structs(file)   == {d.name : d \in {d \in ToSet(file.body) : d.is = "type"}}

\* is_project_name
IsProjectName(file, name) ==
  Ours(file, Head(name)) \/ Head(name) \in Functions(file) \union Structs(file)

\* top_level: the first declaration of that name, or None.
FirstDeclared(file, n, isMethod) ==
  FirstOf(SelectSeq(file.body, LAMBDA d : d.is = "function" /\ d.name = n /\ (d.receiver # None) = isMethod))

(***************************************************************************)
(* And in a function.  `x` is the extractor, `x.scope` what the function   *)
(* it is in knows (Scope).                                                 *)
(***************************************************************************)
\* type_of
TypeOf(x, n) ==
  IF x.scope.receiver # None /\ x.scope.receiver.name = n THEN GoType(None, x.scope.receiver.type)
  ELSE IF n \in DOMAIN x.scope.types THEN x.scope.types[n] ELSE None

IsAlias(x, e) == e.is = "name" /\ e.name \in DOMAIN x.scope.aliases

\* qualifier, callee_name: the dotted name of an expression, or None.
NameStandsFor(x, n) ==
  IF n \in DOMAIN x.scope.aliases THEN x.scope.aliases[n].name
  ELSE IF TypeOf(x, n) # None THEN <<TypeOf(x, n).name>> ELSE <<n>>

PieceNames(pieces) == [k \in DOMAIN pieces |-> pieces[k].name]

Qualifier(x, e) ==
  CASE e.is = "name"      -> NameStandsFor(x, e.name)
    [] e.is = "attribute" -> Append(NameStandsFor(x, e.of), e.name)
    [] e.is = "struct"    -> <<e.type.name>>
    [] e.is = "chain"     ->
         IF e.root = None
           THEN NameStandsFor(x, Head(e.pieces).name) \o PieceNames(Tail(e.pieces))
         ELSE IF e.root.is = "name" THEN NameStandsFor(x, e.root.name) \o PieceNames(e.pieces)
         ELSE IF e.root.is = "attribute"
           THEN Append(NameStandsFor(x, e.root.of), e.root.name) \o PieceNames(e.pieces)
         ELSE IF e.root.is = "struct" THEN <<e.root.type.name>> \o PieceNames(e.pieces) ELSE None
    [] OTHER              -> None

\* is_external_call
ExternalCall(x, e) ==
  LET first == IF e.root = None THEN Head(e.pieces).name
               ELSE IF e.root.is = "name" THEN e.root.name
               ELSE IF e.root.is = "attribute" THEN e.root.of ELSE None
  IN \/ External(x.file, first)
     \/ first \in DOMAIN x.scope.types /\ External(x.file, x.scope.types[first].package)

(***************************************************************************)
(* Arguments.                                                              *)
(***************************************************************************)
IsRouterVar(x, n) == <<n>> \in DOMAIN x.scope.routers \union DOMAIN x.globals

\* is_path_argument.  `certain` says nothing but a path can be there.
GoPath(x, e, certain) ==
  CASE e.is = "pattern"   -> TRUE
    [] e.is = "text"      -> certain \/ Rooted(e.text)
    [] e.is = "name"      ->
         IF x.scope.names[e.name] # None THEN certain \/ Rooted(x.scope.names[e.name])
         ELSE /\ certain /\ ~IsRouterVar(x, e.name)
              /\ e.name \notin DOMAIN x.scope.types \union DOMAIN x.scope.aliases \union Functions(x.file)
    [] e.is = "joined"    ->
         IF Value(x.scope.names, e) # None THEN Rooted(Value(x.scope.names, e))
         ELSE \E k \in DOMAIN e.parts : e.parts[k].is = "text"
    [] e.is = "attribute" -> certain \/ {e.of, e.name} \intersect Screaming # {}
    [] OTHER              -> FALSE

GoPathFirst(x, args, certain) == args # <<>> /\ GoPath(x, Head(args), certain)

PathOfArgument(x, e) == IF e.is = "pattern" THEN e.text ELSE PathValue(x.scope.names, e)

\* method_of, methods_of
MethodIn(e) == IF e.is # "text" THEN <<>> ELSE IF Head(e.text) \in Range(Upper) THEN <<Head(e.text)>> ELSE <<>>

MethodsOf(args) ==
  LET Methods(e) == IF e.is = "list" THEN FlattenSeq([k \in DOMAIN e.items |-> MethodIn(e.items[k])]) ELSE MethodIn(e)
  IN FlattenSeq([k \in DOMAIN args |-> Methods(args[k])])

\* is_handler_like
HandlerLike(e) == e.is \in {"name", "attribute", "func", "chain", "struct"}

\* auth_of: a router is not middleware, nor is a literal.
GuardIn(x, e) ==
  CASE e.is = "name"      -> IF IsRouterVar(x, e.name) THEN None ELSE AuthFromName(e.name)
    [] e.is = "attribute" -> FirstAuth(<<AuthFromName(e.of), AuthFromName(e.name)>>)
    [] e.is = "chain"     -> FirstAuth([k \in DOMAIN e.pieces |-> AuthFromName(e.pieces[k].name)])
    [] OTHER              -> None

GuardsIn(x, args) == [k \in DOMAIN args |-> GuardIn(x, args[k])]

\* http.HandlerFunc(f) is f.
Unadapted(e) ==
  IF e.is = "chain" /\ Last(e.pieces).does = "HandlerFunc" THEN Head(Last(e.pieces).args) ELSE e

\* handler_function: the function of this file an argument names, or None; of a
\* factory, what it makes.
HandlerIn(x, e) ==
  LET MethodOn(root, n) ==
        IF root.is = "name" /\ (External(x.file, root.name) \/ Ours(x.file, root.name)) THEN None
        ELSE FirstDeclared(x.file, n, TRUE)
  IN CASE e.is = "func"      -> e
       [] e.is = "name"      -> FirstDeclared(x.file, e.name, FALSE)
       [] e.is = "attribute" -> MethodOn(Ident(e.of), e.name)
       [] e.is = "chain"     ->
            IF Len(e.pieces) > 1 THEN FirstDeclared(x.file, Last(e.pieces).name, TRUE)
            ELSE IF e.root = None THEN FirstDeclared(x.file, Head(e.pieces).name, FALSE)
            ELSE MethodOn(e.root, Head(e.pieces).name)
       [] OTHER              -> None

=============================================================================
