-------------------------------- MODULE MCGo --------------------------------
(***************************************************************************)
(* Small projects, and those in Go: each with what it serves.  File 5 is   *)
(* the command, and files 6 and 7 are a package it imports.                *)
(***************************************************************************)
EXTENDS Sources

(***************************************************************************)
(* What the projects of every language are made of.                        *)
(***************************************************************************)
Verbs == [delete |-> 1, get |-> 2, patch |-> 3, post |-> 4, put |-> 5]
Get  == Verbs.get
Post == Verbs.post

Endpoint(method, path, auth, asks) == [method |-> method, path |-> path, auth |-> auth, asks |-> asks]

\* The first file mentions the frameworks.
Project(language, mentions, files, serves) ==
  [language |-> language, manifests |-> <<>>, files |-> [files EXCEPT ![1].mentions = mentions], serves |-> serves]

ByHand == Asks("header", authorization)

(***************************************************************************)
(* Files and names.                                                        *)
(***************************************************************************)
Command  == 60   \* The directories
Handlers == 61
MCPackage == [m \in Module |-> IF m = 5 THEN Command ELSE IF m \in {6, 7} THEN Handlers ELSE None]

\* The names.
web  == 70  http   == 71  pkg == 72   \* Imports
main == 73  regist == 74  routesOf == 75  list == 76
typ  == 77  newTyp == 78
rr == 79  made == 80  grp == 81  obj == 82  field == 83
Engine == 84  Context == 85
mark == 92  mark2 == 93   \* Where two groups are made
method == 94              \* What a piece that does something is called

Dotted2 ==
  {<<main, made>>, <<main, grp>>, <<main, obj>>, <<pkg, regist>>, <<pkg, routesOf>>, <<pkg, newTyp>>, <<pkg, field>>,
   <<typ, routesOf>>, <<typ, field>>, <<typ, Engine>>, <<typ, serveHttp>>, <<typ, list>>,
   <<regist, mark2>>, <<regist, grp>>, <<regist, rr>>, <<routesOf, mark2>>, <<routesOf, grp>>, <<field, mark2>>}

MCDotted ==
  Dotted2 \union {<<main, made, mark>>, <<main, obj, mark>>, <<pkg, newTyp, routesOf>>, <<pkg, newTyp, mark>>}
  \union {n \o <<k>> : n \in {<<typ, routesOf>>, <<typ, field>>, <<field, mark>>}, k \in {mark2, grp}}

Numbered(parts) == FoldLeft(LAMBDA n, part : 100 * n + part, 0, parts)

Atoms == {0, 1, 2, 3, 4, 5, 6, 7, 8, 9, 31, 32, 33, 34, 99} \union 70..94
MCName == Atoms \union {Numbered(parts) : parts \in MCDotted}
MCParts == [n \in MCName |-> IF n \in Atoms THEN <<n>> ELSE CHOOSE parts \in MCDotted : Numbered(parts) = n]

(***************************************************************************)
(* Calls.                                                                  *)
(***************************************************************************)
Doing(does, args) == Piece(does, method, args)
Upon(at, e, does, args) == Chain(at, e, <<Doing(does, args)>>)
Of(at, name, function, args) == Chain(at, Ident(name), <<Piece("other", function, args)>>)
Build(at, does) == Upon(at, Ident(web), does, <<>>)

RouterType == GoType(web, Engine)
P(name, type) == [name |-> name, type |-> type]
OfRouter == <<P(rr, RouterType)>>
OfRequest == <<P(grp, GoType(web, Context))>>

Plain(name, params, body) == GoFunction(name, None, params, None, body)
OfType(name, params, body) == GoFunction(name, [name |-> obj, type |-> typ], params, None, body)
Building(body) == GoFunction(newTyp, None, <<>>, typ, body)
Opaque == Struct(GoType(None, typ), <<>>)

GoFile(module, flavour, body) ==
  File("go", module, <<GoImport(web, flavour, None), GoImport(http, "http", None)>> \o body)

(***************************************************************************)
(* How the router main builds, `made`, gets to the one that the package     *)
(* registers its routes on: what main does, and the package's files.       *)
(***************************************************************************)
GoWirings == {"argument", "group", "variable", "constructed", "returned", "sibling", "served", "embedded"}

Grouped(wiring) == wiring \in {"group", "variable", "constructed", "returned"}

\* What routes are registered on.
OnWhat(wiring) ==
  CASE wiring = "served"   -> Attribute(obj, field)
    [] wiring = "sibling"  -> Ident(field)
    [] wiring = "embedded" -> Ident(obj)
    [] OTHER               -> Ident(rr)

Main(wiring, guards) ==
  LET group == Upon(mark, Ident(made), "Group", <<Text(<<11>>)>> \o guards)
  IN CASE wiring = "argument"    -> <<Of(1, pkg, regist, <<Ident(made)>>)>>
       [] wiring = "group"       -> <<Of(1, pkg, regist, <<group>>)>>
       [] wiring = "variable"    -> <<Bind(Ident(grp), group), Of(1, pkg, regist, <<Ident(grp)>>)>>
       [] wiring = "constructed" -> <<Bind(Ident(obj), Of(1, pkg, newTyp, <<>>)), Of(2, obj, routesOf, <<group>>)>>
       [] wiring = "returned"    ->
            <<Chain(2, Ident(made), <<Doing("With", guards),
                                     Doing("Mount", <<Text(<<11>>), Of(1, pkg, routesOf, <<>>)>>)>>)>>
       [] wiring = "sibling"     -> <<>>
       [] wiring = "served"      -> <<Bind(Ident(obj), Of(1, pkg, newTyp, <<>>)),
                                      Upon(2, Ident(http), "ListenAndServe", <<Other, Ident(obj)>>)>>
       [] wiring = "embedded"    -> <<Upon(2, Ident(http), "ListenAndServe", <<Other, Of(1, pkg, newTyp, <<>>)>>)>>

Registering(wiring, routes) ==
  CASE wiring \in {"argument", "group", "variable"} -> <<Plain(regist, OfRouter, routes)>>
    [] wiring = "constructed" ->
         <<StructType(typ, None), Building(<<Returning(Opaque)>>), OfType(routesOf, OfRouter, routes)>>
    [] wiring = "returned" ->
         <<Plain(routesOf, <<>>, <<Bind(Ident(rr), Build(3, "NewRouter"))>> \o routes \o <<Returning(Ident(rr))>>)>>
    [] wiring = "sibling" -> <<Plain(regist, <<>>, routes)>>
    [] wiring = "served" ->
         <<StructType(typ, None),
           Building(<<Bind(Ident(obj), Struct(GoType(None, typ), <<[key |-> field, value |-> Build(3, "NewRouter")]>>)),
                      Returning(Ident(obj))>>),
           [OfType(serveHttp, OfRequest, <<>>) EXCEPT !.delegate = field],
           OfType(routesOf, <<>>, routes)>>
    [] wiring = "embedded" ->
         <<StructType(typ, RouterType),
           Building(<<Returning(Struct(GoType(None, typ), <<[key |-> Engine, value |-> Build(3, "NewMux")]>>))>>),
           OfType(routesOf, <<>>, routes)>>

\* The router of a package may be declared in another file of it.
Beside(wiring) == IF wiring = "sibling" THEN <<Assign(field, Build(4, "New"))>> ELSE <<>>

\* What main builds, and how that is served: of its own, by being run, or by a
\* server, at once or by a field.
Serving ==
  {[flavour |-> "gin", build |-> <<Build(5, "Default")>>, serve |-> <<>>],
   [flavour |-> "fiber", build |-> <<Build(5, "New")>>, serve |-> <<Upon(6, Ident(made), "Listen", <<Other>>)>>],
   [flavour |-> "chi", build |-> <<Build(5, "NewRouter")>>,
    serve |-> <<Upon(6, Ident(http), "ListenAndServe", <<Other, Ident(made)>>)>>],
   [flavour |-> "mux", build |-> <<Build(5, "NewRouter")>>,
    serve |-> <<Bind(Ident(grp), Struct(GoType(http, server), <<[key |-> handler, value |-> Ident(made)]>>))>>],
   [flavour |-> "http", build |-> <<Build(5, "NewServeMux")>>,
    serve |-> <<Bind(Ident(grp), Struct(GoType(http, server), <<>>)), Bind(Attribute(grp, handler), Ident(made))>>]}

(***************************************************************************)
(* How routes are registered, and which they are.                          *)
(***************************************************************************)
GoStyles == {"upper", "title", "any", "handle", "match", "method", "pattern", "func", "gorilla", "matchers",
             "chained", "subrouter", "closure", "bare", "with", "constant", "unknown"}

Guarding == {"upper", "title", "chained", "closure", "bare", "with"}

GoRoutes(style, e, guard, h) ==
  LET at == Text(<<13>>)
      On13(does) == <<Upon(20, e, does, <<at>> \o guard \o <<h>>)>>
      Pieces20(pieces) == <<Chain(20, e, pieces)>>
      InClosure(body) == Closure(21, <<P(grp, RouterType)>>, body, {}, <<>>)
  IN CASE style = "upper"     -> On13("GET")
       [] style = "title"     -> On13("Get")
       [] style = "any"       -> On13("Any")
       [] style = "func"      -> On13("HandleFunc")
       [] style = "handle"    -> Pieces20(<<Doing("Handle", <<Text(<<Get>>), at, h>>)>>)
       [] style = "method"    -> Pieces20(<<Doing("Method", <<Text(<<Get>>), at, h>>)>>)
       [] style = "match"     -> Pieces20(<<Doing("Match", <<List(<<Text(<<Get>>), Text(<<Post>>)>>), at, h>>)>>)
       [] style = "pattern"   -> Pieces20(<<Doing("HandleFunc", <<GoPattern(Post, <<13>>), h>>)>>)
       [] style = "gorilla"   -> Pieces20(<<Doing("HandleFunc", <<at, h>>), Doing("Methods", <<Text(<<Get>>), Text(<<Post>>)>>)>>)
       [] style = "matchers"  -> Pieces20(<<Doing("Path", <<at>>), Doing("Methods", <<Text(<<Get>>)>>),
                                            Doing("Queries", <<Text(<<17>>), Other>>), Doing("HandlerFunc", <<h>>)>>)
       [] style = "with"      -> Pieces20(<<Doing("With", guard), Doing("Get", <<at, h>>)>>)
       [] style = "constant"  -> <<Bind(Ident(8), Text(<<12>>)),
                                   Upon(20, e, "GET", <<Joined(<<Ident(8), at>>), h>>)>>
       [] style = "unknown"   -> <<Upon(20, e, "GET", <<Joined(<<Ident(8), at>>), h>>)>>
       [] style = "chained"   -> <<Chain(mark2, e, <<Doing("Group", <<Text(<<12>>)>> \o guard), Doing("GET", <<at, h>>)>>)>>
       [] style = "subrouter" -> <<Bind(Ident(grp), Chain(mark2, e, <<Doing("PathPrefix", <<Text(<<12>>)>>), Doing("Subrouter", <<>>)>>)),
                                   Chain(20, Ident(grp), <<Doing("HandleFunc", <<at, h>>), Doing("Methods", <<Text(<<Get>>)>>)>>)>>
       [] style = "closure"   -> <<Upon(mark2, e, "Route", <<Text(<<12>>), InClosure(<<Upon(20, Ident(grp), "Get", <<at>> \o guard \o <<h>>)>>)>>)>>
       [] style = "bare"      -> <<Upon(mark2, e, "Group", <<InClosure(<<Upon(22, Ident(grp), "Use", guard), Upon(20, Ident(grp), "Get", <<at, h>>)>>)>>)>>

GoServed(style, checks) ==
  LET under == IF style \in {"chained", "subrouter", "closure", "constant"} THEN <<12, 13>>
               ELSE IF style = "unknown" THEN <<gap>> ELSE <<13>>
      methods == CASE style \in {"any", "func"} -> IF checks = <<>> THEN Range(Verbs) ELSE ToSet(checks)
                   [] style = "pattern" -> {Post}
                   [] style \in {"match", "gorilla"} -> {Get, Post}
                   [] OTHER -> {Get}
  IN {<<m, under>> : m \in methods}

(***************************************************************************)
(* The handler: a literal, or a function of this file or the one beside    *)
(* it, or a method.                                                        *)
(***************************************************************************)
Handling(where, reads, checks) ==
  LET f == IF where = "method" THEN OfType(list, OfRequest, <<>>) ELSE Plain(list, OfRequest, <<>>)
      declared == <<[f EXCEPT !.reads = reads, !.checks = checks]>>
  IN [expr |-> IF where = "literal" THEN Closure(23, OfRequest, <<>>, reads, checks)
               ELSE IF where = "method" THEN Attribute(obj, list) ELSE Ident(list),
      before |-> IF where = "method" THEN <<Bind(Ident(obj), Opaque)>> ELSE <<>>,
      here  |-> IF where = "here" THEN declared ELSE <<>>,
      there |-> IF where \in {"there", "method"} THEN declared ELSE <<>>]

\* Guards: of the group, in use on the router from before or after, and on the route.
\* What is in use on a router is left out where routes are in a group of it.
GoGuards(style) ==
  [group: BOOLEAN, on: BOOLEAN,
   from: {"never", "after"} \union IF style \in {"upper", "title", "with"} THEN {"before"} ELSE {}]
NoGuards == [group |-> FALSE, from |-> "never", on |-> FALSE]

GoProject(wiring, serving, style, guards, where, reads, checks) ==
  LET h     == Handling(where, reads, checks)
      e     == OnWhat(wiring)
      use   == <<Upon(24, e, "Use", <<Ident(7)>>)>>
      guard == IF guards.on THEN <<Ident(6)>> ELSE <<>>
      body  == h.before \o (IF guards.from = "before" THEN use ELSE <<>>)
               \o GoRoutes(style, e, guard, h.expr) \o (IF guards.from = "after" THEN use ELSE <<>>)
      auth  == IF guards.on THEN 6 ELSE IF guards.from = "before" THEN 7
               ELSE IF ByHand \in reads THEN bearer ELSE IF guards.group THEN 5 ELSE None
      asks  == (reads \ {ByHand}) \union IF style = "matchers" THEN {Asks("query", 17)} ELSE {}
      main0 == <<Bind(Ident(made), serving.build[1]),
                 Upon(7, Ident(made), "GET", <<Text(<<19>>), Closure(8, <<>>, <<>>, {}, <<>>)>>)>>
               \o Main(wiring, IF guards.group THEN <<Ident(5)>> ELSE <<>>) \o serving.serve
  IN Project("go", {serving.flavour},
       <<GoFile(5, serving.flavour, <<GoImport(pkg, None, Handlers), Plain(main, <<>>, main0)>>),
         GoFile(6, IF wiring = "sibling" THEN "gin" ELSE "chi", Registering(wiring, body) \o h.here),
         GoFile(7, "gin", Beside(wiring) \o h.there)>>,
       {Endpoint(Get, <<19>>, None, {})}
       \union {Endpoint(s[1], (IF Grouped(wiring) THEN <<11>> ELSE <<>>) \o s[2], auth, asks) : s \in GoServed(style, checks)})

AGin == CHOOSE s \in Serving : s.flavour = "gin"

GoProjects ==
  {GoProject(wiring, serving, "upper", NoGuards, "literal", {}, <<>>) : wiring \in GoWirings, serving \in Serving}
  \union
  {GoProject(wiring, AGin, style, NoGuards, where, reads, checks) :
     wiring \in {"argument", "variable", "served", "sibling"}, style \in GoStyles \ {"with", "bare"},
     where \in {"literal", "here", "there"}, reads \in {{}, {ByHand, Asks("query", 17)}},
     checks \in {<<>>, <<Get, Post>>}}
  \union
  {GoProject(wiring, AGin, style, NoGuards, "method", {Asks("query", 17)}, <<Get>>) :
     wiring \in GoWirings \ {"served", "embedded"}, style \in {"upper", "any"}}
  \union
  UNION {{GoProject(wiring, AGin, style, guards, "literal", {}, <<>>) :
            wiring \in {w \in GoWirings : Grouped(w)}, guards \in GoGuards(style)} : style \in Guarding}

=============================================================================
