----------------------------- MODULE MCSources ------------------------------
(***************************************************************************)
(* Small applications, each with what it serves, written in the ways their *)
(* framework allows.                                                       *)
(***************************************************************************)
EXTENDS MCGo

\* A path written in a file that may give a name to it: what comes before, the
\* expression, and what it is.
Writing(before, e, path) == [before |-> before, e |-> e, path |-> path]

Writings(p) ==
  {Writing(<<>>, Text(<<p>>), <<p>>),
   Writing(<<Assign(8, Text(<<p>>))>>, Ident(8), <<p>>),
   Writing(<<Assign(8, Text(<<p>>)), Assign(9, Joined(<<Ident(8), Text(<<19>>)>>))>>, Ident(9), <<p, 19>>),
   Writing(<<Assign(8, Other)>>, Joined(<<Ident(8), Text(<<p>>)>>), <<gap>>)}

NoKeywords == [k \in {} |-> None]
Keyword(k, e) == [x \in {k} |-> e]
With(f, g) == [x \in DOMAIN f \union DOMAIN g |-> IF x \in DOMAIN g THEN g[x] ELSE f[x]]

\* How file 1 may name what file 2 calls `name`: the import and the expression.
Links(name) ==
  {<<From(name, 2, name, None), Ident(name)>>,
   <<From(3, 2, name, None), Ident(3)>>,
   <<Import(4, 2), Attribute(4, name)>>,
   <<From(4, None, 4, 2), Attribute(4, name)>>}

Handler(parameters, reads) == [parameters |-> parameters, request |-> FALSE, compares |-> <<>>, reads |-> reads]
NoHandler == Handler(<<>>, {})

Depends(guard) == Call(None, "Depends", <<Ident(guard)>>, NoKeywords)

(***************************************************************************)
(* FastAPI: an application in file 1 that includes a router of file 2.     *)
(***************************************************************************)
FastApiRoute(style, guards) ==
  LET guarded == IF guards.route THEN Keyword("dependencies", List(<<Depends(6)>>)) ELSE NoKeywords
      taking == Handler(IF guards.parameter THEN <<Parameter(7, "other", Depends(7))>> ELSE <<>>, {})
      both == Keyword("methods", List(<<Text(<<Get>>), Text(<<Post>>)>>))
  IN CASE style = "decorator" -> Def(5, <<Call(Ident(2), "get", <<Text(<<13>>)>>, guarded)>>, taking)
       [] style = "twice"     -> Def(5, <<Call(Ident(2), "get", <<Text(<<13>>)>>, guarded),
                                          Call(Ident(2), "post", <<Text(<<13>>)>>, guarded)>>, taking)
       [] style = "listed"    -> Def(5, <<Call(Ident(2), "api_route", <<Text(<<13>>)>>, With(guarded, both))>>, taking)
       [] style = "called"    -> Do(Call(Ident(2), "add_api_route", <<Text(<<13>>)>>, both))

FastApiServes(style, guards, path) ==
  LET routed == IF style = "called" THEN None
                ELSE IF guards.route THEN 6 ELSE IF guards.parameter THEN 7 ELSE None
  IN {Endpoint(m, path, IF routed # None THEN routed ELSE IF guards.include THEN 5 ELSE None, {}) :
        m \in IF style = "decorator" THEN {Get} ELSE {Get, Post}}

FastApiProject(mentions, link, include, own, style, guards) ==
  Project("python", mentions,
    <<File("python", 1, <<link[1], Assign(1, Call(None, "FastAPI", <<>>, NoKeywords))>> \o include.before
              \o <<Do(Call(Ident(1), "include_router", <<link[2]>>,
                      With(Keyword("prefix", include.e),
                           IF guards.include THEN Keyword("dependencies", List(<<Other, Depends(5)>>))
                                             ELSE NoKeywords)))>>),
      File("python", 2, own.before
              \o <<Assign(2, Call(None, "APIRouter", <<>>, Keyword("prefix", own.e))),
                   FastApiRoute(style, guards)>>)>>,
    FastApiServes(style, guards, include.path \o own.path \o <<13>>))

\* One of each, where the other things vary.
SomeLink == <<Import(4, 2), Attribute(4, 2)>>
Plainly(p) == Writing(<<>>, Text(<<p>>), <<p>>)

FastApiProjects ==
  {FastApiProject(mentions, link, include, own, "decorator", [include |-> TRUE, route |-> FALSE, parameter |-> FALSE]) :
     mentions \in {{"fastapi"}, {"fastapi", "flask"}}, link \in Links(2),
     include \in Writings(11), own \in Writings(12)}
  \union
  {FastApiProject({"fastapi", "flask"}, SomeLink, Plainly(11), own, style, guards) :
     own \in Writings(12), style \in {"decorator", "twice", "listed", "called"},
     guards \in [include: BOOLEAN, route: BOOLEAN, parameter: BOOLEAN]}

(***************************************************************************)
(* Flask: an application in file 1 and, in file 2, a blueprint, a class-   *)
(* based view, or a namespace of classes that an Api carries.              *)
(***************************************************************************)
\* The keyword, or none.
Perhaps(keyword, writing) == IF writing = None THEN NoKeywords ELSE Keyword(keyword, writing.e)
Above(writing) == IF writing = None THEN <<>> ELSE writing.before
\* A prefix given where it is registered replaces the router's own.
Applies(given, own) == IF given # None THEN given.path ELSE IF own # None THEN own.path ELSE <<>>

TheApp == Assign(1, Call(None, "Flask", <<Other>>, NoKeywords))

BlueprintProject(mentions, link, given, own, both, guard, reads) ==
  Project("python", mentions,
    <<File("python", 1, <<link[1], TheApp>> \o Above(given)
              \o <<Do(Call(Ident(1), "register_blueprint", <<link[2]>>, Perhaps("url_prefix", given)))>>),
      File("python", 2, Above(own)
              \o <<Assign(2, Call(None, "Blueprint", <<Text(<<18>>), Other>>, Perhaps("url_prefix", own))),
                   Def(5, guard \o <<Call(Ident(2), IF both THEN "route" ELSE "get", <<Text(<<13>>)>>,
                                         IF both THEN Keyword("methods", List(<<Text(<<Get>>), Text(<<Post>>)>>))
                                                 ELSE NoKeywords)>>,
                       Handler(<<>>, reads))>>)>>,
    {Endpoint(m, Applies(given, own) \o <<13>>,
              IF guard = <<Ident(6)>> THEN 6 ELSE IF ByHand \in reads THEN bearer ELSE None,
              reads \ {ByHand}) :
       m \in IF both THEN {Get, Post} ELSE {Get}})

BlueprintProjects ==
  {BlueprintProject(mentions, link, given, own, FALSE, <<>>, {}) :
     mentions \in {{"flask"}, {"fastapi", "flask"}}, link \in Links(2),
     given \in {None} \union Writings(11), own \in {None} \union Writings(12)}
  \union
  {BlueprintProject({"flask"}, SomeLink, given, own, both, guard, reads) :
     given \in {None, Plainly(11)}, own \in {None, Plainly(12)},
     both \in BOOLEAN, guard \in {<<>>, <<Ident(1)>>, <<Ident(6)>>},
     reads \in {{}, {ByHand}, {ByHand, Asks("query", 17)}}}

View(narrowed, decorators, guards) ==
  Class(4, decorators, Members(<<[method |-> "get", reads |-> {}], [method |-> "post", reads |-> {}]>>,
                               IF narrowed THEN List(<<Text(<<Post>>)>>) ELSE None, guards))

\* Ways to name the class as a view: with what comes before.
Views(e) ==
  {<<<<>>, Call(e, "as_view", <<Other>>, NoKeywords)>>,
   <<<<Assign(7, Call(e, "as_view", <<Other>>, NoKeywords))>>, Ident(7)>>}

ClassProjects ==
  {Project("python", {"flask"},
     <<File("python", 1, <<link[1], TheApp>> \o rule.before
               \o LET narrow == IF only THEN Keyword("methods", List(<<Text(<<Post>>)>>)) ELSE NoKeywords IN
                  CASE how \in {1, 2} ->
                         LET view == CHOOSE v \in Views(link[2]) : (v[1] = <<>>) = (how = 1)
                         IN view[1] \o <<Do(Call(Ident(1), "add_url_rule", <<rule.e, Other>>,
                                               With(Keyword("view_func", view[2]), narrow)))>>
                    [] how = 3 -> <<Do(Call(Ident(1), "add_url_rule", <<rule.e, Other, Call(link[2], "as_view", <<>>, NoKeywords)>>, narrow))>>
                    [] how = 4 -> <<Assign(6, Call(None, "Api", <<Ident(1)>>, NoKeywords)),
                                    Do(Call(Ident(6), "add_resource", <<Ident(4), rule.e>>, NoKeywords))>>),
       File("python", 2, <<View(narrowed, <<>>, guards)>>)>>,
     {Endpoint(m, rule.path, IF guards = None THEN None ELSE 6, {}) :
        m \in IF narrowed \/ (only /\ how # 4) THEN {Post} ELSE {Get, Post}}) :
   link \in {<<From(4, 2, 4, None), Ident(4)>>}, rule \in Writings(11), how \in 1..4,
   only \in BOOLEAN, narrowed \in BOOLEAN, guards \in {None, <<Ident(1), Ident(6)>>}}

\* A namespace without a path is left out.
NamespaceProjects ==
  {Project("python", {"flask"},
     <<File("python", 1, <<link[1], TheApp>> \o Above(given)
               \o (IF late THEN <<Assign(6, Call(None, "Api", <<>>, Keyword("prefix", Text(<<10>>)))),
                                 Do(Call(Ident(6), "init_app", <<Ident(1)>>, NoKeywords))>>
                          ELSE <<Assign(6, Call(None, "Api", <<Ident(1)>>, Keyword("prefix", Text(<<10>>))))>>)
               \o <<Do(Call(Ident(6), "add_namespace", <<link[2]>>, Perhaps("path", given)))>>),
       File("python", 2, Above(own)
               \o <<Assign(2, Call(None, "Namespace", <<Text(<<18>>)>>, Perhaps("path", own))),
                    View(FALSE, <<Call(Ident(2), "route", <<Text(<<13>>)>>, NoKeywords)>> \o guard, None)>>)>>,
     {Endpoint(m, <<10>> \o Applies(given, own) \o <<13>>, IF guard = <<>> THEN None ELSE 6, {}) : m \in {Get, Post}}) :
   link \in Links(2), given \in {None} \union Writings(11), own \in Writings(12),
   late \in BOOLEAN, guard \in {<<>>, <<Ident(6)>>}}

(***************************************************************************)
(* Express: an application in file 1 that uses a router of file 2, which   *)
(* file 3 may pass on.                                                     *)
(***************************************************************************)
Method(object, function, args) == Call(object, function, args, NoKeywords)

Link(exporting, binding, e, third) == [exporting |-> exporting, binding |-> binding, e |-> e, third |-> third]

JsLinks ==
  LET byDefault == <<Exporting(default, 2)>>
      byName    == <<Exporting(3, 2)>>
  IN {Link(byDefault, <<>>, Require(2), <<>>),
      Link(byDefault, <<Const(4, Require(2))>>, Ident(4), <<>>),
      Link(byDefault, <<From(4, 2, default, None)>>, Ident(4), <<>>),
      Link(byDefault, <<From(3, 3, 3, None)>>, Ident(3), <<PassesOn(3, 2, default)>>),
      Link(byName, <<>>, RequireOf(2, 3), <<>>),
      Link(byName, <<From(4, 2, 3, None)>>, Ident(4), <<>>),
      Link(byName, <<Import(4, 2)>>, Attribute(4, 3), <<>>),
      Link(byName, <<Const(4, RequireOf(2, 3))>>, Ident(4), <<>>),
      Link(byName, <<Const(4, Require(2))>>, Attribute(4, 3), <<>>),
      Link(byName, <<From(4, 3, 4, None)>>, Ident(4), <<PassesOn(4, 2, 3)>>)}

\* JsPrefixes: what comes before, the arguments, and what paths they are.  No name
\* is given a second value: the adapter reads the first one (README).
Prefixed(before, args, paths) == [before |-> before, args |-> args, paths |-> paths]

JsPrefixes ==
  {Prefixed(<<>>, <<>>, {<<>>}),
   Prefixed(<<>>, <<Text(<<11>>)>>, {<<11>>}),
   Prefixed(<<Const(8, Text(<<11>>))>>, <<Joined(<<Ident(8), Text(<<19>>)>>)>>, {<<11, 19>>}),
   Prefixed(<<>>, <<Joined(<<Ident(8), Text(<<11>>)>>)>>, {<<gap>>}),
   Prefixed(<<>>, <<Attribute(9, 8)>>, {<<gap>>}),
   Prefixed(<<>>, <<List(<<Text(<<11>>), Text(<<12>>)>>)>>, {<<11>>, <<12>>})}

JsRoutes(style, guard, h) ==
  LET T(p) == Text(<<p>>)
      On(args) == args \o guard \o <<h>>
  IN CASE style = "plain"   -> Method(Ident(2), "get", On(<<T(13)>>))
       [] style = "all"     -> Method(Ident(2), "all", On(<<T(13)>>))
       [] style = "chain"   -> Method(Method(Ident(2), "get", On(<<T(13)>>)), "post", On(<<T(14)>>))
       [] style = "route"   -> Method(Method(Method(Ident(2), "route", <<T(13)>>), "get", On(<<>>)), "post", On(<<>>))
       [] style = "several" -> Method(Ident(2), "get", On(<<List(<<T(13), T(14)>>)>>))
       [] style = "setting" -> Method(Ident(2), "get", On(<<Ident(9)>>))

JsServed(style) ==
  CASE style = "plain"   -> {<<Get, <<13>>>>}
    [] style = "all"     -> {<<m, <<13>>>> : m \in Range(Verbs)}
    [] style = "chain"   -> {<<Get, <<13>>>>, <<Post, <<14>>>>}
    [] style = "route"   -> {<<Get, <<13>>>>, <<Post, <<13>>>>}
    [] style = "several" -> {<<Get, <<13>>>>, <<Get, <<14>>>>}
    [] style = "setting" -> {<<Get, <<gap>>>>}

JsGuards ==
  [on: {<<>>, <<Ident(6)>>, <<Method(Ident(6), "authenticate", <<Text(<<40>>)>>)>>},
   from: {"never", "before", "after"}, mount: BOOLEAN]

ExpressProject(root, link, at, style, guards, named, reads) ==
  LET app == Call(None, "express", <<>>, NoKeywords)
      h   == IF named THEN Ident(5) ELSE Function(reads)
      use == Do(Method(Ident(2), "use", <<Ident(7)>>))
      auth == IF guards.on # <<>> THEN 6 ELSE IF guards.from = "before" THEN 7
              ELSE IF ByHand \in reads THEN bearer ELSE IF guards.mount THEN 5 ELSE None
      withGuard == IF guards.mount THEN <<Ident(5)>> ELSE <<>>
  IN Project("js", {"express"},
       <<File("js", 1, link.binding \o at.before \o <<From(7, None, 7, None)>>
                 \o <<Const(1, IF root = "plain" THEN app ELSE ExportsToo(app)),
                       Do(Method(Ident(1), "use", <<Ident(7), Method(Ident(8), "json", <<>>)>>)),
                       Do(Method(Ident(1), "use", at.args \o withGuard \o <<link.e>>)),
                       Do(Method(Ident(1), "get", <<Text(<<>>), Function({})>>))>>),
         File("js", 2, <<Const(2, Call(None, "Router", <<>>, NoKeywords)), Const(5, Function(reads)),
                   Do(Method(Ident(9), "get", <<Text(<<40>>)>>)), Do(Method(Ident(9), "get", <<Text(<<13>>)>>))>>
                 \o (IF guards.from = "before" THEN <<use>> ELSE <<>>)
                 \o <<Do(JsRoutes(style, guards.on, h))>>
                 \o (IF guards.from = "after" THEN <<use>> ELSE <<>>) \o link.exporting),
         File("js", 3, link.third)>>,
       {Endpoint(Get, <<>>, None, {})}
       \union {Endpoint(s[1], p \o s[2], auth, reads \ {ByHand}) : s \in JsServed(style), p \in at.paths})

Unguarded == [on |-> <<>>, from |-> "never", mount |-> FALSE]

ExpressProjects ==
  {ExpressProject(root, link, at, "plain", Unguarded, FALSE, {}) :
     root \in {"plain", "exported"}, link \in JsLinks, at \in JsPrefixes}
  \union
  {ExpressProject("plain", CHOOSE l \in JsLinks : l.binding = <<>> /\ l.e.is = "require", at, style, guards, named, reads) :
     at \in {p \in JsPrefixes : Cardinality(p.paths) = 2 \/ (p.paths = {<<gap>>} /\ p.args[1].is = "joined")},
     style \in {"plain", "all", "chain", "route", "several", "setting"}, guards \in JsGuards,
     named \in BOOLEAN, reads \in {{}, {ByHand, Asks("query", 17)}}}

(***************************************************************************)
(* Next.js: a route handler and an API page of one directory.              *)
(***************************************************************************)
Folders ==
  {<<Folder("plain", 13)>>, <<Folder("group", 14), Folder("plain", 13)>>,
   <<Folder("plain", 13), Folder("slot", 14)>>, <<Folder("intercepting", 13)>>}

NextProjects ==
  {Project("js", {},
     <<[File("js", 1, <<Const(8, Function({Asks("query", 17)}))>>
                \o (IF passed THEN <<PassesOn(Get, 2, 8)>> ELSE <<Exporting(Get, 8)>>)
                \o <<Exporting(Post, 9), Exporting(7, 7)>> \o (IF twice THEN <<Exporting(Post, 8)>> ELSE <<>>))
          EXCEPT !.at = Located("app", 4, folders, None)],
       [File("js", 2, <<Const(8, Function({Asks("query", 17), Asks("query", 18), ByHand}))>> \o checks
                \o <<Serves(Ident(8), wrapper)>>)
          EXCEPT !.at = Located("pages", 4, <<Folder("plain", 12)>> \o private, stem)]>>,
     {Endpoint(Get, <<13>>, None, IF passed THEN {} ELSE {Asks("query", 17)}), Endpoint(Post, <<13>>, None, {})}
     \union
     {Endpoint(m, <<api, 12>> \o IF stem = None THEN <<>> ELSE <<stem>>, IF wrapper = 6 THEN 6 ELSE bearer,
               {Asks("query", 18)} \union IF stem = None THEN {Asks("query", 17)} ELSE {}) :
        m \in IF private # <<>> THEN {} ELSE IF checks = <<>> THEN Range(Verbs) ELSE {Get, Post}}) :
   folders \in Folders, passed \in BOOLEAN, twice \in BOOLEAN,
   checks \in {<<>>, <<Checks(<<Get, Post>>), Checks(<<Post>>)>>}, wrapper \in {None, 1, 6}, stem \in {None, 17},
   private \in {<<>>, <<Folder("private", 18)>>}}

(***************************************************************************)
(* Django: settings in file 1, the root URL conf in file 2, views in file  *)
(* 3, and, if it is included from there, an application's URL conf in 4.   *)
(***************************************************************************)
Path(route, view) == Call(None, "path", <<route, view>>, NoKeywords)
IncludeOf(target) == Call(None, "include", <<target>>, NoKeywords)

\* How the URL conf puts a rule for the view `e` together: the bodies of files 2
\* and 4, given the imports that name it, and the path it has there.
Wiring(conf, nested, path) == [conf |-> conf, nested |-> nested, path |-> path]

Wirings(imports, e) ==
  LET rule == Path(Text(<<13>>), e)
      Conf(items) == <<Assign(7, List(items))>>
      other == Path(Text(<<19>>), Call(None, "factory", <<>>, NoKeywords))
      Under(target) == Path(Text(<<11>>), IncludeOf(target))
  IN {Wiring(imports \o Conf(<<other, rule>>), <<>>, <<13>>),
      Wiring(imports \o <<Assign(8, Text(<<12>>))>> \o Conf(<<other, Path(Joined(<<Ident(8), Text(<<13>>)>>), e)>>),
             <<>>, <<12, 13>>),
      Wiring(imports \o Conf(<<other, Path(Joined(<<Ident(8), Text(<<13>>)>>), e)>>), <<>>, <<gap>>),
      Wiring(imports \o <<Assign(7, Joined(<<List(<<other>>), List(<<rule>>), Ident(8)>>))>>, <<>>, <<13>>),
      Wiring(imports \o Conf(<<other>>) \o <<Extend(7, List(<<rule>>))>>, <<>>, <<13>>),
      Wiring(imports \o Conf(<<Under(Patterns(6, <<rule>>)), other>>), <<>>, <<11, 13>>),
      Wiring(imports \o <<Assign(6, List(<<rule>>))>> \o Conf(<<other, Under(Ident(6))>>), <<>>, <<11, 13>>),
      Wiring(Conf(<<other, Under(Dotted(4)), Path(Text(<<18>>), IncludeOf(Dotted(None)))>>),
             imports \o Conf(<<rule>>), <<11, 13>>),
      Wiring(<<Import(5, 4)>> \o Conf(<<other, Under(Attribute(5, 6))>>),
             imports \o <<Assign(6, List(<<rule>>))>>, <<11, 13>>)}

\* A viewset is registered on a router, which is included: of another file, as
\* `urls` of what the attribute names.
ViewSetWirings(imports, e) ==
  LET other == Path(Text(<<19>>), Call(None, "factory", <<>>, NoKeywords))
      router == <<Assign(6, Call(None, "DefaultRouter", <<>>, NoKeywords)),
                  Do(Call(Ident(6), "register", <<Text(<<13>>), e>>, NoKeywords))>>
  IN {Wiring(imports \o router \o <<Assign(7, List(<<other, Path(Text(<<11>>), IncludeOf(Attribute(6, 0)))>>))>>,
             <<>>, <<11, 13>>),
      Wiring(<<Import(5, 4), Assign(7, List(<<other, Path(Text(<<11>>), IncludeOf(Attribute(5, 6)))>>))>>,
             imports \o router, <<11, 13>>)}

\* A view, and what it serves below its path: methods, paths, auth and what is
\* asked for.
ViewOf(statement, serves) == [statement |-> statement, serves |-> serves]
Takes(request, compares, reads) == [Handler(<<>>, reads) EXCEPT !.request = request, !.compares = compares]
Limit == Asks("query", 17)

FunctionViews ==
  LET guards == {<<>>, <<Ident(6)>>, <<Call(None, "permission_classes", <<Ident(1), Ident(6)>>, NoKeywords)>>}
      ApiView(ms) == Call(None, "api_view", <<List([k \in DOMAIN ms |-> Text(<<ms[k]>>)])>>, NoKeywords)
      ways == {[decorators |-> <<>>, compares |-> <<>>, methods |-> {Get}],
               [decorators |-> <<>>, compares |-> <<Post>>, methods |-> {Get, Post}],
               [decorators |-> <<Bare("require_POST")>>, compares |-> <<>>, methods |-> {Post}],
               [decorators |-> <<ApiView(<<Get, Post>>)>>, compares |-> <<Post>>, methods |-> {Get, Post}]}
  IN {ViewOf(Def(4, way.decorators \o guard, Takes(TRUE, way.compares, reads)),
             {Endpoint(m, <<>>, IF guard # <<>> THEN 6 ELSE IF ByHand \in reads THEN bearer ELSE None,
                       reads \ {ByHand}) : m \in way.methods}) :
        way \in ways, guard \in guards, reads \in {{}, {ByHand, Limit}}}

\* A class serves the methods its bases define and those it defines itself.  Of
\* the classes here none defines some methods beside others of its base, and none
\* is without any: what the adapter makes of those is not what they serve (README).
OwnMethods == <<[method |-> "dispatch", reads |-> {}], [method |-> "get", reads |-> {Limit}],
                [method |-> "post", reads |-> {}]>>

ClassKind(base, own, inherited) == [base |-> base, own |-> own, inherited |-> inherited]

ClassViews ==
  LET kinds == {ClassKind("View", OwnMethods, {}),
                ClassKind("ListCreateAPIView", <<>>, {Get, Post}),
                ClassKind("ListCreateAPIView", OwnMethods, {Get, Post}),
                ClassKind("RetrieveUpdateDestroyAPIView", <<>>, Range(Verbs) \ {Post})}
      Defined(kind) == IF kind.own = <<>> THEN {} ELSE {Get, Post}
  IN {ViewOf(Class(4, decorators, DjangoMembers(<<kind.base>>, kind.own, <<>>, permits, None, allowed)),
             {Endpoint(m, <<>>, IF permits # None \/ decorators # <<>> THEN 6 ELSE None,
                       IF m = Get /\ kind.own # <<>> THEN {Limit} ELSE {}) :
                m \in (kind.inherited \union Defined(kind)) \intersect IF allowed = None THEN Range(Verbs) ELSE allowed}) :
        kind \in kinds, permits \in {None, <<1, 6>>}, decorators \in {<<>>, <<Ident(6)>>}, allowed \in {None, {Get}}}

Object(lookup) == <<IF lookup = None THEN param ELSE lookup>>

ViewSets ==
  {ViewOf(Class(4, <<>>, DjangoMembers(<<base>>, own,
                <<[name |-> 15, detail |-> detail, methods |-> <<Post>>, path |-> <<15>>, permits |-> <<7>>, reads |-> {}]>>,
                permits, lookup, None)),
          {Endpoint(a.method, IF a.detail THEN Object(lookup) ELSE <<>>, IF permits = None THEN None ELSE 6,
                    IF a.name = "list" /\ own # <<>> THEN {Limit} ELSE {}) :
             a \in {a \in ToSet(Actions) : a.name \in Supplied[base] \union {m.method : m \in ToSet(own)}}}
          \union {Endpoint(Post, (IF detail THEN Object(lookup) ELSE <<>>) \o <<15>>, 7, {})}) :
     base \in {"ModelViewSet", "ReadOnlyModelViewSet", "ViewSet"},
     own \in {<<>>, <<[method |-> "list", reads |-> {Limit}], [method |-> "destroy", reads |-> {}]>>},
     permits \in {None, <<1, 6>>}, detail \in BOOLEAN, lookup \in {None, 16}}

Named4 == {<<<<From(4, 3, 4, None)>>, Ident(4)>>, <<<<Import(5, 3)>>, Attribute(5, 4)>>,
           <<<<From(5, None, 5, 3)>>, Attribute(5, 4)>>}

DjangoProject(wiring, view) ==
  Project("django", {"django"},
    <<File("python", 1, <<Assign(99, Dotted(2))>>), File("python", 2, wiring.conf),
      File("python", 3, <<Def(9, <<>>, Takes(TRUE, <<>>, {})), view.statement>>), File("python", 4, wiring.nested)>>,
    {Endpoint(Get, <<19>>, None, {})}
    \union {[s EXCEPT !.path = wiring.path \o @] : s \in view.serves})

AsView(e) == Call(e, "as_view", <<>>, NoKeywords)

DjangoProjects ==
  {DjangoProject(w, v) : v \in FunctionViews, w \in UNION {Wirings(n[1], n[2]) : n \in Named4}}
  \union
  {DjangoProject(w, v) : v \in ClassViews, w \in UNION {Wirings(n[1], AsView(n[2])) : n \in Named4}}
  \union
  {DjangoProject(w, v) : v \in ViewSets, w \in UNION {ViewSetWirings(n[1], n[2]) : n \in Named4}}

(***************************************************************************)
(* What a project is seen to use, and which of its files count.            *)
(***************************************************************************)
\* One project of each framework, its manifest, and a file of its tests, which
\* serves the same routes under another path.
Typical(one, framework, manifest, test) ==
  [one |-> one, framework |-> framework, manifest |-> manifest, test |-> test]

NoGuard == [include |-> FALSE, route |-> FALSE, parameter |-> FALSE]

TypicalOnes ==
  LET imported == <<From(2, 2, 2, None)>>
      Under(app, mounts, keyword) ==
        imported \o <<app, Do(Call(Ident(1), mounts, <<Ident(2)>>, Keyword(keyword, Text(<<14>>))))>>
      link == CHOOSE l \in JsLinks : l.binding = <<>> /\ l.e.is = "require"
      unprefixed == CHOOSE at \in JsPrefixes : at.args = <<>>
      view == CHOOSE v \in FunctionViews : Cardinality(v.serves) = 1 /\ v.statement.decorators = <<>>
                                            /\ \A s \in v.serves : s.asks = {}
      again == <<Bind(Ident(made), Build(5, "New")), Chain(1, None, <<Piece("other", regist, <<Ident(made)>>)>>)>>
  IN {Typical(FastApiProject({"fastapi"}, SomeLink, Plainly(11), Plainly(12), "decorator", NoGuard),
              "fastapi", "requirements.txt",
              File("python", 3, Under(Assign(1, Call(None, "FastAPI", <<>>, NoKeywords)), "include_router", "prefix"))),
      Typical(BlueprintProject({"flask"}, SomeLink, None, Plainly(12), FALSE, <<>>, {}),
              "flask", "pyproject.toml", File("python", 3, Under(TheApp, "register_blueprint", "url_prefix"))),
      Typical(DjangoProject(CHOOSE w \in Wirings(<<From(4, 3, 4, None)>>, Ident(4)) : \E k \in DOMAIN w.nested : w.nested[k].is = "from", view),
              "django", "requirements.txt",
              File("python", 5, <<Assign(99, Dotted(4))>>)),
      Typical(ExpressProject("plain", link, unprefixed, "plain", Unguarded, FALSE, {}), "express", "package.json",
              File("js", 4, <<Const(1, Call(None, "express", <<>>, NoKeywords)),
                              Do(Method(Ident(1), "use", <<Text(<<14>>), Require(2)>>))>>)),
      Typical(GoProject("argument", AGin, "upper", NoGuards, "literal", {}, <<>>), "gin", "go.mod",
              GoFile(7, "gin", <<Plain(main, <<>>, again)>>))}

Unmentioned(files) == [k \in DOMAIN files |-> [files[k] EXCEPT !.mentions = {}]]

\* Mentioned in its last file, or named in its manifest, or both; with or without
\* tests, and another framework that is only named.
EvidenceProjects ==
  {[t.one EXCEPT
      !.files = LET bare == IF "mentioned" \in how THEN [Unmentioned(@) EXCEPT ![Len(@)].mentions = {t.framework}]
                            ELSE Unmentioned(@)
                IN IF tests THEN Append(bare, [t.test EXCEPT !.place = "tests"]) ELSE bare,
      !.manifests = (t.manifest :> (others \union IF "named" \in how THEN {t.framework} ELSE {}))] :
     t \in TypicalOnes, how \in SUBSET {"mentioned", "named"} \ {{}}, tests \in BOOLEAN,
     others \in {{}, {"fastapi", "flask", "django", "express", "next", "chi"}}}

\* A service in one language beside one in another.
MixedProjects ==
  {[p.one EXCEPT !.files = @ \o q.one.files, !.serves = @ \union q.one.serves] :
     p \in {t \in TypicalOnes : t.framework \in {"fastapi", "flask"}},
     q \in {t \in TypicalOnes : t.framework \in {"express", "gin"}}}

MCProjects ==
  FastApiProjects \union BlueprintProjects \union ClassProjects \union NamespaceProjects
  \union ExpressProjects \union NextProjects \union DjangoProjects \union GoProjects
  \union EvidenceProjects \union MixedProjects

MCInline == [m \in Module |-> 30 + m]

=============================================================================
