------------------------------- MODULE Flask --------------------------------
(***************************************************************************)
(* What the Flask adapter makes of a Python file (rl-discovery:            *)
(* adapters/flask.rs): applications, blueprints, namespaces and Apis, what *)
(* registers one on another, decorated handlers, rules given by a call,    *)
(* and class-based views, each a router whose routes have empty paths and  *)
(* that a rule mounts.                                                     *)
(***************************************************************************)
EXTENDS PythonSource

CONSTANT Classes   \* Names spelled like a class

Shortcuts   == {"get", "post", "put", "patch", "delete"}
ViewMethods == Shortcuts \union {"head", "options"}

\* The members of a class-based view: its methods with what each reads, in
\* order, and the class attributes that narrow and guard them, or None.
Members(served, methods, decorators) ==
  [served |-> served, methods |-> methods, decorators |-> decorators]

\* auth_from_decorator_name: of a guard, which is a name or an attribute whether
\* it is called or not.
DecoratorAuth(e) == IF e.is \in {"name", "attribute"} THEN AuthFromName(e.name) ELSE None

\* Of what decorates a class: by the whole text of the decorator, with the path
\* a route decorator gives.
TextAuth(e) ==
  IF e.is # "call" THEN DecoratorAuth(e)
  ELSE LET written == UNION {ToSet(arg.text) : arg \in {a \in ToSet(e.args) : a.is = "text"}}
       IN IF written \intersect Guards = {} THEN None ELSE Min(written \intersect Guards)

\* emit_view_classes: a class that serves at least one method is a router.
ViewClass(file, s) ==
  LET unfolded == [n \in Name |-> None]
      declared == Strings(unfolded, s.members.methods)
      kept == SelectSeq(s.members.served, LAMBDA m :
                /\ m.method \in ViewMethods
                /\ s.members.methods # None => \E k \in DOMAIN declared : declared[k] = <<Verb[m.method]>>)
      own == IF s.members.decorators = None THEN None
             ELSE FirstAuth([k \in DOMAIN s.members.decorators |-> DecoratorAuth(s.members.decorators[k])])
      around == FirstAuth([k \in DOMAIN s.decorators |-> TextAuth(s.decorators[k])])
      Fact(m) == Using([RouteFact(Use(file.module, s.name), <<Verb[m.method]>>, <<>>)
                          EXCEPT !.auth = IF own # None THEN own ELSE around], m.reads, {})
  IN IF s.is # "class" \/ kept = <<>> THEN NoFacts
     ELSE [NoFacts EXCEPT !.routers = <<RouterFact(<<file.module, s.name>>, <<>>, None, FALSE)>>,
                          !.routes = [k \in DOMAIN kept |-> Fact(kept[k])]]

ViewClasses(file) ==
  {s.name : s \in {s \in ToSet(file.body) : ViewClass(file, s) # NoFacts}}

\* view_aliases: the class a name bound to Class.as_view() stands for, or None.
Alias(file, name) ==
  LET bound == SelectSeq(file.body, LAMBDA s :
                 /\ s.is = "assign" /\ s.name = name /\ s.value.is = "call"
                 /\ s.value.function = "as_view" /\ s.value.object # None)
  IN IF bound = <<>> THEN None ELSE Last(bound).value.object

(***************************************************************************)
(* Declarations and registrations.                                         *)
(***************************************************************************)
\* declaration.  Api(app) both declares and mounts.
FlaskRouters(file, names, s) ==
  LET call == s.value
      self == <<file.module, s.name>>
      First == IF call.args = <<>> THEN None ELSE Value(names, Head(call.args))
      Router(prefix, group, root) == Routers(<<RouterFact(self, prefix, group, root)>>)
  IN IF s.is # "assign" THEN NoFacts
     ELSE IF call.is # "call" THEN NoFacts
     ELSE CASE call.function = "Flask"     -> Router(<<>>, None, TRUE)
            [] call.function = "Blueprint" -> Router(PathKeyword(names, call, "url_prefix"), First, FALSE)
            [] call.function = "Namespace" -> Router(PathKeyword(names, call, "path"), First, FALSE)
            [] call.function = "Api"       ->
                 [Router(PathKeyword(names, call, "prefix"), None, FALSE) EXCEPT !.mounts =
                    IF call.args # <<>> /\ Head(call.args).is = "name"
                      THEN <<MountFact(Refer(file, Head(call.args)), Use(file.module, s.name), <<>>)>>
                      ELSE <<>>]
            [] OTHER -> NoFacts

\* What view_func= names: a class to mount, or a handler.
ViewTarget(file, view) ==
  CASE view.is = "name" ->
         IF Alias(file, view.name) # None THEN [class |-> Refer(file, Alias(file, view.name))]
         ELSE IF view.name \in ViewClasses(file) THEN [class |-> Refer(file, view)]
         ELSE LET defined == \E s \in ToSet(file.body) : s.is = "def" /\ s.name = view.name IN
              [class |-> IF ~defined /\ view.name \in Classes THEN Refer(file, view) ELSE None]
    [] view.is = "call" ->
         [class |-> IF view.function = "as_view" /\ view.object # None THEN Refer(file, view.object)
                                                                      ELSE None]
    [] OTHER -> [class |-> None]

\* What the handler declared under that name in this file reads.
ReadsOf(file, view) ==
  LET those == SelectSeq(file.body, LAMBDA s : s.is = "def" /\ view.is = "name" /\ s.name = view.name)
  IN IF those = <<>> THEN {} ELSE Head(those).handler.reads

\* register_view: a class is mounted at the rule; anything else is a route.
RegisterView(file, names, router, rule, view, methods) ==
  LET path == PathValue(names, rule)
      class == IF view = None THEN None ELSE ViewTarget(file, view).class
  IN IF class # None
       THEN Mounts(<<[MountFact(router, class, path) EXCEPT !.methods = ToSet(methods)]>>)
       ELSE Routes(<<Using(RouteFact(router, MethodsOrGet(methods), path),
                           IF view = None THEN {} ELSE ReadsOf(file, view), ToSet(path))>>)

\* call
FlaskCall(file, names, call) ==
  LET router == Refer(file, call.object)
      prefix == IF call.function = "add_namespace" THEN "path" ELSE "url_prefix"
      \* The view is the keyword, or the third positional argument.
      view == IF Has(call, "view_func") THEN call.keywords["view_func"]
              ELSE IF Len(call.args) >= 3 THEN call.args[3] ELSE None
      Resource(rule) == RegisterView(file, names, router, rule, Head(call.args), <<>>)
  IN IF call.object = None \/ call.args = <<>> THEN NoFacts
     ELSE CASE call.function \in {"register_blueprint", "add_namespace"} ->
                 Mounts(<<[MountFact(router, Refer(file, Head(call.args)),
                                     PathKeyword(names, call, prefix))
                             EXCEPT !.replaces = Has(call, prefix)]>>)
            [] call.function = "init_app" ->
                 IF Head(call.args).is = "name"
                   THEN Mounts(<<MountFact(Refer(file, Head(call.args)), router, <<>>)>>) ELSE NoFacts
            [] call.function = "add_url_rule" ->
                 RegisterView(file, names, router, Head(call.args), view, ListedMethods(names, call))
            [] call.function = "add_resource" ->
                 Absorbed([k \in 1..(Len(call.args) - 1) |-> Resource(call.args[k + 1])])
            [] OTHER -> NoFacts

(***************************************************************************)
(* Decorators.                                                             *)
(***************************************************************************)
\* decorated: each route decorator of a handler is a route, and of a class a
\* mount; the first of the others that says so guards it.
FlaskDecorated(file, names, s) ==
  LET IsRoute(d) == d.is = "call" /\ d.object # None /\ d.function \in Shortcuts \union {"route"}
      those  == SelectSeq(s.decorators, IsRoute)
      others == SelectSeq(s.decorators, LAMBDA d : ~IsRoute(d))
      auth   == FirstAuth([k \in DOMAIN others |-> DecoratorAuth(others[k])])
      PathOf(d) == IF d.args = <<>> THEN <<>> ELSE PathValue(names, Head(d.args))
      Methods(d) == IF d.function # "route" THEN <<Verb[d.function]>>
                    ELSE MethodsOrGet(ListedMethods(names, d))
      Route(d) == Using([RouteFact(Refer(file, d.object), Methods(d), PathOf(d)) EXCEPT !.auth = auth],
                        s.handler.reads, ToSet(PathOf(d)))
      Mount(d) == MountFact(Refer(file, d.object), Use(file.module, s.name), PathOf(d))
  IN CASE s.is = "def"   -> Routes([k \in DOMAIN those |-> Route(those[k])])
       [] s.is = "class" -> Mounts([k \in DOMAIN those |-> Mount(those[k])])
       [] OTHER          -> NoFacts

\* extract
Flask(file) ==
  LET names == FoldedNames(file)
      Of(s) == <<FlaskRouters(file, names, s)>>
               \o LET calls == Calls(s) IN [k \in DOMAIN calls |-> FlaskCall(file, names, calls[k])]
               \o <<FlaskDecorated(file, names, s)>>
  IN Absorbed(<<ImportsOf(file)>>
              \o [k \in DOMAIN file.body |-> ViewClass(file, file.body[k])]
              \o FlattenSeq([k \in DOMAIN file.body |-> Of(file.body[k])]))

=============================================================================
