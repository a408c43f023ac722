------------------------------- MODULE Django -------------------------------
(***************************************************************************)
(* What the Django adapter makes of a Python file (rl-discovery:           *)
(* adapters/django.rs): pattern lists joined by include() from the URL     *)
(* conf the settings name, and views, each an implicit router whose routes *)
(* have empty paths and that a pattern mounts.  Django REST Framework's    *)
(* viewsets are the same one level up.                                     *)
(*                                                                         *)
(* A statement is at the top level of its file.  Groups, trailing slashes  *)
(* and body schemas are left out.                                          *)
(***************************************************************************)
EXTENDS PythonSource

CONSTANTS rootUrlconf, urlpatterns, urls   \* Names

\* Expressions: a dotted module as a string, or None for one of Django's own,
\* and a pattern list written where it is included, with the name it is given.
Dotted(of)            == [is |-> "dotted", of |-> of]
Patterns(name, items) == [is |-> "patterns", name |-> name, items |-> items]

\* `name += value`, here or in an if statement, and a decorator known by name.
Extend(name, value) == [is |-> "extend", name |-> name, value |-> value]
Bare(function)      == [is |-> "bare", function |-> function]

(***************************************************************************)
(* Views.                                                                  *)
(***************************************************************************)
GetPost == <<Verb["get"], Verb["post"]>>

\* GENERIC_METHODS, but for the bases that differ only in name.
Generic ==
  [View |-> <<>>, APIView |-> <<>>, ListView |-> <<Verb["get"]>>, FormView |-> GetPost,
   ListAPIView |-> <<Verb["get"]>>, CreateAPIView |-> <<Verb["post"]>>, ListCreateAPIView |-> GetPost,
   UpdateAPIView |-> <<Verb["put"], Verb["patch"]>>, DestroyAPIView |-> <<Verb["delete"]>>,
   RetrieveUpdateDestroyAPIView |-> <<Verb["get"], Verb["put"], Verb["patch"], Verb["delete"]>>]

\* VIEWSET_ACTIONS, in order: the method that reaches each, and whether it is
\* about one object.
Action(name, method, detail) == [name |-> name, method |-> method, detail |-> detail]
Actions == <<Action("list", Verb["get"], FALSE), Action("create", Verb["post"], FALSE),
             Action("retrieve", Verb["get"], TRUE), Action("update", Verb["put"], TRUE),
             Action("partial_update", Verb["patch"], TRUE), Action("destroy", Verb["delete"], TRUE)>>

\* VIEWSET_BASES
Supplied ==
  [ModelViewSet |-> {Actions[k].name : k \in DOMAIN Actions}, ReadOnlyModelViewSet |-> {"list", "retrieve"},
   ListModelMixin |-> {"list"}, CreateModelMixin |-> {"create"}, RetrieveModelMixin |-> {"retrieve"},
   UpdateModelMixin |-> {"update", "partial_update"}, DestroyModelMixin |-> {"destroy"},
   GenericViewSet |-> {}, ViewSet |-> {}]

\* The first class of a list that is a guard.
ClassAuth(items) == FirstAuth([k \in DOMAIN items |-> AuthFromName(items[k])])

\* auth_from_decorator: of login_required or another guard, or of the classes
\* that permission_classes is given.
DjangoAuth(decorators) ==
  LET Auth(e) == CASE e.is = "name" -> AuthFromName(e.name)
                   [] e.is = "call" /\ e.function = "permission_classes" ->
                        ClassAuth([k \in DOMAIN e.args |-> e.args[k].name])
                   [] OTHER -> None
  IN FirstAuth([k \in DOMAIN decorators |-> Auth(decorators[k])])

\* A method once, where it was said twice in a row.
Deduped(methods) ==
  LET kept == SelectSeq([k \in DOMAIN methods |-> k], LAMBDA k : k = 1 \/ methods[k] # methods[k - 1])
  IN [k \in DOMAIN kept |-> methods[kept[k]]]

\* function_methods: from decorators, or GET and what the body compares the
\* request's method with.
FunctionMethods(s) ==
  LET unfolded == [n \in Name |-> None]
      ListedBy(d) == IF d.is = "call" /\ d.function \in {"api_view", "require_http_methods"} /\ d.args # <<>>
                      THEN LET said == Strings(unfolded, Head(d.args)) IN [k \in DOMAIN said |-> Head(said[k])]
                      ELSE <<>>
      NamedBy(d) == CASE d.is = "bare" /\ d.function \in {"require_GET", "require_safe"} -> <<Verb["get"]>>
                     [] d.is = "bare" /\ d.function = "require_POST" -> <<Verb["post"]>>
                     [] OTHER -> <<>>
      Each(Of(_)) == FlattenSeq([k \in DOMAIN s.decorators |-> Of(s.decorators[k])])
      said == Each(ListedBy) \o Each(NamedBy)
  IN IF said # <<>> THEN Deduped(said)
     ELSE <<Verb["get"]>> \o SelectSeq(s.handler.compares, LAMBDA m : m # Verb["get"])

\* function_view
FunctionView(file, s) ==
  LET decorated == \E d \in ToSet(s.decorators) : d.is \in {"bare", "call"} /\ d.function \in
                     {"api_view", "require_GET", "require_safe", "require_POST", "require_http_methods"}
  IN IF ~(s.handler.request \/ decorated) THEN NoFacts
     ELSE [NoFacts EXCEPT
       !.routers = <<[RouterFact(<<file.module, s.name>>, <<>>, None, FALSE) EXCEPT !.implicit = TRUE]>>,
       !.routes  = <<Using([RouteFact(Use(file.module, s.name), FunctionMethods(s), <<>>)
                              EXCEPT !.auth = DjangoAuth(s.decorators)], s.handler.reads, {})>>]

\* The members of a class, with what each method reads, in order; @action
\* methods; the classes that permit, or None; the URL's name for an object, or
\* None; and the methods it is narrowed to, or None.
DjangoMembers(bases, methods, actions, permits, lookup, allowed) ==
  [bases |-> bases, methods |-> methods, actions |-> actions, permits |-> permits,
   lookup |-> lookup, allowed |-> allowed]

IsViewSet(bases) == \E k \in DOMAIN bases : bases[k] \in DOMAIN Supplied

ReadsIn(members, method) ==
  LET those == SelectSeq(members.methods, LAMBDA m : m.method = method)
  IN IF those = <<>> THEN {} ELSE Head(those).reads

\* viewset_routes: the actions of the bases and of the body, in their own order,
\* then the @action methods.
ViewSetRoutes(file, s, auth) ==
  LET self    == Use(file.module, s.name)
      members == s.members
      object  == <<IF members.lookup = None THEN param ELSE members.lookup>>
      there   == UNION {Supplied[b] : b \in ToSet(members.bases) \intersect DOMAIN Supplied}
                   \union {m.method : m \in ToSet(members.methods)}
      served  == SelectSeq(Actions, LAMBDA a : a.name \in there)
      Fact(a) == Using([RouteFact(self, <<a.method>>, IF a.detail THEN object ELSE <<>>)
                          EXCEPT !.auth = auth], ReadsIn(members, a.name), {})
      Extra(a) == Using([RouteFact(self, MethodsOrGet(a.methods), (IF a.detail THEN object ELSE <<>>) \o a.path)
                           EXCEPT !.auth = IF ClassAuth(a.permits) # None THEN ClassAuth(a.permits) ELSE auth],
                        a.reads, {})
  IN [k \in DOMAIN served |-> Fact(served[k])]
       \o [k \in DOMAIN members.actions |-> Extra(members.actions[k])]

\* The methods of a view that is no viewset: those it defines, or those its
\* bases serve, or GET; narrowed by http_method_names.
PlainRoutes(file, s, auth) ==
  LET members == s.members
      defined == SelectSeq(members.methods, LAMBDA m : m.method \in DOMAIN Verb)
      own     == [k \in DOMAIN defined |-> Verb[defined[k].method]]
      based   == FlattenSeq([k \in DOMAIN members.bases |->
                   IF members.bases[k] \in DOMAIN Generic THEN Generic[members.bases[k]] ELSE <<>>])
      served  == IF own # <<>> THEN own ELSE MethodsOrGet(based)
      kept    == SelectSeq(served, LAMBDA m : members.allowed = None \/ m \in members.allowed)
      Reads(m) == UNION {ReadsIn(members, name) : name \in {n \in DOMAIN Verb : Verb[n] = m}}
  IN [k \in DOMAIN kept |-> Using([RouteFact(Use(file.module, s.name), <<kept[k]>>, <<>>)
                                     EXCEPT !.auth = auth], Reads(kept[k]), {})]

\* class_view
ClassView(file, s) ==
  LET members == s.members
      isView  == \/ IsViewSet(members.bases) \/ members.methods # <<>>
                 \/ \E k \in DOMAIN members.bases : members.bases[k] \in DOMAIN Generic
      own     == IF members.permits = None THEN None ELSE ClassAuth(members.permits)
      auth    == IF own # None THEN own ELSE DjangoAuth(s.decorators)
  IN IF ~isView THEN NoFacts
     ELSE [NoFacts EXCEPT
       !.routers = <<[RouterFact(<<file.module, s.name>>, <<>>, None, FALSE) EXCEPT !.implicit = TRUE]>>,
       !.routes  = IF IsViewSet(members.bases) THEN ViewSetRoutes(file, s, auth)
                                               ELSE PlainRoutes(file, s, auth)]

(***************************************************************************)
(* Pattern lists.                                                          *)
(***************************************************************************)
PatternCalls == {"path", "re_path", "url"}

\* Mutation: lists that are added up are not looked into.
OnlyOneList(e) == SelectSeq(IF e.is = "list" THEN e.items ELSE <<>>,
                            LAMBDA x : x.is = "call" /\ x.function \in PatternCalls)

\* pattern_elements: of a list, or of lists added up.
Elements(e) ==
  LET lists == IF e.is = "joined" THEN SelectSeq(e.parts, LAMBDA p : p.is = "list")
               ELSE IF e.is = "list" THEN <<e>> ELSE <<>>
      all == FlattenSeq([k \in DOMAIN lists |-> lists[k].items])
  IN SelectSeq(all, LAMBDA x : x.is = "call" /\ x.function \in PatternCalls)

\* What include() is given, as a use in this file, or None for what is not
\* followed.  The router of a viewset is mounted itself.
Included(file, target) ==
  CASE target.is = "dotted" -> IF target.of = None THEN None ELSE Use(file.module, Inline[target.of])
    [] target.is = "name"   -> Refer(file, target)
    [] target.is = "attribute" -> IF target.name = urls THEN Use(file.module, target.of) ELSE Refer(file, target)
    [] target.is = "patterns"  -> Use(file.module, target.name)
    [] OTHER -> None

\* The file whose urlpatterns an inline reference stands for.
Attached(file, of) == Imports(<<ImportFact(file.module, Inline[of], of, urlpatterns, None)>>)

\* pattern: an element of a list includes another list, mounts a view, or is a
\* route by itself when nobody can say which view it is.
RECURSIVE Pattern(_, _, _, _)
Pattern(file, names, list, element) ==
  LET prefix == PathValue(names, Head(element.args))
      view   == element.args[2]
      here   == Use(file.module, list)
      To(child) == Mounts(<<MountFact(here, child, prefix)>>)
      target == Head(view.args)
      inner  == CASE target.is = "dotted" -> <<Attached(file, target.of)>>
                  [] target.is = "patterns" ->
                       <<Routers(<<RouterFact(<<file.module, target.name>>, <<>>, None, FALSE)>>)>>
                         \o LET elements == Elements(List(target.items))
                            IN [k \in DOMAIN elements |-> Pattern(file, names, target.name, elements[k])]
                  [] OTHER -> <<>>
  IN CASE view.is \in {"name", "attribute"} -> To(Refer(file, view))
       [] view.is = "call" ->
            IF view.function = "include"
              THEN IF Included(file, target) = None THEN NoFacts
                   ELSE Absorbed(Append(inner, To(Included(file, target))))
            ELSE IF view.function = "as_view" /\ view.object # None THEN To(Refer(file, view.object))
            ELSE Routes(<<RouteFact(here, <<Verb["get"]>>, prefix)>>)
       [] OTHER -> NoFacts

\* assignment and root_urlconf
DjangoAssignment(file, names, s) ==
  LET self == <<file.module, s.name>>
      Router(root) == Routers(<<RouterFact(self, <<>>, None, root)>>)
      elements == Elements(s.value)
  IN IF s.is \notin {"assign", "extend"} THEN NoFacts
     ELSE IF s.name = rootUrlconf
       THEN IF s.value.is # "dotted" THEN NoFacts
            ELSE Absorbed(<<Router(TRUE), Attached(file, s.value.of),
                            Mounts(<<MountFact(Use(file.module, s.name), Use(file.module, Inline[s.value.of]), <<>>)>>)>>)
     ELSE IF s.value.is = "call"
       THEN IF s.value.function \in {"DefaultRouter", "SimpleRouter"} THEN Router(FALSE) ELSE NoFacts
     ELSE IF elements = <<>> THEN NoFacts
     ELSE Absorbed((IF s.is = "assign" THEN <<Router(FALSE)>> ELSE <<>>)
                   \o [k \in DOMAIN elements |-> Pattern(file, names, s.name, elements[k])])

\* call: router.register(prefix, viewset)
DjangoCall(file, names, s) ==
  IF s.is = "do" /\ s.call.function = "register" /\ s.call.object # None /\ Len(s.call.args) >= 2
    THEN Mounts(<<MountFact(Refer(file, s.call.object), Refer(file, s.call.args[2]),
                            PathValue(names, s.call.args[1]))>>)
    ELSE NoFacts

\* extract: views first, then the statements.
Django(file) ==
  LET names == FoldedNames(file)
      View(s) == CASE s.is = "def"   -> FunctionView(file, s)
                   [] s.is = "class" -> ClassView(file, s)
                   [] OTHER          -> NoFacts
      Each(Of(_)) == [k \in DOMAIN file.body |-> Of(file.body[k])]
  IN Absorbed(<<ImportsOf(file)>> \o Each(View)
              \o Each(LAMBDA s : DjangoAssignment(file, names, s))
              \o Each(LAMBDA s : DjangoCall(file, names, s)))

=============================================================================
