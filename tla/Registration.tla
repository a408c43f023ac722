---------------------------- MODULE Registration ----------------------------
(***************************************************************************)
(* The route registration graph (rl-discovery: graph.rs): routers declared *)
(* in one file and mounted in another, walked from the application roots   *)
(* into the full paths of their routes.                                    *)
(*                                                                         *)
(* What an adapter found is a record of sequences, in the order of the     *)
(* source.  Files are resolved already: an import names the module it      *)
(* reads, in Go the directory, or none of this project.                    *)
(***************************************************************************)
EXTENDS Facts

CONSTANTS
  Found,          \* What adapters can have found, and whether the application
                  \* can be asked
  MaxHops,        \* MAX_ALIAS_HOPS
  MaxDepth        \* MAX_DEPTH

ASSUME RegistrationAssumption ==
  /\ Module \subseteq Nat /\ Name \subseteq Nat /\ default \in Name
  /\ MaxHops \in Nat /\ MaxDepth \in Nat \ {0}

\* What adapters emit: every name is one of a file, a route is for some method, and
\* what is imported outside of Go is of a file.
IsSequence(s) == s \in Seq(ToSet(s))

References(f) ==
  {f.routes[i].router : i \in DOMAIN f.routes}
  \union UNION {{f.mounts[i].parent, f.mounts[i].child} : i \in DOMAIN f.mounts}

ASSUME FoundAssumption ==
  /\ None \notin Symbol
  /\ \A f \in Found :
       /\ IsSequence(f.routers) /\ IsSequence(f.routes) /\ IsSequence(f.mounts)
       /\ IsSequence(f.imports) /\ IsSequence(f.exports)
       /\ References(f) \subseteq Reference
       /\ \A i \in DOMAIN f.routers : f.routers[i].symbol \in Symbol /\ f.routers[i].prefix \in Seq(Nat)
       /\ \A i \in DOMAIN f.routes :
            f.routes[i].methods \in Seq(Nat) \ {<<>>} /\ f.routes[i].path \in Seq(Nat)
       /\ \A i \in DOMAIN f.mounts : f.mounts[i].prefix \in Seq(Nat)
       /\ \A i \in DOMAIN f.exports : f.exports[i].local \in Name
       /\ \/ \A i \in DOMAIN f.imports :
                 /\ f.imports[i].of \in Module \union {None}
                 /\ f.imports[i].nested \in Module \union {None}
                 /\ f.imports[i].original \in Name \union {None}
          \/ \A reference \in References(f) : Package[reference.module] # None

VARIABLES
  facts,      \* FactSink
  graph,      \* routes_by_router and mounts_by_parent
  from,       \* The symbols still to start a walk from
  sweeping,   \* The roots have been walked; what they did not reach is
  stack,      \* The call stack of `walk`
  reached,    \* Symbols walked into
  listed,     \* The resolved routes
  warnings

walkVars         == <<from, sweeping, stack, reached, listed, warnings>>
registrationVars == <<facts, graph, walkVars>>

Warning(kind, of) == [kind |-> kind, of |-> of]

Before(s, t)   == s[1] < t[1] \/ (s[1] = t[1] /\ s[2] < t[2])
InOrder(pairs) == InTurn(pairs, {p \in pairs \X pairs : Before(p[1], p[2])})

\* The positions of a sequence that pass, in order.
Where(seq, Test(_)) ==
  LET those == {i \in DOMAIN seq : Test(i)}
  IN InTurn(those, {p \in those \X those : p[1] < p[2]})

(***************************************************************************)
(* What names stand for.                                                   *)
(***************************************************************************)
\* The first declaration of a symbol wins.
RouterOf(s) ==
  LET at == {i \in DOMAIN facts.routers : facts.routers[i].symbol = s}
  IN IF at = {} THEN None ELSE facts.routers[Min(at)]

Declared(s) == RouterOf(s) # None
Implicit(s) == Declared(s) /\ RouterOf(s).implicit

\* A submodule comes before a name in the module; what is not of this project
\* binds nothing.
Target(import) ==
  IF import.original # None /\ import.nested # None THEN [kind |-> "module", module |-> import.nested]
  ELSE IF import.of = None THEN None
  ELSE IF import.original = None THEN [kind |-> "module", module |-> import.of]
  ELSE [kind |-> "symbol", symbol |-> <<import.of, import.original>>]

\* The last import that binds a name wins, and so does the last export.
Binding(s) ==
  LET at == {i \in DOMAIN facts.imports :
               <<facts.imports[i].module, facts.imports[i].local>> = s
                 /\ Target(facts.imports[i]) # None}
  IN IF at = {} THEN None ELSE Target(facts.imports[Max(at)])

Exported(s) ==
  LET at == {i \in DOMAIN facts.exports :
               <<facts.exports[i].module, facts.exports[i].exported>> = s}
  IN IF at = {} THEN None ELSE facts.exports[Max(at)].local

Hop(s) ==
  LET binding == Binding(s) IN
  IF Exported(s) \notin {None, s[2]} THEN <<s[1], Exported(s)>>
  ELSE IF binding = None THEN s
  ELSE IF binding.kind = "symbol" THEN binding.symbol
  ELSE <<binding.module, default>>

\* canonical: exports and re-exports are followed to a declared router, a dead
\* end, or the limit.
Canonical(s) ==
  LET after[n \in 0..MaxHops] ==
        IF n = 0 THEN s
        ELSE IF Declared(after[n - 1]) THEN after[n - 1] ELSE Hop(after[n - 1])
  IN after[MaxHops]

\* package_routers and package_exports: Go has one scope for all the files of
\* a directory.
PackageRouter(package, parts) ==
  LET those == {s \in {facts.routers[i].symbol : i \in DOMAIN facts.routers} :
                  Package[s[1]] = package /\ Parts[s[2]] = parts}
  IN IF those = {} THEN None ELSE CHOOSE s \in those : \A t \in those : t[1] <= s[1]

PackageAlias(package, parts) ==
  LET at == {i \in DOMAIN facts.exports :
               Package[facts.exports[i].module] = package /\ Parts[facts.exports[i].exported] = parts}
      Other(alias) == IF alias = parts THEN None ELSE alias
  IN IF at = {} THEN None ELSE Other(Parts[facts.exports[Max(at)].local])

\* resolve_go_symbol: aliases, of the whole name or of its head, are followed to a
\* declared router of the package, or to None.
Renamed(parts, alias, ofHead) ==
  IF alias # None THEN alias ELSE IF ofHead # None THEN ofHead \o Tail(parts) ELSE parts

FoundIn(package, parts) ==
  LET after[n \in 0..MaxHops] ==
        IF n = 0 THEN parts
        ELSE Renamed(after[n - 1], PackageAlias(package, after[n - 1]),
                     PackageAlias(package, <<Head(after[n - 1])>>))
      found == {n \in 1..MaxHops : PackageRouter(package, after[n - 1]) # None}
  IN IF found = {} THEN None ELSE PackageRouter(package, after[Min(found) - 1])

\* resolve_go_symbol: the file, then the package, or the package imported under the
\* name that comes first; or the name stands for itself.
ResolveInPackage(reference) ==
  LET local   == <<reference.module, reference.name>>
      written == Parts[reference.name]
      binding == Binding(<<reference.module, Head(written)>>)
      away    == Len(written) > 1 /\ binding # None
  IN IF Declared(local) THEN local
     ELSE Or(FoundIn(IF away THEN binding.module ELSE Package[reference.module],
                     IF away THEN Tail(written) ELSE written),
             local)

\* resolve_symbol: the symbol a reference names, or None.
Resolve(reference) ==
  LET local     == <<reference.module, reference.name>>
      binding   == Binding(IF reference.qualifier = None THEN local
                           ELSE <<reference.module, reference.qualifier>>)
      attribute == <<IF binding = None THEN reference.module
                     ELSE IF binding.kind = "module" THEN binding.module
                     ELSE binding.symbol[1], reference.name>>
  IN IF Package[reference.module] # None THEN ResolveInPackage(reference)
     ELSE IF reference.qualifier # None
       THEN IF \/ binding = None
               \/ binding.kind = "symbol"
                    /\ (binding.symbol[2] # default \/ Exported(attribute) = None)
              THEN None
              ELSE Canonical(attribute)
     ELSE IF Declared(local) \/ binding = None THEN local
     ELSE IF binding.kind = "symbol" THEN Canonical(binding.symbol)
     ELSE None

(***************************************************************************)
(* The graph.                                                              *)
(***************************************************************************)
\* What tells one mount from another.
Spelling(mount) == <<mount.parent, mount.child, mount.prefix, mount.methods, mount.replaces>>

\* build: the same mount written twice is one.
FirstOfItsKind(i) ==
  \A j \in 1..(i - 1) : Spelling(facts.mounts[j]) # Spelling(facts.mounts[i])

RoutesOn(s) == Where(facts.routes, LAMBDA i : Resolve(facts.routes[i].router) = s)

Known(s) == Declared(s) \/ RoutesOn(s) # <<>>

MountsOn(s) ==
  LET here == Where(facts.mounts, LAMBDA i :
                 /\ FirstOfItsKind(i) /\ Resolve(facts.mounts[i].parent) = s
                 /\ Resolve(facts.mounts[i].child) # None /\ Known(Resolve(facts.mounts[i].child)))
  IN [k \in DOMAIN here |-> [child |-> Resolve(facts.mounts[here[k]].child), of |-> here[k]]]

Untraced ==
  {Warning("unresolved", facts.routes[i].router) :
     i \in {i \in DOMAIN facts.routes : Resolve(facts.routes[i].router) = None}}
  \union
  {Warning("unresolved", facts.mounts[i].child) :
     i \in {i \in DOMAIN facts.mounts :
              None \in {Resolve(facts.mounts[i].parent), Resolve(facts.mounts[i].child)}}}
  \union
  {Warning("undeclared mount", facts.mounts[i].child) :
     i \in {i \in DOMAIN facts.mounts :
              LET child == Resolve(facts.mounts[i].child) IN
                /\ Resolve(facts.mounts[i].parent) # None /\ child # None
                /\ ~Known(child)}}

Roots == {s \in Symbol : Declared(s) /\ RouterOf(s).root}

Index ==
  /\ graph = None
  /\ graph' = [routes |-> [s \in Symbol |-> RoutesOn(s)], mounts |-> [s \in Symbol |-> MountsOn(s)]]
  /\ from' = InOrder(Roots)
  /\ warnings' = Untraced
  /\ UNCHANGED <<facts, sweeping, stack, reached, listed>>

(***************************************************************************)
(* The walk.                                                               *)
(***************************************************************************)
\* How a router is entered: under which prefix, and with what of the mounts on
\* the way.
Entrance(prefix, skip, methods, auth, group) ==
  [prefix |-> prefix, skip |-> skip, methods |-> methods, auth |-> auth, group |-> group]

AtRoot == Entrance(<<>>, FALSE, {}, None, None)

\* What mounts leave of a router's routes: each with the place of a method.
LetThrough(s, methods) ==
  UNION {{<<i, j>> : j \in {j \in DOMAIN facts.routes[i].methods :
                             methods = {} \/ facts.routes[i].methods[j] \in methods}}
         : i \in ToSet(graph.routes[s])}

\* What of a router's routes is listed from here.
Listing(s, base, entrance, group) ==
  LET at == InOrder(LetThrough(s, entrance.methods))
  IN [k \in DOMAIN at |->
        LET route == facts.routes[at[k][1]] IN
        [route |-> at[k][1], method |-> route.methods[at[k][2]], path |-> base \o route.path,
         auth |-> Or(route.auth, entrance.auth), group |-> Or(route.group, group),
         orphaned |-> sweeping]]

\* Mutation: a router is walked into once.
EnteredBefore(s, under) == s \in reached

\* The stack, not all that was reached: a router mounted twice is walked twice.
IsOn(s, under) == \E k \in DOMAIN under : under[k].symbol = s

Walk(s, entrance, under, warned) ==
  \/ /\ IsOn(s, under)
     /\ stack' = under /\ warnings' = warned \union {Warning("cycle", s)}
     /\ UNCHANGED <<reached, listed>>
  \/ /\ ~IsOn(s, under) /\ Len(under) >= MaxDepth
     /\ stack' = under /\ warnings' = warned \union {Warning("too deep", s)}
     /\ UNCHANGED <<reached, listed>>
  \/ /\ ~IsOn(s, under) /\ Len(under) < MaxDepth
     /\ LET own   == IF Declared(s) THEN RouterOf(s).prefix ELSE <<>>
            base  == IF entrance.skip THEN entrance.prefix ELSE entrance.prefix \o own
            group == IF Declared(s) THEN Or(RouterOf(s).group, entrance.group)
                                    ELSE entrance.group
        IN /\ stack' = Append(under, [symbol |-> s, base |-> base, methods |-> entrance.methods,
                                      auth |-> entrance.auth, group |-> group,
                                      left |-> graph.mounts[s]])
           /\ listed' = listed \o Listing(s, base, entrance, group)
     /\ reached' = reached \union {s}
     /\ warnings' = warned

Start ==
  /\ graph # None /\ ~sweeping /\ stack = <<>> /\ from # <<>>
  /\ Walk(Head(from), AtRoot, <<>>, warnings)
  /\ from' = Tail(from)
  /\ UNCHANGED <<facts, graph, sweeping>>

\* The nearest mount that says decides.
NearestMethods(mount, top) == IF mount.methods = {} THEN top.methods ELSE mount.methods

Descend ==
  /\ stack # <<>> /\ Last(stack).left # <<>>
  /\ LET top   == Last(stack)
         edge  == Head(top.left)
         mount == facts.mounts[edge.of]
     IN Walk(edge.child,
             Entrance(top.base \o mount.prefix, mount.replaces, NearestMethods(mount, top),
                      Or(mount.auth, top.auth), Or(mount.group, top.group)),
             Front(stack) \o <<[top EXCEPT !.left = Tail(@)]>>, warnings)
  /\ UNCHANGED <<facts, graph, from, sweeping>>

Return ==
  /\ stack # <<>> /\ Last(stack).left = <<>>
  /\ stack' = Front(stack)
  /\ UNCHANGED <<facts, graph, from, sweeping, reached, listed, warnings>>

(***************************************************************************)
(* What no root reached.                                                   *)
(***************************************************************************)
\* Mutation: what was never mounted is left out.
NotForgotten == {s \in Symbol \ reached : Declared(s) /\ \E i \in DOMAIN facts.mounts :
                                           Resolve(facts.mounts[i].child) = s}

Unreached == {s \in Symbol \ reached : Known(s)}

Sweep ==
  /\ graph # None /\ ~sweeping /\ stack = <<>> /\ from = <<>>
  /\ sweeping' = TRUE
  /\ from' = InOrder(Unreached)
  /\ UNCHANGED <<facts, graph, stack, reached, listed, warnings>>

\* Listed by the walk of an earlier orphan, or a view nobody routed to.
PassedOver(s) == s \in reached \/ Implicit(s)

StartOrphan ==
  /\ sweeping /\ stack = <<>> /\ from # <<>>
  /\ from' = Tail(from)
  /\ LET s == Head(from) IN
       \/ PassedOver(s) /\ UNCHANGED <<stack, reached, listed, warnings>>
       \/ /\ ~PassedOver(s)
          /\ Walk(s, AtRoot, <<>>,
                  warnings \union
                    {Warning(IF Declared(s) THEN "orphaned" ELSE "undeclared router", s)})
  /\ UNCHANGED <<facts, graph, sweeping>>

----------------------------------------------------------------------------
RegistrationInit ==
  /\ facts \in Found
  /\ graph = None /\ from = <<>> /\ sweeping = FALSE /\ stack = <<>>
  /\ reached = {} /\ listed = <<>> /\ warnings = {}

Done == sweeping /\ stack = <<>> /\ from = <<>>

RegistrationNext == Index \/ Start \/ Descend \/ Return \/ Sweep \/ StartOrphan

RegistrationSpec == RegistrationInit /\ [][RegistrationNext]_registrationVars

----------------------------------------------------------------------------
Edges == UNION {{[parent |-> s, child |-> e.child, mount |-> facts.mounts[e.of]] :
                   e \in ToSet(graph.mounts[s])} : s \in Symbol}

\* The ways there are from a symbol along mounts, no router twice.
Ways(s) ==
  {w \in SeqOf(Edges, MaxDepth - 1) :
     /\ \A k \in DOMAIN w : w[k].parent = IF k = 1 THEN s ELSE w[k - 1].child
     /\ Cardinality({s} \union {w[k].child : k \in DOMAIN w}) = Len(w) + 1}

End(s, w) == IF w = <<>> THEN s ELSE Last(w).child

OwnPrefix(s) == IF Declared(s) THEN RouterOf(s).prefix ELSE <<>>
OwnGroup(s)  == IF Declared(s) THEN RouterOf(s).group ELSE None

\* The last that was said, or `nothing`.
LastSaid(seq, nothing) ==
  LET said == {k \in DOMAIN seq : seq[k] # nothing}
  IN IF said = {} THEN nothing ELSE seq[Max(said)]

\* What is to be listed behind way w from s of the route and the method at `at`.
Row(s, w, at) ==
  LET i == at[1]
      Along(Said(_)) == [k \in DOMAIN w |-> Said(w[k])] IN
  [route |-> i, method |-> facts.routes[i].methods[at[2]], orphaned |-> FALSE,
   path |-> OwnPrefix(s)
            \o FlattenSeq(Along(LAMBDA e :
                 e.mount.prefix \o IF e.mount.replaces THEN <<>> ELSE OwnPrefix(e.child)))
            \o facts.routes[i].path,
   auth |-> LastSaid(Append(Along(LAMBDA e : e.mount.auth), facts.routes[i].auth), None),
   group |-> LastSaid(<<OwnGroup(s)>>
                      \o FlattenSeq(Along(LAMBDA e : <<e.mount.group, OwnGroup(e.child)>>))
                      \o <<facts.routes[i].group>>, None)]

\* The nearest mount that narrows the methods decides.
Narrowed(w) == LastSaid([k \in DOMAIN w |-> w[k].mount.methods], {})

\* Each way from a root to a route, for each method that gets through.
Trips ==
  UNION {UNION {{<<s, w, at>> : at \in LetThrough(End(s, w), Narrowed(w))} : w \in Ways(s)} : s \in Roots}

\* Every way from an application root to a route is listed, once, with the
\* prefixes, the methods, the auth and the group that way gives it, and nothing
\* else is as reachable: whatever cycles, diamonds and repeated mounts there are.
EveryWayIsListed ==
  Done =>
    LET Of(t) == Row(t[1], t[2], t[3])
    IN /\ Cardinality({k \in DOMAIN listed : ~listed[k].orphaned}) = Cardinality(Trips)
       /\ \A t \in Trips : Cardinality({k \in DOMAIN listed : listed[k] = Of(t)})
                             = Cardinality({u \in Trips : Of(u) = Of(t)})

Leads(starts, s) == \E t \in starts : \E w \in Ways(t) : End(t, w) = s

\* Some way from there to s lets method m through.
Admits(starts, s, m) ==
  \E t \in starts : \E w \in Ways(t) : End(t, w) = s /\ (Narrowed(w) = {} \/ m \in Narrowed(w))

WarnedAbout == {s \in Symbol : \E kind \in {"orphaned", "undeclared router"} : Warning(kind, s) \in warnings}

\* "Reported rather than dropped": whatever was reported as untraceable or is a view
\* nothing mounts, a root leads to the router of a route, or else a router that was
\* warned about does, and each of its methods that some way from there lets through
\* is listed, as orphaned in the second case.  What is left out is left out by every
\* way there is.  And there is no such warning about what a root leads to.
ReportedRatherThanDropped ==
  Done =>
    /\ \A s \in WarnedAbout : ~Leads(Roots, s)
    /\ \A i \in DOMAIN facts.routes :
         LET s      == Resolve(facts.routes[i].router)
             starts == IF Leads(Roots, s) THEN Roots ELSE WarnedAbout
         IN \/ s = None /\ Warning("unresolved", facts.routes[i].router) \in warnings
            \/ s # None /\ Implicit(s) /\ s \notin reached
            \/ /\ Leads(starts, s)
               /\ \A m \in ToSet(facts.routes[i].methods) :
                    Admits(starts, s, m) =>
                      \E k \in DOMAIN listed : listed[k].route = i /\ listed[k].method = m
                                                /\ listed[k].orphaned = ~Leads(Roots, s)

\* However the mounts are wired, the walk follows a path: no router is under
\* itself, no path is longer than the limit, and what is on it was reached.
WalksArePaths ==
  /\ Len(stack) <= MaxDepth
  /\ \A j, k \in DOMAIN stack : stack[j].symbol = stack[k].symbol => j = k
  /\ \A k \in DOMAIN stack : stack[k].symbol \in reached

=============================================================================
