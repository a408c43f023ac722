--------------------------- MODULE MCDiscovery ------------------------------
(***************************************************************************)
(* What an adapter can have found: small graphs of every wiring, routers   *)
(* reached through names, and mounts that say something of what is under   *)
(* them; and lists of routes whose application can be asked.               *)
(***************************************************************************)
EXTENDS Discovery

CONSTANTS get, post

Verbs == [get |-> get, post |-> post]

\* One module and names 1 to 3, a route on each.
Here(n) == Use(1, n)

Router(s, root)        == RouterFact(s, <<>>, None, root)
Route(reference, path) == RouteFact(reference, <<get>>, path)

Sink(routers, routes, mounts, imports, exports) ==
  [routers |-> routers, routes |-> routes, mounts |-> mounts, imports |-> imports,
   exports |-> exports, enrichable |-> FALSE]

\* Every graph of three routers and up to three mounts, the second of them at
\* the prefix of the first, one or two of the routers roots, the last perhaps
\* a view or not declared at all.
Wired ==
  {Sink(SubSeq(<<Router(<<1, 1>>, 1 \in roots), Router(<<1, 2>>, 2 \in roots),
                  [Router(<<1, 3>>, FALSE) EXCEPT !.implicit = last = "view"]>>,
                1, IF last = "undeclared" THEN 2 ELSE 3),
         [n \in 1..3 |-> Route(Here(n), <<n>>)],
         [k \in DOMAIN ends |-> MountFact(Here(ends[k][1]), Here(ends[k][2]), <<IF k = 2 THEN 1 ELSE k>>)],
         <<>>, <<>>) :
     roots \in {{1}, {2}, {1, 2}}, last \in {"router", "view", "undeclared"},
     ends \in UNION {[1..n -> (1..3) \X (1..3)] : n \in 0..3}}

\* A router of module 3, with a name of its own for its importers; module 2,
\* which passes on what it imports; and module 1, which mounts it by some name.
AtMostOne(S) == {<<>>} \union {<<x>> : x \in S}

Named ==
  {Sink(<<Router(<<1, 2>>, TRUE), Router(<<3, 1>>, FALSE)>>,
         <<Route(Use(3, 1), <<3>>)>>,
         <<MountFact(Use(1, 2),
                 UseOf(1, q, n), <<1>>)>>,
         a \o b, c \o d) :
     q \in {None, 1}, n \in {0, 1},
     a \in {<<ImportFact(1, 1, of, None, None)>> : of \in {2, 3, None}}
             \union {<<ImportFact(1, 1, 2, original, nested)>> : original \in {0, 1}, nested \in {None, 3}},
     b \in AtMostOne({ImportFact(2, 1, 3, original, None) : original \in {None, 0, 1}}
                     \union {ImportFact(2, 0, 3, 1, None)}),
     c \in AtMostOne({ExportFact(2, 0, 1), ExportFact(2, 1, 0), ExportFact(2, 1, 2)}),
     d \in AtMostOne({ExportFact(3, 0, 1)})}

\* Three routers in a row, each saying or not saying something of what is
\* under it.
Saying ==
  {Sink(<<[Router(<<1, 1>>, TRUE) EXCEPT !.prefix = <<7>>, !.group = g],
           [Router(<<1, 2>>, FALSE) EXCEPT !.prefix = <<8>>, !.group = h],
           [Router(<<1, 3>>, FALSE) EXCEPT !.prefix = <<9>>]>>,
         <<[Route(Here(2), <<2>>) EXCEPT !.methods = <<get, post>>, !.auth = own],
           [Route(Here(3), <<3>>) EXCEPT !.methods = <<get, post>>]>>,
         <<[MountFact(Here(1), Here(2), <<1>>) EXCEPT !.methods = m1, !.auth = a1, !.replaces = r1],
           [MountFact(Here(2), Here(3), <<2>>) EXCEPT !.methods = m2, !.auth = a2, !.group = h]>>,
         <<>>, <<>>) :
     g \in {None, 1}, h \in {None, 2}, own \in {None, 4}, a1 \in {None, 5}, a2 \in {None, 6},
     r1 \in BOOLEAN, m1 \in {{}, {get}}, m2 \in {{}, {get}, {post}}}

\* Four in a row, which is more than may be nested, and the last one perhaps
\* mounted higher up as well.
Deep ==
  {Sink([n \in 1..4 |-> Router(<<1, n>>, n = 1)],
         [n \in 1..4 |-> [Route(Here(n), <<n>>) EXCEPT !.methods = IF n = 2 THEN <<get, get>> ELSE @]],
         [n \in 1..3 |-> MountFact(Here(n), Here(n + 1), <<n>>)] \o higher, <<>>, <<>>) :
     higher \in AtMostOne({MountFact(Here(2), Here(4), <<5>>)})}

\* Routes that overlap: one path by two methods, a catch-all, and paths with
\* gaps; two of them on one root.
Overlapping ==
  {[Route(Here(1), path) EXCEPT !.methods = methods] :
     path \in {<<1, param>>, <<1, rest>>, <<gap, 2>>, <<gap, param>>},
     methods \in {<<get>>, <<get, post>>}}

Listed ==
  {[Sink(<<Router(<<1, 1>>, TRUE)>>, SetToSeq(routes), <<>>, <<>>, <<>>) EXCEPT !.enrichable = TRUE] :
     routes \in UNION {kSubset(n, Overlapping) : n \in 1..2}}

Said(method, path, unknown) == [Endpoint(method, path, Nowhere) EXCEPT !.unknown = unknown]

MCRuntimes ==
  UNION {kSubset(n, {Said(get, <<1, param>>, FALSE), Said(get, <<1, param>>, TRUE),
                     Said(post, <<1, param>>, FALSE), Said(get, <<1, 2>>, FALSE),
                     Said(get, <<3, 2>>, FALSE), Said(post, <<3, 2>>, FALSE)}) : n \in 1..2}

MCFound == Wired \union Named \union Saying \union Deep \union Listed

\* No file is of Go.
MCPackage == [m \in Module |-> None]
MCParts   == [n \in Name |-> <<n>>]

=============================================================================
