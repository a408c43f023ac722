------------------------------- MODULE NextJs -------------------------------
(***************************************************************************)
(* What the Next.js adapter makes of a file (rl-discovery:                 *)
(* adapters/nextjs.rs).  Where the file is gives the path; the file says   *)
(* which methods it serves.  Every route file of an app registers on one   *)
(* virtual root, which is the app's directory.                             *)
(***************************************************************************)
EXTENDS JsSource

CONSTANTS next, api   \* The root's name, and the segment of that name

\* Where a route file is: in the app or the pages router of a directory, below
\* which folders, of which some are no part of the path, and, for a page, under
\* which name, or None for its folder's index.
Folder(kind, segment) == [kind |-> kind, segment |-> segment]
Located(router, root, folders, stem) == [router |-> router, root |-> root, folders |-> folders, stem |-> stem]

\* A statement that compares the request's method with these.
Checks(methods) == [is |-> "checks", methods |-> methods]
\* `export default`, of a function here or wrapped in a call.
Serves(handler, wrapper) == [is |-> "serves", handler |-> handler, wrapper |-> wrapper]

\* locate: the path, or None for what is not a route.
PathAt(at) ==
  LET Kept(f) == IF at.router = "app" THEN f.kind \in {"plain", "intercepting"} ELSE TRUE
      kept == SelectSeq(at.folders, Kept)
      path == [k \in DOMAIN kept |-> kept[k].segment]
  IN IF \E k \in DOMAIN at.folders : at.folders[k].kind = "private" THEN None
     ELSE IF at.router = "app" THEN path
     ELSE <<api>> \o path \o IF at.stem = None THEN <<>> ELSE <<at.stem>>

\* group_of
GroupOf(path) ==
  LET literals == SelectSeq(path, LAMBDA x : x \notin {param, rest, gap})
      at       == {k \in DOMAIN literals : literals[k] = api}
      after    == IF at = {} THEN literals ELSE SubSeq(literals, Min(at) + 1, Len(literals))
  IN IF after = <<>> THEN None ELSE Head(after)

\* method_exports: each method exported, once.
MethodExports(file) ==
  LET IsMethod(s) == s.is \in {"exports", "passes on"} /\ s.exported \in Range(Verb)
      those == SelectSeq(file.body, IsMethod)
      first == SelectSeq([k \in DOMAIN those |-> k],
                 LAMBDA k : \A j \in 1..(k - 1) : those[j].exported # those[k].exported)
  IN [k \in DOMAIN first |-> those[first[k]]]

AppRoute(file, router, path, s) ==
  LET reads == IF s.is = "exports" THEN ReadsOfFunction(file, s.local) ELSE None
  IN Using([RouteFact(router, <<s.exported>>, path) EXCEPT !.group = GroupOf(path)],
           IF reads = None THEN {} ELSE reads, {})

\* default_export and checked_methods
PagesRoute(file, router, path) ==
  LET serves  == Head(SelectSeq(file.body, LAMBDA s : s.is = "serves"))
      checks  == SelectSeq(file.body, LAMBDA s : s.is = "checks")
      methods == FoldLeft(LAMBDA seen, m : IF m \in ToSet(seen) THEN seen ELSE Append(seen, m), <<>>,
                          FlattenSeq([k \in DOMAIN checks |-> checks[k].methods]))
      reads   == IF serves.handler.is = "function" THEN serves.handler.reads
                 ELSE IF ReadsOfFunction(file, serves.handler.name) # None
                        THEN ReadsOfFunction(file, serves.handler.name)
                 ELSE {}
  IN Using([RouteFact(router, IF methods = <<>> THEN Unspecified ELSE methods, path)
              EXCEPT !.group = GroupOf(path),
                     !.auth = IF serves.wrapper = None THEN None ELSE AuthFromName(serves.wrapper)],
           reads, ToSet(path))

\* extract
NextJs(file) ==
  LET path   == PathAt(file.at)
      router == Use(file.module, next)
      Attached == [NoFacts EXCEPT
        !.routers = <<RouterFact(<<file.at.root, next>>, <<>>, None, TRUE)>>,
        !.imports = <<ImportFact(file.module, next, file.at.root, next, None)>>]
      methods == MethodExports(file)
  IN IF file.at = None THEN NoFacts
     ELSE IF path = None THEN NoFacts
     ELSE IF file.at.router = "app"
       THEN [Attached EXCEPT !.routes = [k \in DOMAIN methods |-> AppRoute(file, router, path, methods[k])]]
     ELSE IF \E s \in ToSet(file.body) : s.is = "serves"
       THEN [Attached EXCEPT !.routes = <<PagesRoute(file, router, path)>>]
     ELSE Attached

=============================================================================
