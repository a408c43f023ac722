------------------------------ MODULE Sources -------------------------------
(***************************************************************************)
(* A scan, from the files to the rows it lists (rl-discovery: scan.rs,     *)
(* scan_project).  Each adapter whose framework is detected reads its      *)
(* files, and what it finds goes through a registration graph of its own;  *)
(* what they list is put together, in what order is left out.              *)
(***************************************************************************)
EXTENDS Registration, Detection, FastApi, Flask, Django, Express, Go

CONSTANT Projects   \* The projects scanned: manifests, files, and what is served

VARIABLES
  project,
  adapters,   \* Those still to run
  reading,    \* The next adapter has yet to read the files
  rows        \* The endpoints of those that ran

sourcesVars == <<project, adapters, reading, rows, registrationVars>>

\* adapters::all, in order.
All == <<"fastapi", "flask", "django", "nextjs", "express", "go">>

Extracted(adapter, files) ==
  Absorbed([k \in DOMAIN files |->
              CASE adapter = "fastapi" -> FastApi(files[k])
                [] adapter = "flask"   -> Flask(files[k])
                [] adapter = "django"  -> Django(files[k])
                [] adapter = "nextjs"  -> NextJs(files[k])
                [] adapter = "express" -> Express(files[k])
                [] adapter = "go"      -> Go(files[k])])

(***************************************************************************)
(* Handlers declared apart from their routes (handlers.rs).                *)
(***************************************************************************)
\* find: in the package of the route first, and then where it is the only one of
\* that name, without the name of a package too; or None.
HandlerOf(route) ==
  LET written   == Parts[route.handler.name]
      Called(parts) == Where(facts.handlers, LAMBDA i : Parts[facts.handlers[i].name] = parts)
      here      == SelectSeq(Called(written), LAMBDA i :
                     Package[facts.handlers[i].module] = Package[route.handler.module])
      only      == SelectSeq(<<Called(written), Called(Tail(written))>>, LAMBDA at : Len(at) = 1)
  IN IF route.handler = None THEN None
     ELSE IF here # <<>> THEN facts.handlers[Head(here)]
     ELSE IF only # <<>> THEN facts.handlers[Head(Head(only))] ELSE None

\* fill: a handler says what the route does not, of each kind; and a method that
\* neither the route names nor its handler checks for is none.
Filled(row, methods, h) ==
  IF methods = Unspecified /\ h.checks # <<>> /\ row.method \notin ToSet(h.checks) THEN <<>>
  ELSE <<[row EXCEPT !.auth = Or(@, h.auth),
                     !.asks = @ \union {a \in h.asks : \A b \in row.asks : b.from # a.from}]>>

\* to_spec: what is listed of a route that was reached.
Listed(row) ==
  LET route == facts.routes[row.route]
      h     == HandlerOf(route)
      spec  == [framework |-> Head(adapters), method |-> row.method, path |-> row.path, auth |-> row.auth,
                asks |-> route.asks, orphaned |-> row.orphaned]
  IN IF h = None THEN <<spec>> ELSE Filled(spec, route.methods, h)

Fresh ==
  /\ graph' = None /\ from' = <<>> /\ sweeping' = FALSE /\ stack' = <<>>
  /\ reached' = {} /\ listed' = <<>> /\ warnings' = {}

ReadFiles ==
  /\ reading /\ adapters # <<>>
  /\ Detected(project, Head(adapters))
  /\ facts' = Extracted(Head(adapters), Candidates(project, Head(adapters)))
  /\ reading' = FALSE
  /\ Fresh
  /\ UNCHANGED <<project, adapters, rows>>

PassOver ==
  /\ reading /\ adapters # <<>>
  /\ ~Detected(project, Head(adapters))
  /\ adapters' = Tail(adapters)
  /\ UNCHANGED <<project, reading, rows, registrationVars>>

Collect ==
  /\ ~reading /\ Done
  /\ rows' = rows \o FlattenSeq([k \in DOMAIN listed |-> Listed(listed[k])])
  /\ adapters' = Tail(adapters) /\ reading' = TRUE
  /\ UNCHANGED <<project, registrationVars>>

SourcesInit ==
  /\ project \in Projects
  /\ adapters = All /\ reading = TRUE /\ rows = <<>>
  /\ facts = NoFacts
  /\ graph = None /\ from = <<>> /\ sweeping = FALSE /\ stack = <<>>
  /\ reached = {} /\ listed = <<>> /\ warnings = {}

SourcesNext ==
  \/ ReadFiles
  \/ PassOver
  \/ ~reading /\ RegistrationNext /\ UNCHANGED <<project, adapters, reading, rows>>
  \/ Collect

SourcesSpec == SourcesInit /\ [][SourcesNext]_sourcesVars

----------------------------------------------------------------------------
Scanned == reading /\ adapters = <<>>

\* What the listing says is served, and how often.
Reachable == SelectSeq(rows, LAMBDA r : ~r.orphaned)

ListsWhatIsServed ==
  LET Said(r) == [method |-> r.method, path |-> r.path, auth |-> r.auth, asks |-> r.asks]
  IN /\ {Said(r) : r \in ToSet(Reachable)} = project.serves
     /\ Len(Reachable) = Cardinality(project.serves)

\* However a FastAPI, Flask or Django application is written, of the ways the
\* adapters read, what is listed is what it serves, once each: under the prefixes
\* that apply, for the methods, behind the guard that applies, with a gap for what
\* would have to be evaluated, and whichever other framework is mentioned.  A view
\* that no URL conf routes to is not listed at all.
PythonIsReadAsServed ==
  Scanned /\ project.language \in {"python", "django"} =>
    /\ ListsWhatIsServed
    /\ project.language = "django" => Len(rows) = Len(Reachable)

\* However an Express or Next.js application is written, of the ways the
\* adapters read, what is listed is what it serves, once each: through either
\* module system, chains, several paths at once, and guards that are in force
\* from where they are registered.
JsIsReadAsServed ==
  Scanned /\ project.language = "js" => ListsWhatIsServed

\* However a Go service hands its router on - to a function, a method of what a
\* constructor built, a file of the same package, a struct that serves it, or as
\* what a function returns - and in whichever idiom its routes are registered,
\* what is listed is what it serves, once each: under the prefixes and behind the
\* guards of the groups on the way, with what handlers of other files read.
GoIsReadAsServed ==
  Scanned /\ project.language = "go" => ListsWhatIsServed

=============================================================================
