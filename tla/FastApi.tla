------------------------------ MODULE FastApi -------------------------------
(***************************************************************************)
(* What the FastAPI adapter makes of a Python file (rl-discovery:          *)
(* adapters/fastapi.rs): applications and routers, decorated handlers,     *)
(* include_router and add_api_route.  Models, summaries and the types of   *)
(* parameters are left out.                                                *)
(***************************************************************************)
EXTENDS PythonSource

\* A parameter of a handler: `kind` is plumbing, a model, another annotation,
\* or "bare"; `value` is its default.
Parameter(name, kind, value) == [name |-> name, kind |-> kind, value |-> value]

\* extract_declaration
FastApiRouters(file, names, s) ==
  IF s.is = "assign" /\ s.value.is = "call" /\ s.value.function \in {"FastAPI", "APIRouter"}
    THEN Routers(<<RouterFact(<<file.module, s.name>>, PathKeyword(names, s.value, "prefix"),
                              FirstString(names, s.value, "tags"),
                              s.value.function = "FastAPI")>>)
    ELSE NoFacts

\* auth_from_dependency_call: Depends(guard) or Security(guard).
DependencyAuth(e) ==
  IF e.is = "call" /\ e.function \in {"Depends", "Security"} /\ e.args # <<>>
       /\ Head(e.args).is \in {"name", "attribute"}
    THEN AuthFromName(Head(e.args).name) ELSE None

\* auth_from_dependencies
DependenciesAuth(call) ==
  IF Has(call, "dependencies") /\ call.keywords["dependencies"].is = "list"
    THEN LET items == call.keywords["dependencies"].items
         IN FirstAuth([k \in DOMAIN items |-> DependencyAuth(items[k])])
    ELSE None

\* extract_call
FastApiCall(file, names, call) ==
  IF call.object = None \/ call.args = <<>> THEN NoFacts
  ELSE IF call.function = "include_router"
    THEN Mounts(<<[MountFact(Refer(file, call.object), Refer(file, Head(call.args)),
                             PathKeyword(names, call, "prefix"))
                     EXCEPT !.group = FirstString(names, call, "tags"),
                            !.auth = DependenciesAuth(call)]>>)
  ELSE IF call.function \in {"add_api_route", "add_route"}
    THEN Routes(<<[RouteFact(Refer(file, call.object), MethodsOrGet(ListedMethods(names, call)),
                             PathValue(names, Head(call.args)))
                     EXCEPT !.group = FirstString(names, call, "tags")]>>)
  ELSE NoFacts

(***************************************************************************)
(* The handler's parameters.                                               *)
(***************************************************************************)
Marker(p) == IF p.value # None /\ p.value.is = "call" THEN p.value.function ELSE "none"

\* extract_signature: what is asked for by each parameter that is neither
\* plumbing nor in the route's own path.
AskedBy(p) ==
  LET marker == Marker(p) IN
  CASE marker \in {"Depends", "Security", "Cookie"} -> {}
    [] marker = "Header"                   -> {Asks("header", p.name)}
    [] marker = "Query"                    -> {Asks("query", p.name)}
    [] marker \in {"Body", "Form", "File"} -> {Asks("body", None)}
    [] OTHER -> IF p.kind = "model" THEN {Asks("body", None)}
                ELSE IF p.kind # "bare" \/ p.value # None THEN {Asks("query", p.name)} ELSE {}

WithSignature(route, parameters) ==
  LET read == SelectSeq(parameters, LAMBDA p : p.kind # "plumbing" /\ p.name \notin ToSet(route.path))
      guards == [k \in DOMAIN read |->
                   IF Marker(read[k]) \in {"Depends", "Security"} THEN DependencyAuth(read[k].value)
                                                                  ELSE None]
  IN [route EXCEPT !.asks = UNION {AskedBy(read[k]) : k \in DOMAIN read},
                   !.auth = IF @ = None THEN FirstAuth(guards) ELSE @]

\* extract_decorated: one route for each decorator that registers one.
FastApiDecorated(file, names, s) ==
  LET Registers(d) == d.is = "call" /\ d.object # None
                        /\ (d.function \in DOMAIN Verb \/ d.function \in {"api_route", "route"})
      those == SelectSeq(s.decorators, Registers)
      Fact(d) ==
        LET methods == IF d.function \in DOMAIN Verb THEN <<Verb[d.function]>>
                       ELSE MethodsOrGet(ListedMethods(names, d))
            path == IF d.args = <<>> THEN <<>> ELSE PathValue(names, Head(d.args))
        IN WithSignature([RouteFact(Refer(file, d.object), methods, path)
                            EXCEPT !.group = FirstString(names, d, "tags"),
                                   !.auth = DependenciesAuth(d)],
                         s.handler.parameters)
  IN IF s.is # "def" THEN NoFacts
     ELSE Routes([k \in DOMAIN those |-> Fact(those[k])])

\* extract
FastApi(file) ==
  LET names == FoldedNames(file)
      Of(s) == <<FastApiRouters(file, names, s)>>
               \o LET calls == Calls(s) IN [k \in DOMAIN calls |-> FastApiCall(file, names, calls[k])]
               \o <<FastApiDecorated(file, names, s)>>
  IN Absorbed(<<ImportsOf(file)>> \o FlattenSeq([k \in DOMAIN file.body |-> Of(file.body[k])]))

=============================================================================
