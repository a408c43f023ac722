---------------------------- MODULE PythonSource ----------------------------
(***************************************************************************)
(* Python as the FastAPI, Flask and Django adapters read it (rl-discovery: *)
(* adapters/python.rs).                                                    *)
(***************************************************************************)
EXTENDS SourceText

\* A handler says what its parameters are and what it reads of the request; a
\* class, which methods it serves.
Def(name, decorators, handler) ==
  [is |-> "def", name |-> name, decorators |-> decorators, handler |-> handler]
Class(name, decorators, members) ==
  [is |-> "class", name |-> name, decorators |-> decorators, members |-> members]

\* Every assignment binds, in whatever function or branch it is.
FoldedNames(file) == Folded(file.body, LAMBDA s : s.is = "assign")

(***************************************************************************)
(* Calls.                                                                  *)
(***************************************************************************)
\* The calls of a statement, decorators apart.
Calls(s) ==
  IF s.is = "do" THEN <<s.call>>
  ELSE IF s.is = "assign" /\ s.value.is = "call" THEN <<s.value>> ELSE <<>>

Has(call, keyword) == keyword \in DOMAIN call.keywords

PathKeyword(names, call, keyword) ==
  IF Has(call, keyword) THEN PathValue(names, call.keywords[keyword]) ELSE <<>>

\* list_strings: the strings of a list, or the one string there is.
Strings(names, e) ==
  LET items == IF e.is = "list" THEN e.items ELSE <<e>>
      values == [k \in DOMAIN items |-> Value(names, items[k])]
  IN SelectSeq(values, LAMBDA v : v # None)

\* first_list_string
FirstString(names, call, keyword) ==
  IF ~Has(call, keyword) \/ Strings(names, call.keywords[keyword]) = <<>> THEN None
  ELSE Head(Strings(names, call.keywords[keyword]))

\* methods=[...]; each string names one.
ListedMethods(names, call) ==
  IF Has(call, "methods")
    THEN LET said == Strings(names, call.keywords["methods"]) IN [k \in DOMAIN said |-> Head(said[k])]
    ELSE <<>>

MethodsOrGet(methods) == IF methods = <<>> THEN <<Verb["get"]>> ELSE methods

\* collect_imports.  `import users` binds the module itself.
ImportsOf(file) ==
  LET Fact(s) == IF s.is = "from" THEN ImportFact(file.module, s.local, s.of, s.original, s.nested)
                                  ELSE ImportFact(file.module, s.local, s.of, None, None)
      those == SelectSeq(file.body, LAMBDA s : s.is \in {"from", "import"})
  IN Imports([k \in DOMAIN those |-> Fact(those[k])])

=============================================================================
