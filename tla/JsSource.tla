------------------------------ MODULE JsSource ------------------------------
(***************************************************************************)
(* JavaScript and TypeScript as the Express and Next.js adapters read them *)
(* (rl-discovery: adapters/js.rs): what binds, what is exported, and what  *)
(* a handler reads off its request.                                        *)
(***************************************************************************)
EXTENDS SourceText

\* Expressions: a function and what it reads, require("./m") and what that
\* exports, a regular expression, and `module.exports = value`.
Function(reads)       == [is |-> "function", reads |-> reads]
Require(of)           == [is |-> "require", of |-> of]
RequireOf(of, name)   == [is |-> "require of", of |-> of, name |-> name]
Regex                 == [is |-> "regex"]
ExportsToo(value)     == [is |-> "exports too", value |-> value]

\* Statements: `const name = value`, and what is exported under which name, in
\* either module system, or passed on from another file.
Const(name, value)          == [is |-> "const", name |-> name, value |-> value]
Exporting(exported, local) == [is |-> "exports", exported |-> exported, local |-> local]
PassesOn(exported, of, original) ==
  [is |-> "passes on", exported |-> exported, of |-> of, original |-> original]

\* Only a declaration binds; an assignment to what is declared does not.
JsNames(file) == Folded(file.body, LAMBDA s : s.is = "const")

\* reference: what an expression names, as used in this file, or None.
Named(file, e) ==
  CASE e.is \in {"name", "attribute"} -> Refer(file, e)
    [] e.is = "require"    -> Use(file.module, Inline[e.of])
    [] e.is = "require of" -> UseOf(file.module, Inline[e.of], e.name)
    [] OTHER               -> None

\* An inline require binds the name it goes by.
Brings(file, e) ==
  IF e.is \in {"require", "require of"}
    THEN Imports(<<ImportFact(file.module, Inline[e.of], e.of, default, None)>>) ELSE NoFacts

\* collect_imports.  What is passed on is imported under its exported name.
JsImports(file) ==
  LET Bound(s) ==
        CASE s.is = "from"      -> <<ImportFact(file.module, s.local, s.of, s.original, None)>>
          [] s.is = "import"    -> <<ImportFact(file.module, s.local, s.of, None, None)>>
          [] s.is = "passes on" -> <<ImportFact(file.module, s.exported, s.of, s.original, None)>>
          [] s.is = "const" /\ s.value.is = "require" ->
               <<ImportFact(file.module, s.name, s.value.of, default, None)>>
          [] s.is = "const" /\ s.value.is = "require of" ->
               <<ImportFact(file.module, s.name, s.value.of, s.value.name, None)>>
          [] OTHER -> <<>>
  IN FlattenSeq([k \in DOMAIN file.body |-> Bound(file.body[k])])

\* collect_exports
JsExports(file) ==
  LET Given(s) ==
        CASE s.is = "exports"   -> <<ExportFact(file.module, s.exported, s.local)>>
          [] s.is = "passes on" -> <<ExportFact(file.module, s.exported, s.exported)>>
          [] OTHER -> <<>>
  IN FlattenSeq([k \in DOMAIN file.body |-> Given(file.body[k])])

\* top_level_function: what the first function of that name reads, or None.
ReadsOfFunction(file, name) ==
  LET those == SelectSeq(file.body, LAMBDA s :
                 s.is = "const" /\ s.name = name /\ s.value.is = "function")
  IN IF those = <<>> THEN None ELSE Head(those).value.reads

=============================================================================
