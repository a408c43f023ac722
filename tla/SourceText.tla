----------------------------- MODULE SourceText -----------------------------
(***************************************************************************)
(* Source files as the adapters read them (rl-discovery: index.rs and      *)
(* adapters/): a file is its statements in the order a walk of the syntax  *)
(* tree meets them, whatever they are nested in, and nothing is evaluated. *)
(*                                                                         *)
(* An expression is a literal, a name, an attribute of a name, a string    *)
(* put together from parts, a list, a call, or something else.  A string   *)
(* is a sequence of segments: it matters which name or path it is, not its *)
(* letters.  The name of an HTTP method is numbered as the method.         *)
(***************************************************************************)
EXTENDS Facts

CONSTANTS
  Guards,         \* Names that are taken for authentication
  bearer,         \* What a handler that reads the Authorization header asks for
  authorization,  \* That header's name
  Screaming,      \* Names in capitals, and objects that hold configuration
  Words,          \* Segments of strings that are no path
  Inline          \* For each file, the name that a reference to it where it is
                  \* used goes by: require("./m"), include("m")

Text(text)          == [is |-> "text", text |-> text]
Ident(name)         == [is |-> "name", name |-> name]
Attribute(of, name) == [is |-> "attribute", of |-> of, name |-> name]
Joined(parts)       == [is |-> "joined", parts |-> parts]
List(items)         == [is |-> "list", items |-> items]
Other               == [is |-> "other"]

\* `object` is an expression, or None for a bare function.
Call(object, function, args, keywords) ==
  [is |-> "call", object |-> object, function |-> function, args |-> args, keywords |-> keywords]

Assign(name, value) == [is |-> "assign", name |-> name, value |-> value]
Do(call)            == [is |-> "do", call |-> call]

\* An import: of what another file calls `original`, which may itself be a file
\* (`nested`), or of the file.
From(local, of, original, nested) ==
  [is |-> "from", local |-> local, of |-> of, original |-> original, nested |-> nested]
Import(local, of) == [is |-> "import", local |-> local, of |-> of]

\* `place` is what a file is for, by its path; `mentions` the frameworks whose
\* import is in its text; `at` where it is, when the framework goes by that.
File(language, module, body) ==
  [language |-> language, module |-> module, place |-> "source", at |-> None, mentions |-> {}, body |-> body]

(***************************************************************************)
(* Constants.                                                              *)
(***************************************************************************)
\* string_value: what an expression says, given what names were folded to, or
\* None if it would have to be evaluated.
Value(names, e) ==
  CASE e.is = "text"   -> e.text
    [] e.is = "name"   -> names[e.name]
    [] e.is = "joined" ->
         LET Part(p) == IF p.is = "text" THEN p.text
                        ELSE IF p.is = "name" THEN names[p.name] ELSE None
         IN IF \E k \in DOMAIN e.parts : Part(e.parts[k]) = None THEN None
            ELSE FlattenSeq([k \in DOMAIN e.parts |-> Part(e.parts[k])])
    [] OTHER           -> None

\* Constants::collect: twice through the statements that bind, wherever they
\* are, so that the last one to fold wins; what does not fold leaves the name.
Folded(body, Binds(_)) ==
  LET Fold(names, s) == IF Binds(s) THEN [names EXCEPT ![s.name] = Or(Value(names, s.value), @)] ELSE names
  IN FoldLeft(Fold, FoldLeft(Fold, [n \in Name |-> None], body), body)

\* Mutation: what cannot be worked out is left out.
NothingForAGap(names, e) == IF Value(names, e) = None THEN <<>> ELSE Value(names, e)

\* path_value: what cannot be worked out is a gap.
PathValue(names, e) == Or(Value(names, e), <<gap>>)

(***************************************************************************)
(* Guards, and what a handler asks of a request.                           *)
(***************************************************************************)
\* auth_from_name
AuthFromName(name) == IF name \in Guards THEN name ELSE None

FirstOf(found) == IF found = <<>> THEN None ELSE Head(found)

FirstAuth(auths) == FirstOf(SelectSeq(auths, LAMBDA a : a # None))

Asks(from, name) == [from |-> from, name |-> name]

\* RequestUsage: each query parameter, header and body field a handler reads is
\* one, and what the path has already is none.  An Authorization header read by
\* hand is a guard, unless there is one.
Using(route, reads, inPath) ==
  LET asked == {r \in reads : ~(r.from = "query" /\ r.name \in inPath)}
      byHand == Asks("header", authorization)
  IN [route EXCEPT !.asks = asked \ {byHand},
                   !.auth = IF @ = None /\ byHand \in asked THEN bearer ELSE @]

\* What is said of a method nobody named.
Unspecified == <<Verb["get"], Verb["post"], Verb["put"], Verb["patch"], Verb["delete"]>>

\* Whether a string reads as a path.
Rooted(text) == text = <<>> \/ Head(text) \notin Words

\* A use of what an expression names, from this file.
Refer(file, e) ==
  IF e.is = "attribute" THEN UseOf(file.module, e.of, e.name) ELSE Use(file.module, e.name)

=============================================================================
