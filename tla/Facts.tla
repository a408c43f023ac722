------------------------------- MODULE Facts --------------------------------
(***************************************************************************)
(* What a framework adapter emits (rl-discovery: facts.rs): routers, the   *)
(* routes on them, the mounts of one on another, and the imports and       *)
(* exports that link them across files, each in the order of the source.   *)
(* Adapters compose no path; the registration graph does.                  *)
(*                                                                         *)
(* A path is a sequence of segments.  A gap is a part that could not be    *)
(* worked out.  Spans, summaries, and the types and defaults of what a     *)
(* route asks for are left out.                                            *)
(***************************************************************************)
EXTENDS Naturals, Sequences, FiniteSets, SequencesExt, FiniteSetsExt

CONSTANTS
  Module, Name,       \* Files and names, numbered as they sort
  default,            \* The name of a module's default export
  rest, gap, param,   \* Segments that are not literal: {*}, {?...} and {}
  Verb,               \* The method that a name such as "get" stands for
  Package,            \* For each file of Go, its directory; None for others
  Parts,              \* For each name, the names it is made of, apart at the dots
  None

\* A symbol, and a use of one: as written in a file, perhaps with a qualifier.
Symbol    == Module \X Name
Reference == [module: Module, qualifier: Name \union {None}, name: Name]

Use(module, name)             == [module |-> module, qualifier |-> None, name |-> name]
UseOf(module, qualifier, name) == [module |-> module, qualifier |-> qualifier, name |-> name]

\* The elements of a finite set, as a relation orders them.
InTurn(S, before) ==
  [k \in 1..Cardinality(S) |->
     CHOOSE x \in S : Cardinality({y \in S : <<y, x>> \in before}) = k - 1]

\* Of what may be None.
Or(value, otherwise) == IF value # None THEN value ELSE otherwise

RouterFact(symbol, prefix, group, root) ==
  [symbol |-> symbol, prefix |-> prefix, group |-> group, root |-> root, implicit |-> FALSE]

RouteFact(router, methods, path) ==
  [router |-> router, methods |-> methods, path |-> path, auth |-> None, group |-> None,
   asks |-> {}, handler |-> None]

MountFact(parent, child, prefix) ==
  [parent |-> parent, child |-> child, prefix |-> prefix, methods |-> {}, auth |-> None,
   group |-> None, replaces |-> FALSE]

\* `of` is the file of this project the import reads, and `nested` the one below
\* it that the imported name itself is, or None.
ImportFact(module, local, of, original, nested) ==
  [module |-> module, local |-> local, of |-> of, original |-> original, nested |-> nested]

ExportFact(module, exported, local) ==
  [module |-> module, exported |-> exported, local |-> local]

\* A function that looks like a handler, for routes that only name theirs.
HandlerFact(module, name, asks, auth, checks) ==
  [module |-> module, name |-> name, asks |-> asks, auth |-> auth, checks |-> checks]

NoFacts == [routers |-> <<>>, routes |-> <<>>, mounts |-> <<>>, imports |-> <<>>, exports |-> <<>>,
            handlers |-> <<>>]

Routers(fs) == [NoFacts EXCEPT !.routers = fs]
Routes(fs)  == [NoFacts EXCEPT !.routes = fs]
Mounts(fs)  == [NoFacts EXCEPT !.mounts = fs]
Imports(fs) == [NoFacts EXCEPT !.imports = fs]
Exports(fs) == [NoFacts EXCEPT !.exports = fs]

\* A sink that was given one batch after another.
Absorbed(batches) ==
  [kind \in DOMAIN NoFacts |-> FlattenSeq([k \in DOMAIN batches |-> batches[k][kind]])]

=============================================================================
