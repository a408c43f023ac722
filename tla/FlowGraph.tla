----------------------------- MODULE FlowGraph -----------------------------
(***************************************************************************)
(* A flow document (rl-model, flow.rs): cards and the edges between them.  *)
(*                                                                         *)
(* A card is one record whatever its kind.  Of its templates only the      *)
(* variable names they refer to are kept, since a name being in scope is   *)
(* all that decides whether a card can run:                                *)
(*                                                                         *)
(*   reads    the names a request, a condition or a display block refers   *)
(*            to                                                           *)
(*   expects  the assertions of a request: the names the expected value    *)
(*            refers to, and whether the operator is unary, which leaves   *)
(*            it unread                                                    *)
(*   pairs    what the card puts in scope, in order: the extractions of a  *)
(*            request (which read nothing) or the declarations of a        *)
(*            variables block (each reads the names in its value, and may  *)
(*            have its own name left blank)                                *)
(*                                                                         *)
(* An edge leaves a condition by its "true" or "false" output and any      *)
(* other card by its only one, "none".                                     *)
(***************************************************************************)
EXTENDS Naturals, Sequences, FiniteSets, FiniteSetsExt

CONSTANTS
  NodeId,       \* Ids a card can have
  Name,         \* Variable names a template can refer to
  NoName        \* The name of a declaration left blank

ASSUME NoNameAssumption == NoName \notin Name

Kinds   == {"request", "condition", "variables", "display"}
Handles == {"true", "false", "none"}

Pair == [name: Name \union {NoName}, reads: SUBSET Name]

Assertion == [reads: SUBSET Name, unary: BOOLEAN]

\* What a kind of card does not have is empty in it.
Node ==
  {card \in [id: NodeId, kind: Kinds, reads: SUBSET Name, pairs: Seq(Pair),
             expects: Seq(Assertion)] :
     /\ card.kind = "request" =>
          \A k \in DOMAIN card.pairs : card.pairs[k].reads = {} /\ card.pairs[k].name # NoName
     /\ card.kind # "request" => card.expects = <<>>
     /\ card.kind = "variables" => card.reads = {}
     /\ card.kind \in {"condition", "display"} => card.pairs = <<>>}

Edge == [from: NodeId, to: NodeId, handle: Handles \union {"other"}]

Flow == [nodes: Seq(Node), edges: Seq(Edge)]

(***************************************************************************)
(* Looking things up in a document.                                        *)
(***************************************************************************)
Ids(f) == {f.nodes[i].id : i \in DOMAIN f.nodes}

\* Flow::node returns the first card with the id: its place in the document.
Place(f, n) == Min({i \in DOMAIN f.nodes : f.nodes[i].id = n})

Card(f, n) == f.nodes[Place(f, n)]

\* Flow::upstream: the places, in edge order, of the edges into `n`.
Upstream(f, n) == {k \in DOMAIN f.edges : f.edges[k].to = n}

\* The same dependency drawn twice is one dependency.
Before(f, n) == {f.edges[k].from : k \in Upstream(f, n)}

\* The cards `n` is wired into (`outgoing` in topological_order).
Outgoing(f, n) == {m \in Ids(f) : n \in Before(f, m)}

\* Mutation: any variables block counts as an input.
AnyVariables(f, n) == Card(f, n).kind = "variables"

IsInputBlock(f, n) == Card(f, n).kind = "variables" /\ Upstream(f, n) = {}

\* The pairs that declare something: run_variables passes over a blank name.
Declared(node) == {k \in DOMAIN node.pairs : node.pairs[k].name # NoName}

\* The assertions whose expected value is resolved.
Compared(node) == {k \in DOMAIN node.expects : ~node.expects[k].unary}

\* What a card puts in scope when it passes (lint.rs `defines`).
Defines(node) == {node.pairs[k].name : k \in Declared(node)}

\* The names the first `k` pairs of a card put in scope.
DefinedBy(node, k) == {node.pairs[j].name : j \in {i \in Declared(node) : i <= k}}

(***************************************************************************)
(* Flow::validate, short of the cycle it looks for last: the error it      *)
(* returns, "none" when the document is sound so far.  Edges are checked   *)
(* in document order and the first bad one decides.                        *)
(***************************************************************************)
DuplicateNode(f) ==
  \E i, j \in DOMAIN f.nodes : i # j /\ f.nodes[i].id = f.nodes[j].id

Outputs(node) == IF node.kind = "condition" THEN {"true", "false"} ELSE {"none"}

DanglingEdge(f, e)  == {e.from, e.to} \ Ids(f) # {}
SelfLoop(e)         == e.from = e.to
UnknownHandle(f, e) == e.handle \notin Outputs(Card(f, e.from))

BadEdges(f) ==
  {k \in DOMAIN f.edges : LET e == f.edges[k] IN
     DanglingEdge(f, e) \/ SelfLoop(e) \/ UnknownHandle(f, e)}

EdgeError(f, e) ==
  CASE DanglingEdge(f, e)                     -> "dangling_edge"
    [] ~DanglingEdge(f, e) /\ SelfLoop(e)     -> "self_loop"
    [] ~DanglingEdge(f, e) /\ ~SelfLoop(e)    -> "unknown_handle"

StructureError(f) ==
  IF DuplicateNode(f) THEN "duplicate_node"
  ELSE IF BadEdges(f) # {} THEN EdgeError(f, f.edges[Min(BadEdges(f))])
  ELSE "none"

=============================================================================
