---------------------------- MODULE MCFlowRunner ----------------------------
(***************************************************************************)
(* The documents flows are checked on: small ones of the shapes the gate   *)
(* and the scope tell apart.                                               *)
(***************************************************************************)
EXTENDS FlowLint

CONSTANTS a, b, c, d, x, y, env

MCNodeId == {a, b, c, d}
MCName   == {x, y, env}

CardOf(id, kind, reads, pairs, expects) ==
  [id |-> id, kind |-> kind, reads |-> reads, pairs |-> pairs, expects |-> expects]

Extract(name)        == [name |-> name, reads |-> {}]
Declare(name, reads) == [name |-> name, reads |-> reads]
Compare(reads)       == [reads |-> reads, unary |-> FALSE]
Exists(reads)        == [reads |-> reads, unary |-> TRUE]

Request(id, reads, names) ==
  CardOf(id, "request", reads, [i \in DOMAIN names |-> Extract(names[i])], <<Compare({})>>)
Checked(id, reads, expects) == CardOf(id, "request", reads, <<>>, expects)
Condition(id, reads)        == CardOf(id, "condition", reads, <<>>, <<>>)
Inputs(id, pairs)           == CardOf(id, "variables", {}, pairs, <<>>)
Display(id, reads)          == CardOf(id, "display", reads, <<>>, <<>>)

Wire(f, t)     == [from |-> f, to |-> t, handle |-> "none"]
Via(f, out, t) == [from |-> f, to |-> t, handle |-> out]

Doc(nodes, edges) == [nodes |-> nodes, edges |-> edges]

\* A login whose token two later steps read, the second through the first.
Chain == Doc(<<Request(a, {env}, <<x>>), Request(b, {x}, <<y>>), Display(c, {x, y})>>,
             <<Wire(a, b), Wire(b, c)>>)

\* Both outputs of a condition rejoin behind the steps they lead to; only one
\* of those sets the name the last step reads.
Rejoin == Doc(<<Condition(a, {env}), Request(b, {}, <<x>>), Request(c, {}, <<>>),
                Request(d, {x}, <<>>)>>,
              <<Via(a, "true", b), Via(a, "false", c), Wire(b, d), Wire(c, d)>>)

\* Two steps feed a third that a fourth follows; one of them is a condition
\* wired straight to the third as well.
FanIn == Doc(<<Request(a, {}, <<x>>), Condition(b, {}), Request(c, {env}, <<x>>),
               Display(d, {x})>>,
             <<Via(b, "false", c), Wire(a, c), Wire(c, d), Via(b, "true", d)>>)

\* Conditions in a row: what is skipped behind the first is skipped on.
Nested == Doc(<<Condition(a, {}), Condition(b, {x}), Request(c, {}, <<>>), Display(d, {})>>,
              <<Via(a, "true", b), Via(b, "true", c), Via(b, "false", d), Wire(c, d)>>)

\* An input block added last, a variables block that is not one, a card on its
\* own, and a later declaration of the same name.
Blocks == Doc(<<Request(a, {x}, <<y>>),
                Inputs(b, <<Declare(y, {y}), Declare(x, {y})>>),
                Checked(c, {y}, <<Compare({}), Compare({x})>>),
                Inputs(d, <<Declare(x, {env}), Declare(y, {x})>>)>>,
              <<Wire(a, b), Wire(b, c), Wire(b, c)>>)

\* Two failures can meet: the steps are independent until the last.
TwoRoots == Doc(<<Request(d, {}, <<>>), Request(c, {}, <<x>>), Request(b, {}, <<x, y>>),
                  Display(a, {y})>>,
                <<Wire(b, a), Wire(d, a), Wire(c, a)>>)

\* Text no run resolves, about names nothing sets: what a unary assertion expects,
\* beside one that is compared, and the value of a declaration without a name.
Unread == Doc(<<Checked(a, {}, <<Exists({y})>>),
                Inputs(b, <<Declare(NoName, {y}), Declare(x, {env})>>),
                Checked(c, {}, <<Exists({y}), Compare({x})>>),
                Inputs(d, <<Declare(x, {}), Declare(NoName, {y}), Declare(env, {y})>>)>>,
              <<Wire(a, c)>>)

Empty == Doc(<<>>, <<>>)

(***************************************************************************)
(* Documents told apart by their wiring alone: cards that read and declare *)
(* nothing, of which each has one outcome.                                 *)
(***************************************************************************)
Bare(id, kind) == CardOf(id, kind, {}, <<>>, <<>>)

Cards(kinds) == <<Bare(a, kinds[1]), Bare(b, kinds[2]), Bare(c, kinds[3])>>

\* Every document of three cards and at most three edges.
Sound == [nodes: {Cards(k) : k \in [1..3 -> {"display", "variables"}]},
          edges: UNION {[1..n -> [from: {a, b, c}, to: {a, b, c}, handle: {"none"}]] :
                          n \in 0..3}]

\* Documents only a hand or an agent would write: an id used twice, an edge to
\* a card that is not there, an output the card does not have, each before or
\* after a sound edge.
Odd == [nodes: {Cards(<<"condition", "display", "display">>),
                <<Bare(a, "condition"), Bare(b, "display"), Bare(b, "display")>>},
        edges: UNION {[1..n -> [from: {a, b, d}, to: {b, d},
                                handle: {"none", "true", "other"}]] : n \in 0..2}]

(***************************************************************************)
(* Documents for the static readings: three cards that read and set two    *)
(* names in every way, wired in a chain, not at all, or behind a condition *)
(* whose outputs rejoin.                                                   *)
(***************************************************************************)
Extracting(id, reads, names, expects) ==
  CardOf(id, "request", reads, [i \in DOMAIN names |-> Extract(names[i])], <<Compare(expects)>>)

SomeRequests(id) ==
  {Extracting(id, r, n, e) : r \in {{}, {x}}, n \in {<<x>>, <<x, y>>}, e \in {{}, {y}}}
SomeInputs(id) ==
  {Inputs(id, <<Declare(x, r)>>) : r \in {{}, {y}}}
  \union {Inputs(id, <<Declare(y, {}), Declare(x, {y})>>)}

Straight ==
  [nodes: {<<p, q, r>> : p \in SomeRequests(a),
                         q \in SomeInputs(b),
                         r \in {Request(c, {x, y}, <<>>), Extracting(c, {x}, <<y>>, {x})}},
   edges: {<<>>, <<Wire(a, b)>>, <<Wire(c, a)>>, <<Wire(b, a), Wire(a, c)>>}]

Branching ==
  [nodes: {<<Condition(a, {}), q, Request(c, {}, <<y>>), Checked(d, {x}, <<Compare({y})>>)>> :
             q \in SomeRequests(b)},
   edges: {<<Via(a, "true", b), Via(a, "false", c), Wire(b, d), Wire(c, d)>>,
           <<Via(a, "true", d), Wire(b, c), Wire(c, d)>>}]

Whole(f) == [flow |-> f, only |-> MCNodeId, seed |-> {}]

Documents == {Chain, Rejoin, FanIn, Nested, Blocks, TwoRoots, Unread, Empty}

\* Every document whole, and narrowed to any two of its steps or to one, with
\* the names an earlier run may have left.
MCRuns ==
  {Whole(f) : f \in Documents}
  \union [flow: Documents,
          only: {S \in SUBSET MCNodeId : Cardinality(S) \in 1..2},
          seed: {{}, {x}}]
  \union {Whole(f) : f \in Sound \union Odd}
  \union [flow: Straight \union Branching, only: {MCNodeId, {b, d}}, seed: {{}, {y}}]

=============================================================================
