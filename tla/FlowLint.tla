------------------------------ MODULE FlowLint ------------------------------
(***************************************************************************)
(* The static reading of a flow's variables that warns before a run        *)
(* (rl-flow: lint.rs), against what a run does with them.                  *)
(***************************************************************************)
EXTENDS FlowRunner

(***************************************************************************)
(* rl_flow::lint follows the order of the whole document and takes every   *)
(* step before a card to have passed.                                      *)
(***************************************************************************)
\* Mutation: the whole document is in scope, in whatever order.
DocumentScope(n) == Environment \union UNION {Defines(Card(flow, m)) : m \in Nodes \ {n}}

LintScope(n) ==
  Environment \union UNION {Defines(Card(flow, m)) : m \in {o \in Nodes : Rank(o) < Rank(n)}}

\* Mutation: a pair does not see the pairs above it.
UnknownOnItsOwn(n, asserted, declared) ==
  LET card == Card(flow, n) IN
    (card.reads
     \union UNION {card.expects[k].reads : k \in asserted}
     \union UNION {card.pairs[k].reads : k \in declared}) \ LintScope(n)

\* The names a card refers to that lint finds undefined, of its assertions and
\* pairs those given; a pair of a variables block sees the pairs above it.
UnknownAmong(n, asserted, declared) ==
  LET card == Card(flow, n) IN
    ((card.reads \union UNION {card.expects[k].reads : k \in asserted}) \ LintScope(n))
    \union UNION {card.pairs[k].reads \ (LintScope(n) \union DefinedBy(card, k - 1)) :
                    k \in declared}

\* What lint warns about: it reads every assertion and every pair.
Unknown(n) == UnknownAmong(n, DOMAIN Card(flow, n).expects, DOMAIN Card(flow, n).pairs)

\* The warnings about text a run resolves: it never looks at what a unary
\* assertion expects, nor at the value of a pair without a name.
UnknownResolved(n) == UnknownAmong(n, Compared(Card(flow, n)), Declared(Card(flow, n)))

LintClean == \A n \in Nodes : Unknown(n) = {}

Ordered == phase \in {"running", "sending", "finished", "quit"}

Needs(card) == card.reads \union UNION {card.pairs[k].reads : k \in Declared(card)}

\* In a flow lint has nothing to say about, a step that fails for an undefined
\* name is short of one that an earlier step would have set had it been part of
\* the run and passed; never of one nothing before it sets.
CleanFlowsLackOnlyWhatDidNotPass ==
  Ordered /\ LintClean =>
    \A n \in Included : result[n].why = "undefined" =>
      \E m \in Nodes :
        /\ Rank(m) < Rank(n)
        /\ m \in Included => result[m].status # "passed"
        /\ Defines(Card(flow, m)) \intersect Needs(Card(flow, n)) # {}

\* A warning about a name in text the run resolves is never a false alarm: without
\* the variables of an earlier run a step it is about does not pass.
WarnedStepsNeverPass ==
  Ordered /\ run.seed = {} =>
    \A n \in Included : UnknownResolved(n) # {} => result[n].status # "passed"

=============================================================================
