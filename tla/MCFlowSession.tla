---------------------------- MODULE MCFlowSession ----------------------------
(***************************************************************************)
(* A tab that runs one of four small documents again and again.           *)
(***************************************************************************)
EXTENDS FlowSession

CONSTANTS a, b, c, d, x, y

MCNodeId == {a, b, c, d}
MCName   == {x, y}

Card0(id, kind, reads, pairs) ==
  [id |-> id, kind |-> kind, reads |-> reads, pairs |-> pairs, expects |-> <<>>]
Sets(name, reads) == [name |-> name, reads |-> reads]
W(f, out, t) == [from |-> f, to |-> t, handle |-> out]

\* An input block, a step that extracts a name, one that reads both behind it,
\* and a card on its own.
Session1 ==
  [nodes |-> <<Card0(a, "request", {x}, <<Sets(y, {})>>),
               Card0(b, "display", {x, y}, <<>>),
               Card0(c, "display", {}, <<>>),
               Card0(d, "variables", {}, <<Sets(x, {})>>)>>,
   edges |-> <<W(a, "none", b)>>]

\* A condition with an arm that extracts, a step behind both, and one behind
\* that, which a failure reaches through a skipped step.
Session2 ==
  [nodes |-> <<Card0(a, "condition", {}, <<>>),
               Card0(b, "request", {}, <<Sets(x, {})>>),
               Card0(c, "display", {x}, <<>>),
               Card0(d, "display", {}, <<>>)>>,
   edges |-> <<W(a, "true", b), W(b, "none", c), W(a, "false", c), W(c, "none", d)>>]

\* A document that is refused.
Session3 ==
  [nodes |-> <<Card0(a, "display", {}, <<>>), Card0(b, "display", {}, <<>>)>>,
   edges |-> <<W(a, "none", b), W(b, "none", a)>>]

\* A block that may fail at its first declaration and would at its second.
Session4 ==
  [nodes |-> <<Card0(a, "variables", {}, <<Sets(x, {})>>),
               Card0(b, "variables", {}, <<Sets(x, {x}), Sets(y, {y})>>)>>,
   edges |-> <<>>]

MCRuns == [flow: {Session1, Session2, Session3, Session4}, only: {MCNodeId}, seed: {{}}]

=============================================================================
