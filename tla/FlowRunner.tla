----------------------------- MODULE FlowRunner ----------------------------
(***************************************************************************)
(* One run of a flow: rl_flow::run_with, the order it runs in              *)
(* (rl_model::Flow::execution_order), and the history rows                 *)
(* rl_core::PreparedFlow::run writes as steps finish.                      *)
(*                                                                         *)
(* A run is a record [flow, only, seed]: the document, the cards the run   *)
(* is narrowed to (every id when it is not) and the names a previous run   *)
(* left values for.  The value of a variable is abstracted to who gave it  *)
(* that value.  What a server answers, and what a template expands to, is  *)
(* the environment's choice.                                               *)
(***************************************************************************)
EXTENDS FlowGraph

CONSTANTS
  Runs,           \* The runs that can be asked for
  Environment,    \* Names the environment, the globals or the secrets define
  NoNode,         \* "No card"
  Unset, Seeded,  \* What a variable holds: nothing, or the seed's value
  Recordings      \* What History::record can do: TRUE, it kept the row

RunAsked == [flow: Flow, only: SUBSET NodeId, seed: SUBSET Name]

ASSUME RunsAssumption == Runs \subseteq RunAsked
ASSUME NamesAssumption == Environment \subseteq Name
ASSUME ValuesAssumption ==
  NoNode \notin NodeId /\ Unset \notin NodeId /\ Seeded \notin NodeId /\ Unset # Seeded
ASSUME RecordingsAssumption == Recordings \subseteq BOOLEAN /\ Recordings # {}

VARIABLES
  run,        \* The run asked for
  phase,      \* How far it is
  verdict,    \* Why the flow was refused, "none" while it is not
  indegree,   \* topological_order: dependencies not yet placed, per card
  ready,      \* topological_order: cards that could go next
  order,      \* topological_order: cards placed so far
  result,     \* NodeResult of each card, Pending before it has one
  variables,  \* Who gave each variable its value
  current,    \* The request being answered
  events,     \* FlowEvents the front end was sent
  sent,       \* Requests handed to the Sender, in order
  history     \* Requests recorded in history, in order

orderVars == <<indegree, ready, order>>
runVars   == <<result, variables, current, events, sent, history>>
vars      == <<run, phase, verdict, orderVars, runVars>>

flow  == run.flow
Nodes == Ids(flow)
EdgeAt(k) == flow.edges[k]

(***************************************************************************)
(* Results.                                                                *)
(***************************************************************************)
FailureKinds == {"undefined", "resolve", "transport", "extraction", "assertions"}
SkipKinds    == {"upstream_failed", "branch_not_taken"}

Result ==
  [status: {"pending", "passed", "failed", "skipped"},
   why: {"none"} \union FailureKinds \union SkipKinds,
   blame: NodeId \union {NoNode},
   handle: Handles \union {"other"},
   branch: Handles,
   extracted: SUBSET Name]

Pending ==
  [status |-> "pending", why |-> "none", blame |-> NoNode, handle |-> "none",
   branch |-> "none", extracted |-> {}]

Passed(branch, names) ==
  [Pending EXCEPT !.status = "passed", !.branch = branch, !.extracted = names]

Failed(why, names) ==
  [Pending EXCEPT !.status = "failed", !.why = why, !.extracted = names]

Skipped(why, blame, handle) ==
  [Pending EXCEPT !.status = "skipped", !.why = why, !.blame = blame, !.handle = handle]

(***************************************************************************)
(* The steps of this run and the order they are taken in: the placed cards *)
(* with the input blocks moved to the front (execution_order's partition), *)
(* narrowed to `only`.  The loop takes the least-ranked step left.         *)
(***************************************************************************)
Included == Nodes \intersect run.only

Position(n) == CHOOSE i \in DOMAIN order : order[i] = n

Rank(n) == IF IsInputBlock(flow, n) THEN Position(n) ELSE Len(order) + Position(n)

Left == {n \in Included : result[n] = Pending}

IsNext(n) ==
  /\ phase = "running"
  /\ n \in Left
  /\ \A m \in Left : Rank(n) <= Rank(m)

(***************************************************************************)
(* The gate: what each edge into a step says about it.  An edge is dead    *)
(* when the step behind it failed or was skipped for a failure, inactive   *)
(* when a condition sent the run the other way, and live otherwise.        *)
(***************************************************************************)
UntakenOutput(e) ==
  /\ result[e.from].status = "passed"
  /\ result[e.from].branch # "none"
  /\ e.handle # "none"
  /\ result[e.from].branch # e.handle

\* Mutation: only a failure right behind the edge counts.
DeadNearby(e) == e.from \in Included /\ result[e.from].status = "failed"

Dead(e) ==
  /\ e.from \in Included
  /\ result[e.from].status = "failed" \/ result[e.from].why = "upstream_failed"

Inactive(e) ==
  /\ e.from \in Included
  /\ result[e.from].why = "branch_not_taken" \/ UntakenOutput(e)

\* Mutation: a step outside the run holds up what it feeds.
LiveInside(e) ==
  e.from \in Included /\ result[e.from].status = "passed" /\ ~UntakenOutput(e)

Live(e) ==
  \/ e.from \notin Included
  \/ result[e.from].status = "passed" /\ ~UntakenOutput(e)

DeadInto(n)     == {k \in Upstream(flow, n) : Dead(EdgeAt(k))}
InactiveInto(n) == {k \in Upstream(flow, n) : Inactive(EdgeAt(k))}
LiveInto(n)     == {k \in Upstream(flow, n) : Live(EdgeAt(k))}

\* Mutation: every edge has to be live.
MayRunWhenAllLive(n) == LiveInto(n) = Upstream(flow, n)

MayRun(n) ==
  /\ DeadInto(n) = {}
  /\ Upstream(flow, n) = {} \/ LiveInto(n) # {}

\* Mutation: the nearest step is blamed.
NearestCulprit(e) == e.from

\* The step a dead edge blames: the one that failed, however far up it is.
Culprit(e) ==
  IF result[e.from].status = "failed" THEN e.from ELSE result[e.from].blame

\* The condition and the output an inactive edge waits for.
UntakenBranch(e) ==
  IF result[e.from].status = "skipped"
    THEN Skipped("branch_not_taken", result[e.from].blame, result[e.from].handle)
    ELSE Skipped("branch_not_taken", e.from, e.handle)

(***************************************************************************)
(* Scope.                                                                  *)
(***************************************************************************)
Defined == Environment \union {x \in Name : variables[x] # Unset}

\* What running a card that sends nothing can come to.  Expanding a template
\* can fail even when every name in it is defined: a value can refer to an
\* undefined name, to itself, or nest too deep.
TextOutcomes(node, passes) ==
  IF node.reads \ Defined # {} THEN {Failed("undefined", {})}
  ELSE passes \union (IF node.reads = {} THEN {} ELSE {Failed("resolve", {})})

\* A pair of a variables block also sees the pairs above it; one without a name
\* is not resolved.
PairUndefined(node, k) ==
  k \in Declared(node) /\ node.pairs[k].reads \ (Defined \union DefinedBy(node, k - 1)) # {}

FirstUndefined(node) == {k \in Declared(node) :
  PairUndefined(node, k) /\ \A j \in 1..(k - 1) : ~PairUndefined(node, j)}

Unresolved(node) == {k \in Declared(node) :
  node.pairs[k].reads # {} /\ \A j \in 1..k : ~PairUndefined(node, j)}

DeclarationOutcomes(node) ==
  {Failed("undefined", DefinedBy(node, k - 1)) : k \in FirstUndefined(node)}
  \union {Failed("resolve", DefinedBy(node, k - 1)) : k \in Unresolved(node)}
  \union (IF FirstUndefined(node) = {} THEN {Passed("none", Defines(node))} ELSE {})

LocalOutcomes(node) ==
  CASE node.kind = "condition" ->
         TextOutcomes(node, {Passed("true", {}), Passed("false", {})})
    [] node.kind = "display"   -> TextOutcomes(node, {Passed("none", {})})
    [] node.kind = "variables" -> DeclarationOutcomes(node)

\* What an answered request can come to: some extractions find nothing, which
\* is reported rather than a failed assertion; an assertion does not hold, as
\* one never does whose expectation is compared and cannot be expanded; or all
\* is well.
AnswerOutcomes(node) ==
  {Failed("extraction", {node.pairs[k].name : k \in found}) :
     found \in SUBSET Declared(node) \ {Declared(node)}}
  \union (IF node.expects = <<>> THEN {} ELSE {Failed("assertions", Defines(node))})
  \union (IF \A k \in Compared(node) : node.expects[k].reads \subseteq Defined
            THEN {Passed("none", Defines(node))} ELSE {})

(***************************************************************************)
(* Checking the document and ordering it.                                  *)
(***************************************************************************)
Refuse(error) ==
  /\ phase' = "refused"
  /\ verdict' = error
  /\ UNCHANGED <<run, orderVars, runVars>>

\* Mutation: a dependency drawn twice is counted twice.
ValidateEveryEdge ==
  /\ phase = "new"
  /\ IF StructureError(flow) # "none"
       THEN Refuse(StructureError(flow))
       ELSE /\ phase' = "ordering"
            /\ indegree' = [n \in Nodes |-> Cardinality(Upstream(flow, n))]
            /\ ready' = {n \in Nodes : Upstream(flow, n) = {}}
            /\ order' = <<>>
            /\ UNCHANGED <<run, verdict, runVars>>

Validate ==
  /\ phase = "new"
  /\ IF StructureError(flow) # "none"
       THEN Refuse(StructureError(flow))
       ELSE /\ phase' = "ordering"
            /\ indegree' = [n \in Nodes |-> Cardinality(Before(flow, n))]
            /\ ready' = {n \in Nodes : Before(flow, n) = {}}
            /\ order' = <<>>
            /\ UNCHANGED <<run, verdict, runVars>>

\* Mutation: any ready card is placed.
PlaceAny(n) ==
  /\ phase = "ordering"
  /\ n \in ready
  /\ order' = Append(order, n)
  /\ indegree' = [m \in Nodes |->
                    IF m \in Outgoing(flow, n) THEN indegree[m] - 1 ELSE indegree[m]]
  /\ ready' = (ready \ {n}) \union {m \in Outgoing(flow, n) : indegree[m] = 1}
  /\ UNCHANGED <<run, phase, verdict, runVars>>

\* Mutation: a counter drops once for every edge drawn.
PlacePerEdge(n) ==
  /\ phase = "ordering"
  /\ n \in ready
  /\ \A m \in ready : Place(flow, n) <= Place(flow, m)
  /\ order' = Append(order, n)
  /\ indegree' = [m \in Nodes |-> indegree[m] -
                    Cardinality({k \in Upstream(flow, m) : EdgeAt(k).from = n})]
  /\ ready' = (ready \ {n}) \union {m \in Outgoing(flow, n) : indegree'[m] <= 0}
  /\ UNCHANGED <<run, phase, verdict, runVars>>

\* One turn of Kahn's loop: place the ready card that comes first in the
\* document, and release the cards that waited for nothing else.
PlaceNext(n) ==
  /\ phase = "ordering"
  /\ n \in ready
  /\ \A m \in ready : Place(flow, n) <= Place(flow, m)
  /\ order' = Append(order, n)
  /\ indegree' = [m \in Nodes |->
                    IF m \in Outgoing(flow, n) THEN indegree[m] - 1 ELSE indegree[m]]
  /\ ready' = (ready \ {n}) \union {m \in Outgoing(flow, n) : indegree[m] = 1}
  /\ UNCHANGED <<run, phase, verdict, runVars>>

\* Cards are left over when they wait for each other.
Stuck == {n \in Nodes : \A i \in DOMAIN order : order[i] # n}

\* Mutation: a narrowed run starts from nothing.
StartUnseeded ==
  /\ phase = "ordering"
  /\ ready = {}
  /\ IF Stuck # {}
       THEN Refuse("cycle")
       ELSE /\ phase' = "running"
            /\ events' = <<[event |-> "started", node |-> NoNode]>>
            /\ UNCHANGED <<run, verdict, orderVars, result, variables, current, sent, history>>

Start ==
  /\ phase = "ordering"
  /\ ready = {}
  /\ IF Stuck # {}
       THEN Refuse("cycle")
       ELSE /\ phase' = "running"
            /\ variables' = [x \in Name |-> IF x \in run.seed THEN Seeded ELSE Unset]
            /\ events' = <<[event |-> "started", node |-> NoNode]>>
            /\ UNCHANGED <<run, verdict, orderVars, result, current, sent, history>>

(***************************************************************************)
(* Taking a step.                                                          *)
(***************************************************************************)
NodeStarted(n)  == [event |-> "node_started", node |-> n]
NodeFinished(n) == [event |-> "node_finished", node |-> n]

\* The end of the loop's body: what a step extracted is committed only when
\* it passed, the front end is told, the result is kept.
Decide(n, r) ==
  /\ result' = [result EXCEPT ![n] = r]
  /\ variables' = [x \in Name |->
       IF r.status = "passed" /\ x \in r.extracted THEN n ELSE variables[x]]

SkipAfterFailure(n) ==
  /\ IsNext(n)
  /\ DeadInto(n) # {}
  /\ Decide(n, Skipped("upstream_failed", Culprit(EdgeAt(Min(DeadInto(n)))), "none"))
  /\ events' = Append(events, NodeFinished(n))
  /\ UNCHANGED <<run, phase, verdict, orderVars, current, sent, history>>

SkipUntaken(n) ==
  /\ IsNext(n)
  /\ DeadInto(n) = {}
  /\ ~MayRun(n)
  /\ Decide(n, IF InactiveInto(n) # {}
                 THEN UntakenBranch(EdgeAt(Min(InactiveInto(n))))
                 ELSE Skipped("branch_not_taken", n, "none"))
  /\ events' = Append(events, NodeFinished(n))
  /\ UNCHANGED <<run, phase, verdict, orderVars, current, sent, history>>

RunLocal(n) ==
  /\ IsNext(n)
  /\ MayRun(n)
  /\ Card(flow, n).kind # "request"
  /\ \E r \in LocalOutcomes(Card(flow, n)) : Decide(n, r)
  /\ events' = events \o <<NodeStarted(n), NodeFinished(n)>>
  /\ UNCHANGED <<run, phase, verdict, orderVars, current, sent, history>>

\* A request that cannot be resolved fails before anything is sent.
FailBeforeSending(n) ==
  /\ IsNext(n)
  /\ MayRun(n)
  /\ Card(flow, n).kind = "request"
  /\ \E why \in {"undefined", "resolve"} :
       /\ why = "undefined" <=> Card(flow, n).reads \ Defined # {}
       /\ Decide(n, Failed(why, {}))
  /\ events' = events \o <<NodeStarted(n), NodeFinished(n)>>
  /\ UNCHANGED <<run, phase, verdict, orderVars, current, sent, history>>

Send(n) ==
  /\ IsNext(n)
  /\ MayRun(n)
  /\ Card(flow, n).kind = "request"
  /\ Card(flow, n).reads \subseteq Defined
  /\ phase' = "sending"
  /\ current' = n
  /\ sent' = Append(sent, n)
  /\ events' = Append(events, NodeStarted(n))
  /\ UNCHANGED <<run, verdict, orderVars, result, variables, history>>

\* Mutation: a request that got no answer is not recorded.
AnswerOrForget ==
  /\ phase = "sending"
  /\ phase' = "running"
  /\ \E r \in {Failed("transport", {})} \union AnswerOutcomes(Card(flow, current)) :
       /\ Decide(current, r)
       /\ history' = IF r.why = "transport" THEN history ELSE Append(history, current)
  /\ events' = Append(events, NodeFinished(current))
  /\ current' = NoNode
  /\ UNCHANGED <<run, verdict, orderVars, sent>>

\* The answer, or the failure to get one.  PreparedFlow::run records the row
\* as the step finishes and ignores a store that cannot take it.
Answer ==
  /\ phase = "sending"
  /\ phase' = "running"
  /\ \E r \in {Failed("transport", {})} \union AnswerOutcomes(Card(flow, current)) :
       Decide(current, r)
  /\ events' = Append(events, NodeFinished(current))
  /\ \E kept \in Recordings :
       history' = IF kept THEN Append(history, current) ELSE history
  /\ current' = NoNode
  /\ UNCHANGED <<run, verdict, orderVars, sent>>

Finish ==
  /\ phase = "running"
  /\ Left = {}
  /\ phase' = "finished"
  /\ events' = Append(events, [event |-> "finished", node |-> NoNode])
  /\ UNCHANGED <<run, verdict, orderVars, result, variables, current, sent, history>>

\* The application is closed: the run's future is dropped wherever it waits.
Quit ==
  /\ phase \in {"running", "sending"}
  /\ phase' = "quit"
  /\ UNCHANGED <<run, verdict, orderVars, runVars>>

----------------------------------------------------------------------------
Init ==
  /\ run \in Runs
  /\ phase = "new"
  /\ verdict = "none"
  /\ indegree = [n \in {} |-> 0]
  /\ ready = {}
  /\ order = <<>>
  /\ result = [n \in NodeId |-> Pending]
  /\ variables = [x \in Name |-> Unset]
  /\ current = NoNode
  /\ events = <<>>
  /\ sent = <<>>
  /\ history = <<>>

Step(n) ==
  \/ SkipAfterFailure(n) \/ SkipUntaken(n)
  \/ RunLocal(n) \/ FailBeforeSending(n) \/ Send(n)

Progress ==
  \/ Validate \/ (\E n \in NodeId : PlaceNext(n)) \/ Start
  \/ (\E n \in NodeId : Step(n)) \/ Answer \/ Finish

Next == Progress \/ Quit

Spec == Init /\ [][Next]_vars

----------------------------------------------------------------------------
(***************************************************************************)
(* What a run promises.                                                    *)
(***************************************************************************)
Executed(n) == result[n].status \in {"passed", "failed"} \/ current = n
Decided(n)  == result[n] # Pending

\* The steps of this run wired behind some of `from`, however far.
Behind(from) ==
  {n \in Included : \A S \in SUBSET Included :
     (\A k \in DOMAIN flow.edges :
        /\ EdgeAt(k).to \in Included
        /\ EdgeAt(k).from \in (from \union S) \intersect Included
        => EdgeAt(k).to \in S)
     => n \in S}

\* Every variable holds its declared shape.
TypeOK ==
  /\ run \in RunAsked
  /\ phase \in {"new", "ordering", "running", "sending", "finished", "refused", "quit"}
  /\ verdict \in {"none", "duplicate_node", "dangling_edge", "self_loop",
                  "unknown_handle", "cycle"}
  /\ ready \subseteq Nodes
  /\ order \in Seq(Nodes)
  /\ phase \notin {"new", "refused"} => indegree \in [Nodes -> Nat]
  /\ result \in [NodeId -> Result]
  /\ variables \in [Name -> NodeId \union {Unset, Seeded}]
  /\ current \in NodeId \union {NoNode}
  /\ events \in Seq([event: {"started", "node_started", "node_finished", "finished"},
                     node: NodeId \union {NoNode}])
  /\ sent \in Seq(NodeId)
  /\ history \in Seq(NodeId)

\* A step is taken up only once every step of this run wired into it has an
\* outcome, input blocks moved to the front included: what the gate calls
\* impossible (an upstream step with no result) never happens.
StepsFollowWhatFeedsThem ==
  \A k \in DOMAIN flow.edges :
    LET e == EdgeAt(k) IN
      e.from \in Included /\ e.to \in Included /\ (Decided(e.to) \/ current = e.to)
      => Decided(e.from)

\* Nothing behind a failed step is ever run, however many skipped steps and
\* rejoining branches lie between: it is left waiting or skipped for a failure.
NothingRunsBehindAFailure ==
  \A n \in Behind({f \in Included : result[f].status = "failed"}) :
    current # n /\ (Decided(n) => result[n].why = "upstream_failed")

\* What a skipped step shows as the reason is the reason, however many skipped
\* steps lie between: a failure it names is a step that failed and that it is
\* wired behind, a branch it names is a condition that took the other output.
SkipsNameTheirCause ==
  \A n \in Included :
    LET cause == result[n].blame IN
      /\ result[n].why = "upstream_failed" =>
           /\ cause \in Included /\ n \in Behind({cause})
           /\ result[cause].status = "failed"
      /\ result[n].why = "branch_not_taken" =>
           /\ cause \in Included /\ n \in Behind({cause})
           /\ Card(flow, cause).kind = "condition"
           /\ result[cause].status = "passed"
           /\ {result[n].handle, result[cause].branch} = {"true", "false"}

\* A finished run ran exactly what it could reach: the steps nothing feeds or
\* that something outside the run feeds, then whatever a passed step's taken
\* outputs lead to, except what lies behind a failure.
Entry(n) ==
  Upstream(flow, n) = {} \/ \E k \in Upstream(flow, n) : EdgeAt(k).from \notin Included

RanExactlyWhatItReached ==
  phase = "finished" =>
    LET failed    == {f \in Included : result[f].status = "failed"}
        leads(m, n) == \E k \in Upstream(flow, n) :
                         /\ EdgeAt(k).from = m
                         /\ result[m].status = "passed"
                         /\ Card(flow, m).kind = "condition"
                              => EdgeAt(k).handle = result[m].branch
        runs(S)   == {n \in Included \ Behind(failed) :
                        Entry(n) \/ \E m \in S : leads(m, n)}
        reached   == {n \in Included : \A S \in SUBSET Included :
                        runs(S) \subseteq S => n \in S}
    IN {n \in Included : Executed(n)} = reached

\* What a failed step extracted never reaches a later one, and a passed step's
\* values are never lost: a name is set exactly when the seed or a passed step
\* set it.
ScopeIsWhatPassed ==
  phase \in {"running", "sending", "finished"} =>
    \A x \in Name :
      variables[x] # Unset <=>
        \/ x \in run.seed
        \/ \E n \in Included : result[n].status = "passed" /\ x \in result[n].extracted

\* With a history store that works, history is the requests handed to the
\* sender, in order and once each; a run that is cut off misses at most the one
\* still unanswered.
HistoryIsWhatWasSent ==
  Recordings = {TRUE} =>
    sent = history \o (IF current = NoNode THEN <<>> ELSE <<current>>)

----------------------------------------------------------------------------
(***************************************************************************)
(* What the order promises.                                                *)
(***************************************************************************)
DependsOn == {<<f.from, f.to>> : f \in {EdgeAt(k) : k \in DOMAIN flow.edges}}

\* Everything wired behind a set of cards, the run's narrowing aside.
Beyond(from) ==
  {n \in Nodes : \A S \in SUBSET Nodes :
     (\A d \in DependsOn : d[1] \in from \union S => d[2] \in S) => n \in S}

Cyclic == {n \in Nodes : n \in Beyond({n})}

\* What makes a document one that cannot run: two cards with one id, an edge to
\* nowhere or from an output that is not there, or a cycle.
Unrunnable ==
  \/ Cardinality(Nodes) < Len(flow.nodes)
  \/ \E k \in DOMAIN flow.edges :
       \/ {EdgeAt(k).from, EdgeAt(k).to} \ Nodes # {}
       \/ EdgeAt(k).handle \notin Outputs(Card(flow, EdgeAt(k).from))
  \/ Cyclic # {}

\* A document is refused exactly when it cannot run: one that is refused cannot,
\* and one that got as far as starting can.  A dependency drawn twice is no
\* reason to refuse it.
RefusedExactlyIfUnrunnable ==
  /\ phase = "refused" <=> verdict # "none"
  /\ phase = "refused" => Unrunnable
  /\ phase \in {"running", "sending", "finished", "quit"} => ~Unrunnable

\* The order is the one the document alone decides: of all the orders in which
\* every card follows what feeds it, the least by place in the document.
Permutation(s) ==
  /\ Len(s) = Cardinality(Nodes)
  /\ \A n \in Nodes : \E i \in DOMAIN s : s[i] = n

Respects(s) ==
  \A d \in DependsOn : \A i, j \in DOMAIN s : s[i] = d[1] /\ s[j] = d[2] => i < j

EarlierInDocument(s, t) ==
  \/ s = t
  \/ \E i \in DOMAIN s :
       /\ \A j \in 1..(i - 1) : s[j] = t[j]
       /\ Place(flow, s[i]) < Place(flow, t[i])

OrderIsTheDocuments ==
  phase = "running" =>
    /\ Permutation(order) /\ Respects(order)
    /\ \A s \in [1..Cardinality(Nodes) -> Nodes] :
         Permutation(s) /\ Respects(s) => EarlierInDocument(order, s)

----------------------------------------------------------------------------
(***************************************************************************)
(* Why: the invariant the promises rest on.                                *)
(***************************************************************************)
Placed == {order[i] : i \in DOMAIN order}

Refusable == phase \in {"new", "refused"}

\* Kahn's loop: a counter is the dependencies not yet placed, the ready cards
\* are those waiting for nothing, and each card is placed once, after what it
\* depends on.
OrderInv ==
  ~Refusable =>
    /\ StructureError(flow) = "none"
    /\ \A n \in Nodes : indegree[n] = Cardinality(Before(flow, n) \ Placed)
    /\ ready = {n \in Nodes \ Placed : Before(flow, n) \subseteq Placed}
    /\ \A i, j \in DOMAIN order : order[i] = order[j] => i = j
    /\ \A i \in DOMAIN order : \A p \in Before(flow, order[i]) :
         \E j \in DOMAIN order : j < i /\ order[j] = p
    /\ phase # "ordering" => Nodes \subseteq Placed

\* Nothing has happened to a step before the run starts; afterwards the only
\* step taken up without a result is the request being answered.
ProgressInv ==
  /\ Refusable \/ phase = "ordering" => current = NoNode /\ \A n \in NodeId : ~Decided(n)
  /\ phase \in {"running", "finished"} => current = NoNode
  /\ current # NoNode => current \in Included /\ ~Decided(current)
  /\ phase = "sending" => current # NoNode

\* A dead edge stops the step it leads to.
DeadEdgesStop ==
  \A k \in DOMAIN flow.edges :
    EdgeAt(k).to \in Included /\ Dead(EdgeAt(k)) =>
      /\ current # EdgeAt(k).to
      /\ Decided(EdgeAt(k).to) => result[EdgeAt(k).to].why = "upstream_failed"

\* The inductive invariant.
IInv ==
  TypeOK /\ OrderInv /\ ProgressInv /\ StepsFollowWhatFeedsThem /\ DeadEdgesStop

----------------------------------------------------------------------------
(***************************************************************************)
(* The runner keeps the contract of its documentation: it is a FlowPromise *)
(* that takes the steps one at a time.                                     *)
(***************************************************************************)
PromisedStatus(n) ==
  CASE result[n].why = "upstream_failed"  -> "blocked"
    [] result[n].why = "branch_not_taken" -> "bypassed"
    [] result[n].status = "pending"       -> IF current = n THEN "running" ELSE "waiting"
    [] OTHER                              -> result[n].status

Promise == INSTANCE FlowPromise WITH
  steps  <- Included,
  edges  <- {EdgeAt(k) : k \in DOMAIN flow.edges},
  status <- [n \in NodeId |-> PromisedStatus(n)],
  branch <- [n \in NodeId |-> result[n].branch]

\* Every run is a behaviour FlowPromise allows.
KeepsThePromise == Promise!Spec

=============================================================================
