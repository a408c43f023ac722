-------------------------- MODULE FlowRunner_proofs -------------------------
(***************************************************************************)
(* Proofs about FlowRunner, for every set of ids, names and runs: its      *)
(* types; that no step is taken up before what feeds it and that nothing   *)
(* behind a failed step is run; what a run leaves in the history and in    *)
(* its variables; which documents are refused, and the order the others    *)
(* are run in; why each step ran or did not; that the runner implements    *)
(* FlowPromise; what lint says of a flow, against what a run of it does;   *)
(* and, of a tab that runs its document again and again, that its canvas   *)
(* explains the cards it shows and its re-runs find their variables.       *)
(***************************************************************************)
EXTENDS FlowLint, FlowSession, FiniteSetTheorems, WellFoundedInduction, SequenceTheorems, TLAPS

----------------------------------------------------------------------------
(***************************************************************************)
(* What the operators on documents return.                                 *)
(***************************************************************************)
\* The least of some places in a sequence is one of them.
LEMMA MinIsAMember ==
  ASSUME NEW S \in SUBSET Nat, S # {}
  PROVE  Min(S) \in S /\ \A i \in S : Min(S) <= i
<1>1. PICK x \in S : \A y \in S : ~(<<y, x>> \in OpToRel(<, Nat))
  BY NatLessThanWellFounded, WFMin
<1>2. \A y \in S : x <= y
  <2>1. SUFFICES ASSUME NEW y \in S PROVE ~(y < x)
    OBVIOUS
  <2>2. <<y, x>> \in Nat \X Nat
    OBVIOUS
  <2>3. <<y, x>>[1] < <<y, x>>[2] => <<y, x>> \in OpToRel(<, Nat)
    BY <2>2, Zenon DEF OpToRel
  <2>4. QED
    BY <1>1, <2>3
<1>3. QED
  BY <1>2 DEF Min

\* A card's id leads to that card.
LEMMA CardOfId ==
  ASSUME NEW f \in Flow, NEW n \in Ids(f)
  PROVE  /\ Place(f, n) \in DOMAIN f.nodes
         /\ Card(f, n) \in Node
         /\ Card(f, n).id = n
<1> DEFINE S == {i \in DOMAIN f.nodes : f.nodes[i].id = n}
<1>1. f.nodes \in Seq(Node)
  BY DEF Flow
<1>2. DOMAIN f.nodes = 1..Len(f.nodes) /\ Len(f.nodes) \in Nat
  BY <1>1, LenProperties
<1>3. S \in SUBSET Nat /\ S # {}
  BY <1>2 DEF Ids
<1>4. Min(S) \in S
  BY <1>3, MinIsAMember
<1>5. Place(f, n) \in S
  BY <1>4 DEF Place
<1>6. Card(f, n) \in Node
  BY <1>1, <1>2, <1>5, ElementOfSeq DEF Card
<1>7. QED
  BY <1>5, <1>6 DEF Card

\* The ids of a document are finitely many members of NodeId.
LEMMA IdsFinite ==
  ASSUME NEW f \in Flow
  PROVE  IsFiniteSet(Ids(f)) /\ Ids(f) \subseteq NodeId
<1>1. f.nodes \in Seq(Node)
  BY DEF Flow
<1>2. DOMAIN f.nodes = 1..Len(f.nodes) /\ Len(f.nodes) \in Nat
  BY <1>1, LenProperties
<1>3. \A i \in 1..Len(f.nodes) : f.nodes[i] \in Node
  BY <1>1, ElementOfSeq
<1> DEFINE g == [i \in 1..Len(f.nodes) |-> f.nodes[i].id]
<1>4. g \in Surjection(1..Len(f.nodes), Ids(f))
  BY <1>2 DEF Surjection, Ids
<1>5. IsFiniteSet(1..Len(f.nodes))
  <2>1. \A m \in Nat : IsFiniteSet(1..m)
    <3>1. TAKE m \in Nat
    <3>2. 1 \in Int /\ m \in Int
      OBVIOUS
    <3>3. QED
      BY <3>2, FS_Interval, Zenon
  <2>2. QED
    BY <1>2, <2>1
<1>6. IsFiniteSet(Ids(f))
  BY <1>4, <1>5, FS_Surjection
<1>7. Ids(f) \subseteq NodeId
  BY <1>2, <1>3 DEF Ids, Node
<1>8. QED
  BY <1>6, <1>7

\* The edges of a document are records with ends in NodeId.
LEMMA EdgesTyped ==
  ASSUME NEW f \in Flow
  PROVE  /\ DOMAIN f.edges \subseteq Nat
         /\ \A k \in DOMAIN f.edges : f.edges[k] \in Edge
<1>1. f.edges \in Seq(Edge)
  BY DEF Flow
<1>2. QED
  BY <1>1, LenProperties, ElementOfSeq

\* A document validate finds nothing wrong with has no bad edge, and no id twice.
LEMMA SoundDocument ==
  ASSUME NEW f \in Flow, StructureError(f) = "none"
  PROVE  BadEdges(f) = {} /\ ~DuplicateNode(f)
<1>1. ~DuplicateNode(f)
  BY DEF StructureError
<1>2. SUFFICES ASSUME BadEdges(f) # {} PROVE FALSE
  BY <1>1
<1>3. BadEdges(f) \in SUBSET Nat
  BY EdgesTyped DEF BadEdges
<1>4. Min(BadEdges(f)) \in BadEdges(f)
  BY <1>2, <1>3, MinIsAMember
<1> DEFINE e == f.edges[Min(BadEdges(f))]
<1>5. DanglingEdge(f, e) \/ SelfLoop(e) \/ UnknownHandle(f, e)
  BY <1>4 DEF BadEdges
<1>6. EdgeError(f, e) # "none"
  BY <1>5 DEF EdgeError
<1>7. QED
  BY <1>1, <1>2, <1>6 DEF StructureError

\* In a sound document every edge joins two different cards of it and leaves the
\* first by an output it has.
LEMMA SoundEdges ==
  ASSUME NEW f \in Flow, StructureError(f) = "none", NEW k \in DOMAIN f.edges
  PROVE  /\ f.edges[k].from \in Ids(f)
         /\ f.edges[k].to \in Ids(f)
         /\ f.edges[k].from # f.edges[k].to
         /\ f.edges[k].handle \in Outputs(Card(f, f.edges[k].from))
BY SoundDocument DEF BadEdges, DanglingEdge, SelfLoop, UnknownHandle

\* What feeds a card of a sound document is finitely many other cards of it.
LEMMA BeforeFinite ==
  ASSUME NEW f \in Flow, StructureError(f) = "none", NEW n
  PROVE  /\ Before(f, n) \subseteq Ids(f)
         /\ IsFiniteSet(Before(f, n))
         /\ n \notin Before(f, n)
<1>1. Before(f, n) \subseteq Ids(f) /\ n \notin Before(f, n)
  BY SoundEdges DEF Before, Upstream
<1>2. QED
  BY <1>1, IdsFinite, FS_Subset

\* validate reports one of its errors, or none.
LEMMA StructureErrorKinds ==
  ASSUME NEW f \in Flow
  PROVE  StructureError(f) \in {"none", "duplicate_node", "dangling_edge", "self_loop",
                                "unknown_handle"}
<1>1. CASE DuplicateNode(f) \/ BadEdges(f) = {}
  BY <1>1 DEF StructureError
<1>2. CASE ~DuplicateNode(f) /\ BadEdges(f) # {}
  <2> DEFINE e == f.edges[Min(BadEdges(f))]
  <2>1. BadEdges(f) \in SUBSET Nat
    BY EdgesTyped DEF BadEdges
  <2>2. Min(BadEdges(f)) \in BadEdges(f)
    BY <1>2, <2>1, MinIsAMember
  <2>3. DanglingEdge(f, e) \/ SelfLoop(e) \/ UnknownHandle(f, e)
    BY <2>2 DEF BadEdges
  <2>4. EdgeError(f, e) \in {"dangling_edge", "self_loop", "unknown_handle"}
    BY <2>3, Zenon DEF EdgeError
  <2>5. QED
    BY <1>2, <2>4 DEF StructureError
<1>3. QED
  BY <1>1, <1>2

\* What a card puts in scope are names.
LEMMA DefinesNames ==
  ASSUME NEW node \in Node
  PROVE  /\ Declared(node) \subseteq Nat
         /\ \A k \in Declared(node) : node.pairs[k].name \in Name
         /\ Defines(node) \subseteq Name
         /\ \A k : DefinedBy(node, k) \subseteq Name
<1>1. node.pairs \in Seq(Pair)
  BY DEF Node
<1>2. DOMAIN node.pairs = 1..Len(node.pairs) /\ Len(node.pairs) \in Nat
  BY <1>1, LenProperties
<1>3. \A k \in Declared(node) : node.pairs[k].name \in Name
  <2>1. \A k \in DOMAIN node.pairs : node.pairs[k] \in Pair
    BY <1>1, <1>2, ElementOfSeq
  <2>2. QED
    BY <2>1 DEF Pair, Declared
<1>4. Declared(node) \subseteq Nat
  BY <1>2 DEF Declared
<1>5. QED
  BY <1>3, <1>4 DEF Defines, DefinedBy

----------------------------------------------------------------------------
USE DEF flow, Nodes, EdgeAt, Included

(***************************************************************************)
(* Results.                                                                *)
(***************************************************************************)
LEMMA PendingShape ==
  Pending \in Result /\ Pending.status = "pending" /\ Pending.why = "none"
BY DEF Pending, Result, Handles

LEMMA PassedShape ==
  ASSUME NEW h \in Handles, NEW names \in SUBSET Name
  PROVE  /\ Passed(h, names) \in Result
         /\ Passed(h, names).status = "passed"
         /\ Passed(h, names).why = "none"
BY DEF Passed, Pending, Result, Handles

LEMMA FailedShape ==
  ASSUME NEW why \in FailureKinds, NEW names \in SUBSET Name
  PROVE  /\ Failed(why, names) \in Result
         /\ Failed(why, names).status = "failed"
         /\ Failed(why, names).why = why
BY DEF Failed, Pending, Result, Handles, FailureKinds

LEMMA SkippedShape ==
  ASSUME NEW why \in SkipKinds, NEW n \in NodeId \union {NoNode},
         NEW h \in Handles \union {"other"}
  PROVE  /\ Skipped(why, n, h) \in Result
         /\ Skipped(why, n, h).status = "skipped"
         /\ Skipped(why, n, h).why = why
BY DEF Skipped, Pending, Result, Handles, SkipKinds

\* What running a card can come to: a result that passed or failed.
Outcome(r) == r \in Result /\ r.status \in {"passed", "failed"} /\ r.why \notin SkipKinds

LEMMA PassedOutcome ==
  ASSUME NEW h \in Handles, NEW names \in SUBSET Name
  PROVE  Outcome(Passed(h, names))
BY PassedShape DEF Outcome, SkipKinds

LEMMA FailedOutcome ==
  ASSUME NEW why \in FailureKinds, NEW names \in SUBSET Name
  PROVE  Outcome(Failed(why, names))
BY FailedShape DEF Outcome, SkipKinds, FailureKinds

LEMMA LocalOutcomesShape ==
  ASSUME NEW node \in Node, node.kind # "request", NEW r \in LocalOutcomes(node)
  PROVE  Outcome(r)
<1> USE DEF FailureKinds, Handles
<1>1. CASE node.kind = "condition"
  <2>1. r \in TextOutcomes(node, {Passed("true", {}), Passed("false", {})})
    BY <1>1, Zenon DEF LocalOutcomes
  <2>2. r \in {Failed("undefined", {}), Failed("resolve", {}),
               Passed("true", {}), Passed("false", {})}
    BY <2>1 DEF TextOutcomes
  <2>3. QED
    BY <2>2, PassedOutcome, FailedOutcome
<1>2. CASE node.kind = "display"
  <2>1. r \in TextOutcomes(node, {Passed("none", {})})
    BY <1>2, Zenon DEF LocalOutcomes
  <2>2. r \in {Failed("undefined", {}), Failed("resolve", {}), Passed("none", {})}
    BY <2>1 DEF TextOutcomes
  <2>3. QED
    BY <2>2, PassedOutcome, FailedOutcome
<1>3. CASE node.kind = "variables"
  <2>1. r \in DeclarationOutcomes(node)
    BY <1>3, Zenon DEF LocalOutcomes
  <2>2. CASE r = Passed("none", Defines(node))
    BY <2>2, DefinesNames, PassedOutcome
  <2>3. CASE \E k : r = Failed("undefined", DefinedBy(node, k - 1))
                    \/ r = Failed("resolve", DefinedBy(node, k - 1))
    BY <2>3, DefinesNames, FailedOutcome
  <2>4. QED
    BY <2>1, <2>2, <2>3 DEF DeclarationOutcomes
<1>4. node.kind \in Kinds
  BY DEF Node
<1>5. QED
  BY <1>1, <1>2, <1>3, <1>4 DEF Kinds

LEMMA AnswerOutcomesShape ==
  ASSUME NEW node \in Node, NEW r \in {Failed("transport", {})} \union AnswerOutcomes(node)
  PROVE  Outcome(r)
<1> USE DEF FailureKinds, Handles
<1>1. CASE r = Failed("transport", {}) \/ r = Failed("assertions", Defines(node))
  BY <1>1, DefinesNames, FailedOutcome
<1>2. CASE r = Passed("none", Defines(node))
  BY <1>2, DefinesNames, PassedOutcome
<1>3. CASE \E found \in SUBSET Declared(node) :
             r = Failed("extraction", {node.pairs[k].name : k \in found})
  <2>1. PICK found \in SUBSET Declared(node) :
               r = Failed("extraction", {node.pairs[k].name : k \in found})
    BY <1>3
  <2>2. {node.pairs[k].name : k \in found} \in SUBSET Name
    BY DefinesNames
  <2>3. QED
    BY <2>1, <2>2, FailedOutcome
<1>4. QED
  BY <1>1, <1>2, <1>3 DEF AnswerOutcomes

(***************************************************************************)
(* What is known of a well-typed state.                                    *)
(***************************************************************************)
LEMMA RunTyped ==
  ASSUME TypeOK
  PROVE  /\ flow \in Flow
         /\ run.only \in SUBSET NodeId /\ run.seed \in SUBSET Name
         /\ Nodes \subseteq NodeId /\ IsFiniteSet(Nodes)
         /\ Included \subseteq Nodes
<1>1. run \in [flow: Flow, only: SUBSET NodeId, seed: SUBSET Name]
  BY DEF TypeOK, RunAsked
<1>2. QED
  BY <1>1, IdsFinite

LEMMA EdgeTyped ==
  ASSUME TypeOK, NEW k \in DOMAIN flow.edges
  PROVE  /\ k \in Nat
         /\ EdgeAt(k).from \in NodeId /\ EdgeAt(k).to \in NodeId
         /\ EdgeAt(k).handle \in Handles \union {"other"}
BY RunTyped, EdgesTyped DEF Edge

LEMMA CardTyped ==
  ASSUME TypeOK, NEW n \in Nodes
  PROVE  Card(flow, n) \in Node
BY RunTyped, CardOfId

\* The steps that finish as they are taken up: what they leave, and when the
\* outcome is a skip for a failure.
SettlesAtOnce(n) ==
  SkipAfterFailure(n) \/ SkipUntaken(n) \/ RunLocal(n) \/ FailBeforeSending(n)

Settled(n, r) ==
  /\ r \in Result
  /\ r.status # "pending"
  /\ r.why = "upstream_failed" <=> DeadInto(n) # {}
  /\ Decide(n, r)

LEMMA SkipAfterFailureSettles ==
  ASSUME TypeOK, NEW n \in NodeId, SkipAfterFailure(n)
  PROVE  \E r : Settled(n, r)
<1> DEFINE e == EdgeAt(Min(DeadInto(n)))
<1> DEFINE r == Skipped("upstream_failed", Culprit(e), "none")
<1>1. DeadInto(n) # {} /\ Decide(n, r)
  BY DEF SkipAfterFailure
<1>2. DeadInto(n) \in SUBSET Nat /\ DeadInto(n) \subseteq DOMAIN flow.edges
  BY EdgeTyped DEF DeadInto, Upstream
<1>3. Min(DeadInto(n)) \in DOMAIN flow.edges
  BY <1>1, <1>2, MinIsAMember
<1>4. e.from \in NodeId
  BY <1>3, EdgeTyped
<1>5. Culprit(e) \in NodeId \union {NoNode}
  BY <1>4 DEF Culprit, TypeOK, Result
<1>6. r \in Result /\ r.status = "skipped" /\ r.why = "upstream_failed"
  BY <1>5, SkippedShape DEF SkipKinds, Handles
<1>7. QED
  BY <1>1, <1>6 DEF Settled

LEMMA SkipUntakenSettles ==
  ASSUME TypeOK, NEW n \in NodeId, SkipUntaken(n)
  PROVE  \E r : Settled(n, r)
<1> DEFINE e == EdgeAt(Min(InactiveInto(n)))
<1> DEFINE r == IF InactiveInto(n) # {} THEN UntakenBranch(e)
                ELSE Skipped("branch_not_taken", n, "none")
<1>1. DeadInto(n) = {} /\ Decide(n, r)
  BY DEF SkipUntaken
<1>2. r \in Result /\ r.status = "skipped" /\ r.why = "branch_not_taken"
  <2>1. CASE InactiveInto(n) = {}
    BY <2>1, SkippedShape DEF SkipKinds, Handles
  <2>2. CASE InactiveInto(n) # {}
    <3>1. InactiveInto(n) \in SUBSET Nat /\ InactiveInto(n) \subseteq DOMAIN flow.edges
      BY EdgeTyped DEF InactiveInto, Upstream
    <3>2. Min(InactiveInto(n)) \in DOMAIN flow.edges
      BY <2>2, <3>1, MinIsAMember
    <3>3. e.from \in NodeId /\ e.handle \in Handles \union {"other"}
      BY <3>2, EdgeTyped
    <3>4. /\ result[e.from].blame \in NodeId \union {NoNode}
          /\ result[e.from].handle \in Handles \union {"other"}
      BY <3>3 DEF TypeOK, Result
    <3>5. \/ r = Skipped("branch_not_taken", result[e.from].blame, result[e.from].handle)
          \/ r = Skipped("branch_not_taken", e.from, e.handle)
      BY <2>2 DEF UntakenBranch
    <3>6. QED
      BY <3>3, <3>4, <3>5, SkippedShape DEF SkipKinds
  <2>3. QED
    BY <2>1, <2>2
<1>3. QED
  BY <1>1, <1>2 DEF Settled

LEMMA OutcomeSettles ==
  ASSUME NEW n, NEW r, Outcome(r), DeadInto(n) = {}, Decide(n, r)
  PROVE  Settled(n, r)
BY DEF Outcome, Settled, SkipKinds

LEMMA StepSettles ==
  ASSUME TypeOK, NEW n \in NodeId, SettlesAtOnce(n)
  PROVE  /\ IsNext(n)
         /\ \E r : Settled(n, r)
         /\ UNCHANGED <<run, phase, verdict, orderVars, current, sent, history>>
<1>1. IsNext(n) /\ n \in Nodes
  BY DEF SettlesAtOnce, SkipAfterFailure, SkipUntaken, RunLocal, FailBeforeSending,
         IsNext, Left
<1>2. UNCHANGED <<run, phase, verdict, orderVars, current, sent, history>>
  BY DEF SettlesAtOnce, SkipAfterFailure, SkipUntaken, RunLocal, FailBeforeSending
<1>3. CASE RunLocal(n)
  <2>1. PICK r \in LocalOutcomes(Card(flow, n)) : Decide(n, r)
    BY <1>3 DEF RunLocal
  <2>2. Outcome(r)
    BY <1>1, <1>3, <2>1, CardTyped, LocalOutcomesShape DEF RunLocal
  <2>3. DeadInto(n) = {}
    BY <1>3 DEF RunLocal, MayRun
  <2>4. QED
    BY <1>1, <1>2, <2>1, <2>2, <2>3, OutcomeSettles
<1>4. CASE FailBeforeSending(n)
  <2>1. PICK why \in {"undefined", "resolve"} : Decide(n, Failed(why, {}))
    BY <1>4 DEF FailBeforeSending
  <2>2. Outcome(Failed(why, {}))
    BY <2>1, FailedOutcome DEF FailureKinds
  <2>3. DeadInto(n) = {}
    BY <1>4 DEF FailBeforeSending, MayRun
  <2>4. QED
    BY <1>1, <1>2, <2>1, <2>2, <2>3, OutcomeSettles
<1>5. QED
  BY <1>1, <1>2, <1>3, <1>4, SkipAfterFailureSettles, SkipUntakenSettles DEF SettlesAtOnce

\* The request being answered passes or fails.
LEMMA AnswerSettles ==
  ASSUME TypeOK, ProgressInv, Answer
  PROVE  /\ current \in Included /\ ~Decided(current)
         /\ \E r : Outcome(r) /\ Decide(current, r)
         /\ current' = NoNode /\ phase = "sending" /\ phase' = "running"
         /\ UNCHANGED <<run, verdict, orderVars, sent>>
<1>1. phase = "sending" /\ phase' = "running" /\ current' = NoNode
      /\ UNCHANGED <<run, verdict, orderVars, sent>>
  BY DEF Answer
<1>2. current \in Included /\ ~Decided(current)
  BY <1>1 DEF ProgressInv
<1>3. PICK r \in {Failed("transport", {})} \union AnswerOutcomes(Card(flow, current)) :
        Decide(current, r)
  BY DEF Answer
<1>4. Outcome(r)
  BY <1>2, <1>3, CardTyped, AnswerOutcomesShape
<1>5. QED
  BY <1>1, <1>2, <1>3, <1>4

(***************************************************************************)
(* The order: Kahn's loop keeps OrderInv.                                  *)
(***************************************************************************)
LEMMA PlacedAppend ==
  ASSUME NEW n \in Nodes, order \in Seq(Nodes), order' = Append(order, n)
  PROVE  /\ order' \in Seq(Nodes)
         /\ DOMAIN order = 1..Len(order) /\ Len(order) \in Nat
         /\ DOMAIN order' = 1..(Len(order) + 1)
         /\ order'[Len(order) + 1] = n
         /\ \A i \in DOMAIN order : order'[i] = order[i]
         /\ Placed' = Placed \union {n}
<1>1. DOMAIN order = 1..Len(order) /\ Len(order) \in Nat
  BY LenProperties
<1>2. /\ order' \in Seq(Nodes) /\ Len(order') = Len(order) + 1
      /\ order'[Len(order) + 1] = n
      /\ \A i \in 1..Len(order) : order'[i] = order[i]
  BY AppendProperties
<1>3. DOMAIN order' = 1..(Len(order) + 1)
  BY <1>1, <1>2, LenProperties
<1>4. Placed' = Placed \union {n}
  BY <1>1, <1>2, <1>3 DEF Placed
<1>5. QED
  BY <1>1, <1>2, <1>3, <1>4

\* A card `m` waits for finitely many cards, so its counter is a number; it
\* drops by one when one of those is placed, and is one when it was the last.
LEMMA CounterDrops ==
  ASSUME TypeOK, OrderInv, ~Refusable, NEW n \in Nodes \ Placed, NEW m \in Nodes
  PROVE  LET before == Before(flow, m) \ Placed
             after  == Before(flow, m) \ (Placed \union {n})
         IN /\ IsFiniteSet(before) /\ Cardinality(before) \in Nat
            /\ Cardinality(after) \in Nat
            /\ n \in Before(flow, m) => Cardinality(after) = Cardinality(before) - 1
            /\ n \notin Before(flow, m) => after = before
            /\ n \in Before(flow, m) /\ Cardinality(before) = 1 => after = {}
            /\ n \in Before(flow, m) /\ after = {} => Cardinality(before) = 1
<1> DEFINE before == Before(flow, m) \ Placed
           after  == Before(flow, m) \ (Placed \union {n})
<1>1. IsFiniteSet(before)
  BY RunTyped, BeforeFinite, FS_Subset DEF OrderInv
<1>2. after = before \ {n}
  OBVIOUS
<1>3. /\ IsFiniteSet(after)
      /\ Cardinality(after) = IF n \in before THEN Cardinality(before) - 1
                              ELSE Cardinality(before)
  BY <1>1, <1>2, FS_RemoveElement
<1>4. Cardinality(before) \in Nat /\ Cardinality(after) \in Nat
  BY <1>1, <1>3, FS_CardinalityType
<1>5. Cardinality(after) = 0 <=> after = {}
  BY <1>3, FS_EmptySet
<1>6. n \in before <=> n \in Before(flow, m)
  OBVIOUS
<1>7. n \notin before => after = before
  BY <1>2
<1> HIDE DEF before, after
<1>8. /\ n \in before => Cardinality(after) = Cardinality(before) - 1
      /\ n \in before /\ Cardinality(before) = 1 => after = {}
      /\ n \in before /\ after = {} => Cardinality(before) = 1
  BY <1>3, <1>4, <1>5
<1>9. QED
  BY <1>1, <1>4, <1>6, <1>7, <1>8 DEF before, after

LEMMA ValidateOrder ==
  ASSUME TypeOK, Validate
  PROVE  OrderInv'
<1>1. CASE StructureError(flow) # "none"
  BY <1>1 DEF Validate, Refuse, OrderInv, Refusable
<1>2. CASE StructureError(flow) = "none"
  <2>1. /\ run' = run /\ phase' = "ordering" /\ order' = <<>>
        /\ indegree' = [n \in Nodes |-> Cardinality(Before(flow, n))]
        /\ ready' = {n \in Nodes : Before(flow, n) = {}}
    BY <1>2 DEF Validate
  <2>2. DOMAIN order' = {} /\ Placed' = {}
    BY <2>1 DEF Placed
  <2>3. \A n \in Nodes' : indegree'[n] = Cardinality(Before(flow', n) \ Placed')
    <3>1. \A n \in Nodes : Before(flow, n) \ {} = Before(flow, n)
      OBVIOUS
    <3>2. QED
      BY <2>1, <2>2, <3>1
  <2>4. ready' = {n \in Nodes' \ Placed' : Before(flow', n) \subseteq Placed'}
    BY <2>1, <2>2
  <2>5. QED
    BY <1>2, <2>1, <2>2, <2>3, <2>4 DEF OrderInv
<1>3. QED
  BY <1>1, <1>2

LEMMA PlaceNextOrder ==
  ASSUME TypeOK, OrderInv, NEW n \in NodeId, PlaceNext(n)
  PROVE  OrderInv'
<1>1. /\ phase = "ordering" /\ phase' = "ordering" /\ run' = run
      /\ order' = Append(order, n)
      /\ indegree' = [m \in Nodes |->
                        IF m \in Outgoing(flow, n) THEN indegree[m] - 1 ELSE indegree[m]]
      /\ ready' = (ready \ {n}) \union {m \in Outgoing(flow, n) : indegree[m] = 1}
  BY DEF PlaceNext
<1>2. /\ ~Refusable /\ ~Refusable'
      /\ StructureError(flow) = "none"
  BY <1>1 DEF Refusable, OrderInv
<1>3. /\ n \in Nodes \ Placed /\ Before(flow, n) \subseteq Placed
      /\ ready = {m \in Nodes \ Placed : Before(flow, m) \subseteq Placed}
  BY <1>2 DEF OrderInv, PlaceNext
<1>4. /\ order' \in Seq(Nodes)
      /\ DOMAIN order = 1..Len(order) /\ Len(order) \in Nat
      /\ DOMAIN order' = 1..(Len(order) + 1)
      /\ order'[Len(order) + 1] = n
      /\ \A i \in DOMAIN order : order'[i] = order[i]
      /\ Placed' = Placed \union {n}
  BY <1>1, <1>3, PlacedAppend DEF TypeOK
<1>5. \A m \in Nodes : m \in Outgoing(flow, n) <=> n \in Before(flow, m)
  BY DEF Outgoing
<1>6. \A m \in Nodes' : indegree'[m] = Cardinality(Before(flow', m) \ Placed')
  <2>1. SUFFICES ASSUME NEW m \in Nodes
                 PROVE  indegree'[m] = Cardinality(Before(flow, m) \ (Placed \union {n}))
    BY <1>1, <1>4
  <2>2. indegree[m] = Cardinality(Before(flow, m) \ Placed)
    BY <1>2 DEF OrderInv
  <2>3. CASE n \in Before(flow, m)
    <3>1. indegree'[m] = indegree[m] - 1
      BY <1>1, <1>5, <2>3
    <3>2. QED
      BY <1>2, <1>3, <2>2, <2>3, <3>1, CounterDrops
  <2>4. CASE n \notin Before(flow, m)
    <3>1. indegree'[m] = indegree[m]
      BY <1>1, <1>5, <2>4
    <3>2. Before(flow, m) \ (Placed \union {n}) = Before(flow, m) \ Placed
      BY <2>4
    <3>3. QED
      BY <2>2, <3>1, <3>2
  <2>5. QED
    BY <2>3, <2>4
<1>7. ready' = {m \in Nodes' \ Placed' : Before(flow', m) \subseteq Placed'}
  <2>1. SUFFICES \A m \in Nodes :
                   m \in ready' <=> /\ m \notin Placed \union {n}
                                    /\ Before(flow, m) \subseteq Placed \union {n}
    <3>1. ready' \subseteq Nodes
      BY <1>1, <1>3 DEF Outgoing
    <3>2. QED
      BY <1>1, <1>4, <3>1
  <2>2. TAKE m \in Nodes
  <2>3. indegree[m] = Cardinality(Before(flow, m) \ Placed)
    BY <1>2 DEF OrderInv
  <2>4. n \notin Before(flow, n)
    BY <1>2, RunTyped, BeforeFinite
  <2>5. CASE n \in Before(flow, m)
    <3>1. m # n /\ m \notin ready
      BY <1>3, <2>4, <2>5
    <3>2. m \in ready' <=> indegree[m] = 1
      BY <1>1, <1>5, <2>5, <3>1
    <3>3. indegree[m] = 1 <=> Before(flow, m) \ (Placed \union {n}) = {}
      BY <1>2, <1>3, <2>3, <2>5, CounterDrops
    <3>4. m \notin Placed
      <4>1. SUFFICES ASSUME m \in Placed PROVE FALSE
        OBVIOUS
      <4>2. PICK i \in DOMAIN order : order[i] = m
        BY <4>1 DEF Placed
      <4>3. n \in Placed
        BY <1>2, <2>5, <4>2 DEF OrderInv, Placed
      <4>4. QED
        BY <1>3, <4>3
    <3>5. QED
      BY <3>1, <3>2, <3>3, <3>4
  <2>6. CASE n \notin Before(flow, m)
    <3>1. m \in ready' <=> m \in ready /\ m # n
      BY <1>1, <1>5, <2>6
    <3>2. QED
      BY <1>3, <2>6, <3>1
  <2>7. QED
    BY <2>5, <2>6
<1>8. \A i, j \in DOMAIN order' : order'[i] = order'[j] => i = j
  <2>1. \A i \in DOMAIN order : order[i] # n
    BY <1>3 DEF Placed
  <2>2. \A i, j \in DOMAIN order : order[i] = order[j] => i = j
    BY <1>2 DEF OrderInv
  <2>3. QED
    BY <1>4, <2>1, <2>2
<1>9. \A i \in DOMAIN order' : \A p \in Before(flow', order'[i]) :
        \E j \in DOMAIN order' : j < i /\ order'[j] = p
  <2>1. SUFFICES ASSUME NEW i \in DOMAIN order', NEW p \in Before(flow, order'[i])
                 PROVE  \E j \in DOMAIN order' : j < i /\ order'[j] = p
    BY <1>1
  <2>2. CASE i \in DOMAIN order
    <3>1. \E j \in DOMAIN order : j < i /\ order[j] = p
      BY <1>2, <1>4, <2>2 DEF OrderInv
    <3>2. QED
      BY <1>4, <3>1
  <2>3. CASE i = Len(order) + 1
    <3>1. \E j \in DOMAIN order : order[j] = p
      BY <1>3, <1>4, <2>3 DEF Placed
    <3>2. QED
      BY <1>4, <2>3, <3>1
  <2>4. QED
    BY <1>4, <2>2, <2>3
<1>10. QED
  BY <1>1, <1>2, <1>6, <1>7, <1>8, <1>9 DEF OrderInv

LEMMA StartOrder ==
  ASSUME OrderInv, Start
  PROVE  OrderInv'
<1>1. CASE Stuck # {}
  BY <1>1 DEF Start, Refuse, OrderInv, Refusable
<1>2. CASE Stuck = {}
  <2>1. /\ phase = "ordering" /\ phase' = "running"
        /\ UNCHANGED <<run, orderVars>>
    BY <1>2 DEF Start
  <2>2. Nodes \subseteq Placed
    BY <1>2 DEF Stuck, Placed
  <2>3. QED
    BY <2>1, <2>2 DEF OrderInv, Refusable, Placed, orderVars
<1>3. QED
  BY <1>1, <1>2

\* Nothing touches the order once it is complete.
LEMMA OrderKept ==
  ASSUME OrderInv, ~Refusable, phase # "ordering", ~Refusable',
         UNCHANGED <<run, orderVars>>
  PROVE  OrderInv'
<1>1. /\ run' = run /\ indegree' = indegree /\ ready' = ready /\ order' = order
      /\ Placed' = Placed
  BY DEF orderVars, Placed
<1>2. /\ StructureError(flow) = "none"
      /\ \A n \in Nodes : indegree[n] = Cardinality(Before(flow, n) \ Placed)
      /\ ready = {n \in Nodes \ Placed : Before(flow, n) \subseteq Placed}
      /\ \A i, j \in DOMAIN order : order[i] = order[j] => i = j
      /\ \A i \in DOMAIN order : \A p \in Before(flow, order[i]) :
           \E j \in DOMAIN order : j < i /\ order[j] = p
      /\ Nodes \subseteq Placed
  BY DEF OrderInv
<1>3. QED
  BY <1>1, <1>2, Zenon DEF OrderInv

(***************************************************************************)
(* A step is taken up after what feeds it.                                 *)
(***************************************************************************)
Complete == OrderInv /\ ~Refusable /\ phase # "ordering"

LEMMA PositionOfStep ==
  ASSUME TypeOK, Complete, NEW n \in Nodes
  PROVE  /\ Position(n) \in DOMAIN order /\ order[Position(n)] = n
         /\ \A i \in DOMAIN order : order[i] = n => i = Position(n)
         /\ DOMAIN order = 1..Len(order) /\ Len(order) \in Nat
<1>1. DOMAIN order = 1..Len(order) /\ Len(order) \in Nat
  BY LenProperties DEF TypeOK
<1>2. \E i \in DOMAIN order : order[i] = n
  BY DEF Complete, OrderInv, Placed
<1>3. Position(n) \in DOMAIN order /\ order[Position(n)] = n
  BY <1>2 DEF Position
<1>4. \A i, j \in DOMAIN order : order[i] = order[j] => i = j
  BY DEF Complete, OrderInv
<1>5. QED
  BY <1>1, <1>3, <1>4

\* Moving the input blocks to the front breaks no edge: none leads into one.
LEMMA RankRespectsEdges ==
  ASSUME TypeOK, Complete, NEW k \in DOMAIN flow.edges
  PROVE  ~(Rank(EdgeAt(k).to) <= Rank(EdgeAt(k).from))
<1> DEFINE p == EdgeAt(k).from
           m == EdgeAt(k).to
<1>1. p \in Nodes /\ m \in Nodes
  BY RunTyped, SoundEdges DEF Complete, OrderInv
<1>2. k \in Upstream(flow, m) /\ p \in Before(flow, m)
  BY DEF Before, Upstream
<1>3. PICK j \in DOMAIN order : j < Position(m) /\ order[j] = p
  BY <1>1, <1>2, PositionOfStep DEF Complete, OrderInv
<1>4. Position(p) < Position(m)
  BY <1>1, <1>3, PositionOfStep
<1>5. /\ Position(p) \in 1..Len(order) /\ Position(m) \in 1..Len(order)
      /\ Len(order) \in Nat
  BY <1>1, PositionOfStep
<1>6. Rank(m) = Len(order) + Position(m)
  BY <1>2 DEF Rank, IsInputBlock
<1>7. Rank(p) = Position(p) \/ Rank(p) = Len(order) + Position(p)
  BY DEF Rank
<1>8. QED
  BY <1>4, <1>5, <1>6, <1>7

\* What feeds the step that is next has an outcome.
LEMMA NextIsFed ==
  ASSUME TypeOK, OrderInv, NEW n, IsNext(n), NEW k \in Upstream(flow, n),
         EdgeAt(k).from \in Included
  PROVE  Decided(EdgeAt(k).from)
<1>1. Complete
  BY DEF IsNext, Complete, Refusable
<1>2. k \in DOMAIN flow.edges /\ EdgeAt(k).to = n
  BY DEF Upstream
<1>3. EdgeAt(k).from \notin Left
  BY <1>1, <1>2, RankRespectsEdges DEF IsNext
<1>4. QED
  BY <1>3 DEF Left, Decided

LEMMA StepRuns ==
  ASSUME NEW n, IsNext(n)
  PROVE  n \in Included /\ ~Decided(n) /\ phase = "running"
BY DEF IsNext, Left, Decided

(***************************************************************************)
(* What each action leaves of the gate's two invariants.                   *)
(***************************************************************************)
GateInv == StepsFollowWhatFeedsThem /\ DeadEdgesStop

\* Nothing happens to a result: the gate's view is as it was.
LEMMA GateKept ==
  ASSUME GateInv, UNCHANGED <<run, result, current>>
  PROVE  GateInv'
BY DEF GateInv, StepsFollowWhatFeedsThem, DeadEdgesStop, Decided, Dead

LEMMA DecideOnly ==
  ASSUME TypeOK, NEW n \in NodeId, NEW r, Decide(n, r), r.status # "pending"
  PROVE  /\ result'[n] = r /\ r # Pending
         /\ \A m \in NodeId : m # n => result'[m] = result[m]
BY PendingShape DEF Decide, TypeOK

LEMMA SettleGate ==
  ASSUME TypeOK, OrderInv, ProgressInv, GateInv, NEW n \in NodeId, SettlesAtOnce(n)
  PROVE  GateInv'
<1>1. /\ IsNext(n) /\ n \in Included /\ ~Decided(n) /\ phase = "running"
      /\ UNCHANGED <<run, current>>
  BY StepSettles, StepRuns
<1>2. PICK r : Settled(n, r)
  BY StepSettles
<1>3. /\ result'[n] = r /\ r # Pending
      /\ \A m \in NodeId : m # n => result'[m] = result[m]
  BY <1>2, DecideOnly DEF Settled
<1>4. current = NoNode /\ current' = NoNode
  BY <1>1 DEF ProgressInv
<1>5. SUFFICES ASSUME NEW k \in DOMAIN flow.edges, EdgeAt(k).to \in Included,
                      EdgeAt(k).from \in Included
               PROVE  /\ (Decided(EdgeAt(k).to) \/ current = EdgeAt(k).to)'
                            => Decided(EdgeAt(k).from)'
                      /\ Dead(EdgeAt(k))' =>
                           /\ current' # EdgeAt(k).to
                           /\ Decided(EdgeAt(k).to)' =>
                                result'[EdgeAt(k).to].why = "upstream_failed"
  BY <1>1 DEF GateInv, StepsFollowWhatFeedsThem, DeadEdgesStop, Dead
<1> DEFINE p == EdgeAt(k).from
           m == EdgeAt(k).to
<1>6. p \in NodeId /\ m \in NodeId /\ m # NoNode
  BY EdgeTyped, ValuesAssumption
<1>7. Decided(m) => Decided(p)
  BY <1>5 DEF GateInv, StepsFollowWhatFeedsThem
<1>8. Dead(EdgeAt(k)) /\ Decided(m) => result[m].why = "upstream_failed"
  BY <1>5 DEF GateInv, DeadEdgesStop
<1>9. CASE m = n
  <2>1. k \in Upstream(flow, n)
    BY <1>9 DEF Upstream
  <2>2. Decided(p) /\ p # n
    BY <1>1, <1>5, <2>1, NextIsFed
  <2>3. result'[p] = result[p]
    BY <1>3, <1>6, <2>2
  <2>4. Decided(p)'
    BY <1>1, <2>2, <2>3 DEF Decided
  <2>5. Dead(EdgeAt(k))' => Dead(EdgeAt(k))
    BY <1>1, <2>3 DEF Dead
  <2>6. Dead(EdgeAt(k)) => r.why = "upstream_failed"
    BY <1>2, <2>1 DEF Settled, DeadInto
  <2>7. QED
    BY <1>1, <1>3, <1>4, <1>6, <1>9, <2>4, <2>5, <2>6
<1>10. CASE m # n
  <2>1. result'[m] = result[m]
    BY <1>3, <1>6, <1>10
  <2>2. Decided(m)' <=> Decided(m)
    BY <1>1, <2>1 DEF Decided
  <2>3. Decided(p) => Decided(p)'
    BY <1>1, <1>3, <1>6 DEF Decided
  <2>4. CASE p = n
    BY <1>1, <1>4, <1>6, <1>7, <2>2, <2>3, <2>4
  <2>5. CASE p # n
    <3>1. Dead(EdgeAt(k))' => Dead(EdgeAt(k))
      BY <1>1, <1>3, <1>6, <2>5 DEF Dead
    <3>2. QED
      BY <1>1, <1>4, <1>6, <1>7, <1>8, <2>1, <2>2, <2>3, <3>1
  <2>6. QED
    BY <2>4, <2>5
<1>11. QED
  BY <1>9, <1>10

LEMMA SendGate ==
  ASSUME TypeOK, OrderInv, ProgressInv, GateInv, NEW n \in NodeId, Send(n)
  PROVE  GateInv'
<1>1. /\ IsNext(n) /\ current' = n /\ DeadInto(n) = {} /\ UNCHANGED <<run, result>>
  BY DEF Send, MayRun
<1>2. current = NoNode
  BY <1>1, StepRuns DEF ProgressInv
<1>3. SUFFICES ASSUME NEW k \in DOMAIN flow.edges, EdgeAt(k).to \in Included,
                      EdgeAt(k).from \in Included
               PROVE  /\ Decided(EdgeAt(k).to) \/ n = EdgeAt(k).to
                            => Decided(EdgeAt(k).from)
                      /\ Dead(EdgeAt(k)) =>
                           /\ n # EdgeAt(k).to
                           /\ Decided(EdgeAt(k).to) =>
                                result[EdgeAt(k).to].why = "upstream_failed"
  BY <1>1 DEF GateInv, StepsFollowWhatFeedsThem, DeadEdgesStop, Dead, Decided
<1>4. n = EdgeAt(k).to => k \in Upstream(flow, n)
  BY DEF Upstream
<1>5. n = EdgeAt(k).to => Decided(EdgeAt(k).from)
  BY <1>1, <1>3, <1>4, NextIsFed
<1>6. n = EdgeAt(k).to => ~Dead(EdgeAt(k))
  BY <1>1, <1>4 DEF DeadInto
<1>7. QED
  BY <1>3, <1>5, <1>6 DEF GateInv, StepsFollowWhatFeedsThem, DeadEdgesStop

LEMMA AnswerGate ==
  ASSUME TypeOK, ProgressInv, GateInv, Answer
  PROVE  GateInv'
<1>1. /\ current \in Included /\ current \in NodeId /\ ~Decided(current)
      /\ current' = NoNode /\ run' = run
  BY AnswerSettles, RunTyped
<1>2. PICK r : Outcome(r) /\ Decide(current, r)
  BY AnswerSettles
<1>3. /\ result'[current] = r /\ r # Pending
      /\ \A m \in NodeId : m # current => result'[m] = result[m]
  BY <1>1, <1>2, DecideOnly DEF Outcome
<1>4. SUFFICES ASSUME NEW k \in DOMAIN flow.edges, EdgeAt(k).to \in Included,
                      EdgeAt(k).from \in Included
               PROVE  /\ (Decided(EdgeAt(k).to) \/ current = EdgeAt(k).to)'
                            => Decided(EdgeAt(k).from)'
                      /\ Dead(EdgeAt(k))' =>
                           /\ current' # EdgeAt(k).to
                           /\ Decided(EdgeAt(k).to)' =>
                                result'[EdgeAt(k).to].why = "upstream_failed"
  BY <1>1 DEF GateInv, StepsFollowWhatFeedsThem, DeadEdgesStop, Dead
<1> DEFINE p == EdgeAt(k).from
           m == EdgeAt(k).to
<1>5. p \in NodeId /\ m \in NodeId /\ m # NoNode
  BY EdgeTyped, ValuesAssumption
<1>6. Decided(m) \/ current = m => Decided(p)
  BY <1>4 DEF GateInv, StepsFollowWhatFeedsThem
<1>7. Dead(EdgeAt(k)) => current # m /\ (Decided(m) => result[m].why = "upstream_failed")
  BY <1>4 DEF GateInv, DeadEdgesStop
<1>8. CASE p = current
  <2>1. ~Decided(m) /\ m # current
    BY <1>1, <1>6, <1>8
  <2>2. ~Decided(m)'
    BY <1>1, <1>3, <1>5, <2>1 DEF Decided
  <2>3. QED
    BY <1>1, <1>5, <2>2
<1>9. CASE p # current
  <2>1. result'[p] = result[p]
    BY <1>3, <1>5, <1>9
  <2>2. Decided(p)' <=> Decided(p)
    BY <1>1, <2>1 DEF Decided
  <2>3. Dead(EdgeAt(k))' => Dead(EdgeAt(k))
    BY <1>1, <2>1 DEF Dead
  <2>4. m # current => result'[m] = result[m]
    BY <1>3, <1>5
  <2>5. m # current => (Decided(m)' <=> Decided(m))
    BY <1>1, <2>4 DEF Decided
  <2>6. QED
    BY <1>1, <1>5, <1>6, <1>7, <2>2, <2>3, <2>4, <2>5
<1>10. QED
  BY <1>8, <1>9

(***************************************************************************)
(* How each action moves the run on.                                       *)
(***************************************************************************)
\* The actions that leave every step as it is.
Quiet == Validate \/ (\E n \in NodeId : PlaceNext(n)) \/ Start \/ Finish \/ Quit

LEMMA QuietProgress ==
  ASSUME ProgressInv, Quiet
  PROVE  ProgressInv' /\ UNCHANGED <<run, result, current>>
<1>1. UNCHANGED <<run, result, current>>
  BY DEF Quiet, Validate, PlaceNext, Start, Finish, Quit, Refuse, runVars, orderVars
<1>2. /\ phase' # "sending"
      /\ phase' \in {"running", "finished"} \/ (Refusable \/ phase = "ordering")'
         => current = NoNode
      /\ (Refusable \/ phase = "ordering")' => \A n \in NodeId : ~Decided(n)
  <2>1. CASE Validate
    BY <2>1 DEF Validate, Refuse, ProgressInv, Refusable
  <2>2. CASE \E n \in NodeId : PlaceNext(n)
    BY <2>2 DEF PlaceNext, ProgressInv, Refusable
  <2>3. CASE Start
    BY <2>3 DEF Start, Refuse, ProgressInv, Refusable
  <2>4. CASE Finish \/ Quit
    BY <2>4 DEF Finish, Quit, ProgressInv, Refusable
  <2>5. QED
    BY <2>1, <2>2, <2>3, <2>4 DEF Quiet
<1>3. QED
  BY <1>1, <1>2 DEF ProgressInv, Decided

LEMMA SettleProgress ==
  ASSUME TypeOK, ProgressInv, NEW n \in NodeId, SettlesAtOnce(n)
  PROVE  ProgressInv'
<1>1. phase = "running" /\ UNCHANGED <<phase, current>>
  BY StepSettles, StepRuns
<1>2. current = NoNode
  BY <1>1 DEF ProgressInv
<1>3. QED
  BY <1>1, <1>2 DEF ProgressInv, Refusable

LEMMA SendProgress ==
  ASSUME NEW n \in NodeId, Send(n)
  PROVE  ProgressInv'
<1>1. /\ phase' = "sending" /\ current' = n /\ UNCHANGED <<run, result>>
      /\ n \in Included /\ ~Decided(n)
  BY StepRuns DEF Send
<1>2. n # NoNode
  BY ValuesAssumption
<1>3. QED
  BY <1>1, <1>2 DEF ProgressInv, Refusable, Decided

LEMMA AnswerProgress ==
  ASSUME TypeOK, ProgressInv, Answer
  PROVE  ProgressInv'
BY AnswerSettles DEF ProgressInv, Refusable

LEMMA NextOrder ==
  ASSUME TypeOK, OrderInv, ProgressInv, Next
  PROVE  OrderInv'
<1>1. CASE Validate
  BY <1>1, ValidateOrder
<1>2. CASE \E n \in NodeId : PlaceNext(n)
  BY <1>2, PlaceNextOrder
<1>3. CASE Start
  BY <1>3, StartOrder
<1>4. CASE Finish \/ Quit
  BY <1>4, OrderKept DEF Finish, Quit, Refusable
<1>5. CASE \E n \in NodeId : Step(n)
  <2>1. PICK n \in NodeId : Step(n)
    BY <1>5
  <2>2. CASE Send(n)
    BY <2>2, StepRuns, OrderKept DEF Send, Refusable
  <2>3. CASE SettlesAtOnce(n)
    BY <2>3, StepSettles, StepRuns, OrderKept DEF Refusable
  <2>4. QED
    BY <2>1, <2>2, <2>3 DEF Step, SettlesAtOnce
<1>6. CASE Answer
  BY <1>6, AnswerSettles, OrderKept DEF Refusable
<1>7. QED
  BY <1>1, <1>2, <1>3, <1>4, <1>5, <1>6 DEF Next, Progress

(***************************************************************************)
(* Types.                                                                  *)
(***************************************************************************)
FlowEvent == [event: {"started", "node_started", "node_finished", "finished"},
              node: NodeId \union {NoNode}]

LEMMA NodeEvents ==
  ASSUME NEW n \in NodeId
  PROVE  NodeStarted(n) \in FlowEvent /\ NodeFinished(n) \in FlowEvent
BY DEF NodeStarted, NodeFinished, FlowEvent

LEMMA DecideTypes ==
  ASSUME TypeOK, NEW n \in NodeId, NEW r \in Result, Decide(n, r)
  PROVE  /\ result' \in [NodeId -> Result]
         /\ variables' \in [Name -> NodeId \union {Unset, Seeded}]
<1>1. result \in [NodeId -> Result]
      /\ variables \in [Name -> NodeId \union {Unset, Seeded}]
  BY DEF TypeOK
<1>2. result' \in [NodeId -> Result]
  BY <1>1 DEF Decide
<1>3. variables' \in [Name -> NodeId \union {Unset, Seeded}]
  BY <1>1 DEF Decide
<1>4. QED
  BY <1>2, <1>3

LEMMA RefuseTypes ==
  ASSUME TypeOK, NEW error \in {"duplicate_node", "dangling_edge", "self_loop",
                                "unknown_handle", "cycle"}, Refuse(error)
  PROVE  TypeOK'
<1>1. /\ phase' = "refused" /\ verdict' = error
      /\ UNCHANGED <<run, indegree, ready, order, result, variables, current,
                     events, sent, history>>
  BY DEF Refuse, orderVars, runVars
<1>2. QED
  BY <1>1 DEF TypeOK

LEMMA ValidateTypes ==
  ASSUME TypeOK, Validate
  PROVE  TypeOK'
<1>1. CASE StructureError(flow) # "none"
  <2>1. Refuse(StructureError(flow))
    BY <1>1 DEF Validate
  <2>2. QED
    BY <1>1, <2>1, RunTyped, StructureErrorKinds, RefuseTypes
<1>2. CASE StructureError(flow) = "none"
  <2>1. /\ phase' = "ordering" /\ order' = <<>>
        /\ indegree' = [n \in Nodes |-> Cardinality(Before(flow, n))]
        /\ ready' = {n \in Nodes : Before(flow, n) = {}}
        /\ UNCHANGED <<run, verdict, result, variables, current, events, sent, history>>
    BY <1>2 DEF Validate, runVars
  <2>2. indegree' \in [Nodes -> Nat]
    BY <1>2, <2>1, RunTyped, BeforeFinite, FS_CardinalityType
  <2>3. order' \in Seq(Nodes)
    BY <2>1
  <2>4. QED
    BY <2>1, <2>2, <2>3 DEF TypeOK
<1>3. QED
  BY <1>1, <1>2

LEMMA PlaceNextTypes ==
  ASSUME TypeOK, OrderInv, OrderInv', NEW n \in NodeId, PlaceNext(n)
  PROVE  TypeOK'
<1>1. /\ phase = "ordering" /\ phase' = "ordering" /\ n \in ready
      /\ order' = Append(order, n)
      /\ indegree' = [m \in Nodes |->
                        IF m \in Outgoing(flow, n) THEN indegree[m] - 1 ELSE indegree[m]]
      /\ ready' = (ready \ {n}) \union {m \in Outgoing(flow, n) : indegree[m] = 1}
      /\ UNCHANGED <<run, verdict, result, variables, current, events, sent, history>>
  BY DEF PlaceNext, runVars
<1>2. indegree' \in [Nodes -> Nat]
  <2>1. SUFFICES ASSUME NEW m \in Nodes PROVE indegree'[m] \in Nat
    BY <1>1
  <2>2. indegree'[m] = Cardinality(Before(flow, m) \ Placed')
    BY <1>1 DEF OrderInv, Refusable
  <2>3. IsFiniteSet(Before(flow, m) \ Placed')
    BY <1>1, RunTyped, BeforeFinite, FS_Subset DEF OrderInv, Refusable
  <2>4. QED
    BY <2>2, <2>3, FS_CardinalityType
<1>3. n \in Nodes /\ order' \in Seq(Nodes) /\ ready' \subseteq Nodes
  <2>1. n \in Nodes
    BY <1>1 DEF TypeOK
  <2>2. QED
    BY <1>1, <2>1, AppendProperties DEF TypeOK, Outgoing
<1>4. QED
  BY <1>1, <1>2, <1>3 DEF TypeOK

LEMMA StartTypes ==
  ASSUME TypeOK, Start
  PROVE  TypeOK'
<1>1. CASE Stuck # {}
  BY <1>1, RefuseTypes DEF Start
<1>2. CASE Stuck = {}
  <2>1. /\ phase = "ordering" /\ phase' = "running"
        /\ variables' = [x \in Name |-> IF x \in run.seed THEN Seeded ELSE Unset]
        /\ events' = <<[event |-> "started", node |-> NoNode]>>
        /\ UNCHANGED <<run, verdict, indegree, ready, order, result, current, sent, history>>
    BY <1>2 DEF Start, orderVars
  <2>2. events' \in Seq(FlowEvent)
    BY <2>1 DEF FlowEvent
  <2>3. variables' \in [Name -> NodeId \union {Unset, Seeded}]
    BY <2>1
  <2>4. QED
    BY <2>1, <2>2, <2>3 DEF TypeOK, FlowEvent
<1>3. QED
  BY <1>1, <1>2

LEMMA SettleTypes ==
  ASSUME TypeOK, NEW n \in NodeId, SettlesAtOnce(n)
  PROVE  TypeOK'
<1>1. /\ phase = "running"
      /\ UNCHANGED <<run, phase, verdict, indegree, ready, order, current, sent, history>>
  BY StepSettles, StepRuns DEF orderVars
<1>2. PICK r : r \in Result /\ Decide(n, r)
  BY StepSettles DEF Settled
<1>3. /\ result' \in [NodeId -> Result]
      /\ variables' \in [Name -> NodeId \union {Unset, Seeded}]
  BY <1>2, DecideTypes
<1>4. events' \in Seq(FlowEvent)
  <2>1. events \in Seq(FlowEvent)
    BY DEF TypeOK, FlowEvent
  <2>2. \/ events' = Append(events, NodeFinished(n))
        \/ events' = events \o <<NodeStarted(n), NodeFinished(n)>>
    BY DEF SettlesAtOnce, SkipAfterFailure, SkipUntaken, RunLocal, FailBeforeSending
  <2>3. <<NodeStarted(n), NodeFinished(n)>> \in Seq(FlowEvent)
    BY NodeEvents
  <2>4. QED
    BY <2>1, <2>2, <2>3, NodeEvents, AppendProperties, ConcatProperties
<1>5. QED
  BY <1>1, <1>3, <1>4 DEF TypeOK, FlowEvent

LEMMA SendTypes ==
  ASSUME TypeOK, NEW n \in NodeId, Send(n)
  PROVE  TypeOK'
<1>1. /\ phase = "running" /\ phase' = "sending" /\ current' = n
      /\ sent' = Append(sent, n) /\ events' = Append(events, NodeStarted(n))
      /\ UNCHANGED <<run, verdict, indegree, ready, order, result, variables, history>>
  BY StepRuns DEF Send, orderVars
<1>2. events' \in Seq(FlowEvent) /\ sent' \in Seq(NodeId)
  <2>1. events \in Seq(FlowEvent) /\ sent \in Seq(NodeId)
    BY DEF TypeOK, FlowEvent
  <2>2. QED
    BY <1>1, <2>1, NodeEvents, AppendProperties
<1>3. QED
  BY <1>1, <1>2 DEF TypeOK, FlowEvent

LEMMA AnswerTypes ==
  ASSUME TypeOK, ProgressInv, Answer
  PROVE  TypeOK'
<1>1. /\ current \in NodeId /\ current' = NoNode
      /\ phase = "sending" /\ phase' = "running"
      /\ UNCHANGED <<run, verdict, indegree, ready, order, sent>>
  BY AnswerSettles, RunTyped DEF orderVars
<1>2. PICK r : r \in Result /\ Decide(current, r)
  BY AnswerSettles DEF Outcome
<1>3. /\ result' \in [NodeId -> Result]
      /\ variables' \in [Name -> NodeId \union {Unset, Seeded}]
  BY <1>1, <1>2, DecideTypes
<1>4. events' \in Seq(FlowEvent) /\ history' \in Seq(NodeId)
  <2>1. events \in Seq(FlowEvent) /\ history \in Seq(NodeId)
    BY DEF TypeOK, FlowEvent
  <2>2. /\ events' = Append(events, NodeFinished(current))
        /\ history' = Append(history, current) \/ history' = history
    BY DEF Answer
  <2>3. QED
    BY <1>1, <2>1, <2>2, NodeEvents, AppendProperties
<1>5. QED
  BY <1>1, <1>3, <1>4 DEF TypeOK, FlowEvent

LEMMA EndTypes ==
  ASSUME TypeOK, Finish \/ Quit
  PROVE  TypeOK'
<1>1. /\ phase \in {"running", "sending"} /\ phase' \in {"finished", "quit"}
      /\ UNCHANGED <<run, verdict, indegree, ready, order, result, variables, current,
                     sent, history>>
  BY DEF Finish, Quit, orderVars, runVars
<1>2. events' \in Seq(FlowEvent)
  <2>1. events \in Seq(FlowEvent)
    BY DEF TypeOK, FlowEvent
  <2>2. events' = events \/ events' = Append(events, [event |-> "finished", node |-> NoNode])
    BY DEF Finish, Quit, runVars
  <2>3. [event |-> "finished", node |-> NoNode] \in FlowEvent
    BY DEF FlowEvent
  <2>4. QED
    BY <2>1, <2>2, <2>3, AppendProperties
<1>3. QED
  BY <1>1, <1>2 DEF TypeOK, FlowEvent

(***************************************************************************)
(* The invariant.                                                          *)
(***************************************************************************)
\* Nothing has been done yet of a run that was asked for.
Fresh ==
  /\ run \in RunAsked
  /\ phase = "new" /\ verdict = "none"
  /\ indegree = [n \in {} |-> 0] /\ ready = {} /\ order = <<>>
  /\ result = [n \in NodeId |-> Pending]
  /\ variables = [x \in Name |-> Unset]
  /\ current = NoNode /\ events = <<>> /\ sent = <<>> /\ history = <<>>

LEMMA InitFresh == Init => Fresh
BY RunsAssumption DEF Init, Fresh

LEMMA FreshIInv == Fresh => IInv
<1>1. SUFFICES ASSUME Fresh PROVE IInv
  OBVIOUS
<1>2. /\ run \in RunAsked /\ phase = "new" /\ verdict = "none" /\ ready = {} /\ order = <<>>
      /\ result = [n \in NodeId |-> Pending] /\ variables = [x \in Name |-> Unset]
      /\ current = NoNode /\ events = <<>> /\ sent = <<>> /\ history = <<>>
  BY <1>1 DEF Fresh
<1>3. TypeOK
  BY <1>2, PendingShape DEF TypeOK
<1>4. \A n \in NodeId : ~Decided(n) /\ result[n].status = "pending" /\ result[n].why = "none"
  BY <1>2, PendingShape DEF Decided
<1>5. OrderInv /\ ProgressInv
  BY <1>2, <1>4 DEF OrderInv, ProgressInv, Refusable
<1>6. StepsFollowWhatFeedsThem /\ DeadEdgesStop
  BY <1>2, <1>3, <1>4, EdgeTyped, ValuesAssumption
  DEF StepsFollowWhatFeedsThem, DeadEdgesStop, Dead
<1>7. QED
  BY <1>3, <1>5, <1>6 DEF IInv

LEMMA InitIInv == Init => IInv
BY InitFresh, FreshIInv

LEMMA NextIInv == IInv /\ [Next]_vars => IInv'
<1>1. CASE IInv /\ UNCHANGED vars
  <2>1. UNCHANGED <<run, phase, verdict, indegree, ready, order, result, variables, current,
                    events, sent, history>>
    BY <1>1 DEF vars, orderVars, runVars
  <2>2. Placed' = Placed
    BY <2>1 DEF Placed
  <2>3. TypeOK'
    BY <1>1, <2>1 DEF IInv, TypeOK
  <2>4. OrderInv'
    BY <1>1, <2>1, <2>2, Zenon DEF IInv, OrderInv, Refusable
  <2>5. ProgressInv'
    BY <1>1, <2>1 DEF IInv, ProgressInv, Refusable, Decided
  <2>6. GateInv'
    BY <1>1, <2>1, GateKept DEF IInv, GateInv
  <2>7. QED
    BY <2>3, <2>4, <2>5, <2>6 DEF IInv, GateInv
<1>2. CASE IInv /\ Next
  <2>1. TypeOK /\ OrderInv /\ ProgressInv /\ GateInv
    BY <1>2 DEF IInv, GateInv
  <2>2. OrderInv'
    BY <1>2, <2>1, NextOrder
  <2>3. SUFFICES TypeOK' /\ ProgressInv' /\ GateInv'
    BY <2>2 DEF IInv, GateInv
  <2>4. CASE Quiet
    <3>1. ProgressInv' /\ GateInv'
      BY <2>1, <2>4, QuietProgress, GateKept
    <3>2. TypeOK'
      BY <2>1, <2>2, <2>4, ValidateTypes, PlaceNextTypes, StartTypes, EndTypes DEF Quiet
    <3>3. QED
      BY <3>1, <3>2
  <2>5. CASE \E n \in NodeId : Step(n)
    <3>1. PICK n \in NodeId : Step(n)
      BY <2>5
    <3>2. CASE Send(n)
      BY <2>1, <3>2, SendTypes, SendProgress, SendGate
    <3>3. CASE SettlesAtOnce(n)
      BY <2>1, <3>3, SettleTypes, SettleProgress, SettleGate
    <3>4. QED
      BY <3>1, <3>2, <3>3 DEF Step, SettlesAtOnce
  <2>6. CASE Answer
    BY <2>1, <2>6, AnswerTypes, AnswerProgress, AnswerGate
  <2>7. QED
    BY <1>2, <2>4, <2>5, <2>6 DEF Next, Progress, Quiet
<1>3. QED
  BY <1>1, <1>2

\* The order, the steps and the gate stay as IInv says in every state of every
\* run of every document.
THEOREM Invariance == Spec => []IInv
BY InitIInv, NextIInv, PTL DEF Spec

\* Every variable of the runner always holds its declared shape: no card out of
\* the document is ordered, no counter goes below zero, no blame is dangling.
THEOREM TypeCorrect == Spec => []TypeOK
<1>1. IInv => TypeOK
  BY DEF IInv
<1>2. QED
  BY <1>1, Invariance, PTL

\* In every run a step is taken up only after every step of the run wired into
\* it has an outcome, although the input blocks jump the queue.
THEOREM FedFirst == Spec => []StepsFollowWhatFeedsThem
<1>1. IInv => StepsFollowWhatFeedsThem
  BY DEF IInv
<1>2. QED
  BY <1>1, Invariance, PTL

(***************************************************************************)
(* Nothing behind a failure runs: DeadEdgesStop, which speaks of one edge, *)
(* carried along every path.                                               *)
(***************************************************************************)
LEMMA FailureStops == IInv => NothingRunsBehindAFailure
<1>1. SUFFICES ASSUME IInv PROVE NothingRunsBehindAFailure
  OBVIOUS
<1> DEFINE F == {f \in Included : result[f].status = "failed"}
           S == {m \in Included : /\ current # m
                                  /\ Decided(m) => result[m].why = "upstream_failed"}
<1>2. \A k \in DOMAIN flow.edges :
        /\ EdgeAt(k).to \in Included
        /\ EdgeAt(k).from \in (F \union S) \intersect Included
        => EdgeAt(k).to \in S
  <2>1. TAKE k \in DOMAIN flow.edges
  <2>2. HAVE /\ EdgeAt(k).to \in Included
             /\ EdgeAt(k).from \in (F \union S) \intersect Included
  <2>3. CASE Dead(EdgeAt(k))
    BY <1>1, <2>2, <2>3 DEF IInv, DeadEdgesStop
  <2>4. CASE ~Dead(EdgeAt(k))
    <3>1. ~Decided(EdgeAt(k).from)
      BY <2>2, <2>4 DEF Dead
    <3>2. ~Decided(EdgeAt(k).to) /\ current # EdgeAt(k).to
      BY <1>1, <2>2, <3>1 DEF IInv, StepsFollowWhatFeedsThem
    <3>3. QED
      BY <2>2, <3>2
  <2>5. QED
    BY <2>3, <2>4
<1>3. S \in SUBSET Included
  OBVIOUS
<1>4. \A n \in Behind(F) : n \in S
  BY <1>2, <1>3, Zenon DEF Behind
<1>5. QED
  BY <1>4 DEF NothingRunsBehindAFailure

\* Whatever the document, nothing wired behind a failed step is ever run.
THEOREM NothingRuns == Spec => []NothingRunsBehindAFailure
BY FailureStops, Invariance, PTL

----------------------------------------------------------------------------
(***************************************************************************)
(* History.                                                                *)
(***************************************************************************)
LEMMA HistoryStarts == Init => HistoryIsWhatWasSent
<1>1. <<>> = <<>> \o <<>>
  OBVIOUS
<1>2. QED
  BY <1>1 DEF Init, HistoryIsWhatWasSent

LEMMA HistoryKept ==
  ASSUME HistoryIsWhatWasSent, UNCHANGED <<current, sent, history>>
  PROVE  HistoryIsWhatWasSent'
BY DEF HistoryIsWhatWasSent

\* What is sent is the request being answered, which history still lacks.
LEMMA SendHistory ==
  ASSUME IInv, HistoryIsWhatWasSent, NEW n \in NodeId, Send(n)
  PROVE  HistoryIsWhatWasSent'
<1>1. SUFFICES ASSUME Recordings = {TRUE}
               PROVE  sent' = history' \o (IF current' = NoNode THEN <<>> ELSE <<current'>>)
  BY DEF HistoryIsWhatWasSent
<1>2. /\ phase = "running" /\ current' = n
      /\ sent' = Append(sent, n) /\ history' = history
  BY DEF Send, IsNext
<1>3. current = NoNode
  BY <1>2 DEF IInv, ProgressInv
<1>4. sent = history \o <<>>
  BY <1>1, <1>3 DEF HistoryIsWhatWasSent
<1>5. history \in Seq(NodeId)
  BY DEF IInv, TypeOK
<1>6. sent = history
  BY <1>4, <1>5
<1>7. Append(history, n) = history \o <<n>>
  BY <1>5
<1>8. n # NoNode
  BY ValuesAssumption
<1>9. QED
  BY <1>2, <1>6, <1>7, <1>8

\* Its row is what history lacked.
LEMMA AnswerHistory ==
  ASSUME IInv, HistoryIsWhatWasSent, Answer
  PROVE  HistoryIsWhatWasSent'
<1>1. SUFFICES ASSUME Recordings = {TRUE}
               PROVE  sent' = history' \o (IF current' = NoNode THEN <<>> ELSE <<current'>>)
  BY DEF HistoryIsWhatWasSent
<1>2. phase = "sending" /\ current' = NoNode /\ sent' = sent
  BY DEF Answer
<1>3. current # NoNode /\ current \in NodeId
  BY <1>2 DEF IInv, ProgressInv, TypeOK
<1>4. sent = history \o <<current>>
  BY <1>1, <1>3 DEF HistoryIsWhatWasSent
<1>5. history' = Append(history, current)
  BY <1>1 DEF Answer
<1>6. history \in Seq(NodeId)
  BY DEF IInv, TypeOK
<1>7. Append(history, current) = history \o <<current>>
  BY <1>3, <1>6
<1>8. Append(history, current) = Append(history, current) \o <<>>
  BY <1>3, <1>6
<1>9. QED
  BY <1>2, <1>4, <1>5, <1>7, <1>8

LEMMA NextHistory == IInv /\ HistoryIsWhatWasSent /\ [Next]_vars => HistoryIsWhatWasSent'
<1>1. SUFFICES ASSUME IInv, HistoryIsWhatWasSent, [Next]_vars
               PROVE  HistoryIsWhatWasSent'
  OBVIOUS
<1>2. TypeOK /\ ProgressInv
  BY <1>1 DEF IInv
<1>3. CASE UNCHANGED vars
  BY <1>1, <1>3, HistoryKept DEF vars, runVars
<1>4. CASE Quiet
  <2>1. UNCHANGED <<current, sent, history>>
    BY <1>4 DEF Quiet, Validate, PlaceNext, Start, Finish, Quit, Refuse, runVars
  <2>2. QED
    BY <1>1, <2>1, HistoryKept
<1>5. CASE \E n \in NodeId : Step(n)
  <2>1. PICK n \in NodeId : Step(n)
    BY <1>5
  <2>2. CASE Send(n)
    BY <1>1, <2>2, SendHistory
  <2>3. CASE SettlesAtOnce(n)
    BY <1>1, <1>2, <2>3, StepSettles, HistoryKept
  <2>4. QED
    BY <2>1, <2>2, <2>3 DEF Step, SettlesAtOnce
<1>6. CASE Answer
  BY <1>1, <1>6, AnswerHistory
<1>7. QED
  BY <1>1, <1>3, <1>4, <1>5, <1>6 DEF Next, Progress, Quiet

\* For every document and every run of it, with a history store that works: the
\* rows PreparedFlow::run writes are the requests sent, in order and once each,
\* but for the one still unanswered.
THEOREM HistoryTold == Spec => []HistoryIsWhatWasSent
<1>1. IInv /\ HistoryIsWhatWasSent /\ [Next]_vars => HistoryIsWhatWasSent'
  BY NextHistory
<1>2. QED
  BY <1>1, HistoryStarts, Invariance, PTL DEF Spec

----------------------------------------------------------------------------
(***************************************************************************)
(* Variables.                                                              *)
(***************************************************************************)
SetBySteps(x) ==
  \/ x \in run.seed
  \/ \E n \in Included : result[n].status = "passed" /\ x \in result[n].extracted

Scoped == phase \in {"running", "sending", "finished"}

LEMMA ScopeStarts == Init => ScopeIsWhatPassed
BY DEF Init, ScopeIsWhatPassed

LEMMA ScopeKept ==
  ASSUME ScopeIsWhatPassed, UNCHANGED <<run, result, variables>>, Scoped' => Scoped
  PROVE  ScopeIsWhatPassed'
BY DEF ScopeIsWhatPassed, Scoped

\* A run starts with the seed, when no step has a result.
LEMMA StartScope ==
  ASSUME IInv, Start
  PROVE  ScopeIsWhatPassed'
<1>1. CASE phase' = "refused"
  BY <1>1 DEF ScopeIsWhatPassed
<1>2. CASE phase' # "refused"
  <2>1. /\ UNCHANGED <<run, result>>
        /\ variables' = [x \in Name |-> IF x \in run.seed THEN Seeded ELSE Unset]
    BY <1>2 DEF Start, Refuse
  <2>2. \A n \in NodeId : result[n] = Pending
    BY DEF Start, IInv, ProgressInv, Decided
  <2>3. Included \subseteq NodeId
    BY RunTyped DEF IInv
  <2>4. \A n \in Included : result'[n].status # "passed"
    BY <2>1, <2>2, <2>3, PendingShape
  <2>5. QED
    BY <2>1, <2>4, ValuesAssumption DEF ScopeIsWhatPassed
<1>3. QED
  BY <1>1, <1>2

\* The end of the loop's body: what a step extracted is set exactly if it passed.
LEMMA DecideScope ==
  ASSUME IInv, ScopeIsWhatPassed, Scoped, NEW n \in Included, ~Decided(n), UNCHANGED run,
         NEW r, r.status # "pending", Decide(n, r)
  PROVE  ScopeIsWhatPassed'
<1>1. TypeOK /\ Included \subseteq NodeId
  BY RunTyped DEF IInv
<1>2. result'[n] = r /\ \A m \in NodeId : m # n => result'[m] = result[m]
  BY <1>1, DecideOnly
<1>3. result[n].status # "passed"
  BY PendingShape DEF Decided
<1>4. n # Unset
  BY <1>1, ValuesAssumption
<1>5. SUFFICES ASSUME NEW x \in Name
               PROVE  variables'[x] # Unset <=> SetBySteps(x)'
  BY DEF ScopeIsWhatPassed, SetBySteps
<1>6. variables[x] # Unset <=> SetBySteps(x)
  BY DEF ScopeIsWhatPassed, SetBySteps, Scoped
<1>7. variables'[x] = IF r.status = "passed" /\ x \in r.extracted THEN n ELSE variables[x]
  BY DEF Decide
<1>8. SetBySteps(x)' <=> SetBySteps(x) \/ (r.status = "passed" /\ x \in r.extracted)
  BY <1>1, <1>2, <1>3 DEF SetBySteps
<1>9. QED
  BY <1>4, <1>6, <1>7, <1>8

LEMMA NextScope == IInv /\ ScopeIsWhatPassed /\ [Next]_vars => ScopeIsWhatPassed'
<1>1. SUFFICES ASSUME IInv, ScopeIsWhatPassed, [Next]_vars
               PROVE  ScopeIsWhatPassed'
  OBVIOUS
<1>2. TypeOK /\ ProgressInv
  BY <1>1 DEF IInv
<1>3. CASE UNCHANGED vars
  BY <1>1, <1>3, ScopeKept DEF vars, runVars, Scoped
<1>4. CASE Validate \/ \E n \in NodeId : PlaceNext(n)
  <2>1. phase' \in {"refused", "ordering"}
    BY <1>4 DEF Validate, PlaceNext, Refuse
  <2>2. QED
    BY <2>1 DEF ScopeIsWhatPassed
<1>5. CASE Start
  BY <1>1, <1>5, StartScope
<1>6. CASE Finish \/ Quit
  BY <1>1, <1>6, ScopeKept DEF Finish, Quit, runVars, Scoped
<1>7. CASE \E n \in NodeId : Step(n)
  <2>1. PICK n \in NodeId : Step(n)
    BY <1>7
  <2>2. CASE Send(n)
    BY <1>1, <2>2, ScopeKept DEF Send, IsNext, Scoped
  <2>3. CASE SettlesAtOnce(n)
    <3>1. /\ n \in Included /\ ~Decided(n) /\ phase = "running" /\ UNCHANGED run
      BY <1>2, <2>3, StepSettles, StepRuns
    <3>2. PICK r : Settled(n, r)
      BY <1>2, <2>3, StepSettles
    <3>3. r.status # "pending" /\ Decide(n, r)
      BY <3>2 DEF Settled
    <3>4. QED
      BY <1>1, <3>1, <3>3, DecideScope DEF Scoped
  <2>4. QED
    BY <2>1, <2>2, <2>3 DEF Step, SettlesAtOnce
<1>8. CASE Answer
  <2>1. /\ current \in Included /\ ~Decided(current)
        /\ phase = "sending" /\ UNCHANGED run
    BY <1>2, <1>8, AnswerSettles
  <2>2. PICK r : Outcome(r) /\ Decide(current, r)
    BY <1>2, <1>8, AnswerSettles
  <2>3. r.status # "pending"
    BY <2>2 DEF Outcome
  <2>4. QED
    BY <1>1, <2>1, <2>2, <2>3, DecideScope DEF Scoped
<1>9. QED
  BY <1>1, <1>3, <1>4, <1>5, <1>6, <1>7, <1>8 DEF Next, Progress

\* For every document and every run of it, narrowed or not: a name has a value
\* exactly when the seed or a step that passed gave it one, so what a failed step
\* extracted never reaches a later one.
THEOREM ScopeTold == Spec => []ScopeIsWhatPassed
<1>1. IInv /\ ScopeIsWhatPassed /\ [Next]_vars => ScopeIsWhatPassed'
  BY NextScope
<1>2. QED
  BY <1>1, ScopeStarts, Invariance, PTL DEF Spec

----------------------------------------------------------------------------
(***************************************************************************)
(* A document is refused exactly when it cannot run.                       *)
(***************************************************************************)
LEMMA Dependencies ==
  /\ \A d \in DependsOn : \E k \in DOMAIN flow.edges : d = <<EdgeAt(k).from, EdgeAt(k).to>>
  /\ \A k \in DOMAIN flow.edges : <<EdgeAt(k).from, EdgeAt(k).to>> \in DependsOn
BY DEF DependsOn

\* What is wired behind a card, or behind what is behind it.
LEMMA WiredBeyond ==
  ASSUME NEW c, NEW k \in DOMAIN flow.edges, EdgeAt(k).to \in Nodes,
         EdgeAt(k).from \in {c} \union Beyond({c})
  PROVE  EdgeAt(k).to \in Beyond({c})
<1> DEFINE d == <<EdgeAt(k).from, EdgeAt(k).to>>
<1>1. SUFFICES ASSUME NEW S \in SUBSET Nodes,
                      \A e \in DependsOn : e[1] \in {c} \union S => e[2] \in S
               PROVE  EdgeAt(k).to \in S
  BY Zenon DEF Beyond
<1>2. \A m \in Beyond({c}) : m \in S
  BY <1>1, Zenon DEF Beyond
<1>3. d \in DependsOn /\ d[1] = EdgeAt(k).from /\ d[2] = EdgeAt(k).to
  BY Dependencies
<1>4. QED
  BY <1>1, <1>2, <1>3

\* In a complete order what depends on a card comes after it.
LEMMA PositionRespectsEdges ==
  ASSUME TypeOK, Complete, NEW k \in DOMAIN flow.edges
  PROVE  /\ EdgeAt(k).from \in Nodes /\ EdgeAt(k).to \in Nodes
         /\ Position(EdgeAt(k).from) < Position(EdgeAt(k).to)
<1> DEFINE p == EdgeAt(k).from
           m == EdgeAt(k).to
<1>1. p \in Nodes /\ m \in Nodes
  BY RunTyped, SoundEdges DEF Complete, OrderInv
<1>2. p \in Before(flow, m)
  BY DEF Before, Upstream
<1>3. Position(m) \in DOMAIN order /\ order[Position(m)] = m
  BY <1>1, PositionOfStep
<1>4. PICK j \in DOMAIN order : j < Position(m) /\ order[j] = p
  BY <1>2, <1>3 DEF Complete, OrderInv
<1>5. j = Position(p)
  BY <1>1, <1>4, PositionOfStep
<1>6. QED
  BY <1>1, <1>4, <1>5

LEMMA CompleteIsAcyclic ==
  ASSUME TypeOK, Complete
  PROVE  Cyclic = {}
<1>1. SUFFICES ASSUME NEW n \in Nodes, n \in Beyond({n}) PROVE FALSE
  BY DEF Cyclic
<1> DEFINE S == {m \in Nodes : Position(n) < Position(m)}
<1>2. \A m \in Nodes : Position(m) \in Nat
  BY PositionOfStep
<1>3. ASSUME NEW d \in DependsOn, d[1] \in {n} \union S
      PROVE  d[2] \in S
  <2>1. PICK k \in DOMAIN flow.edges : d = <<EdgeAt(k).from, EdgeAt(k).to>>
    BY Dependencies
  <2>2. d[1] \in Nodes /\ d[2] \in Nodes /\ Position(d[1]) < Position(d[2])
    BY <2>1, PositionRespectsEdges
  <2>3. d[1] = n \/ Position(n) < Position(d[1])
    BY <1>3
  <2>4. QED
    BY <1>2, <2>2, <2>3
<1>4. S \in SUBSET Nodes
  OBVIOUS
<1>5. n \in S
  BY <1>1, <1>3, <1>4, Zenon DEF Beyond
<1>6. QED
  BY <1>2, <1>5

\* Cards are left over only when some wait for themselves: one that waits for the
\* fewest has to, as each waits for a card left over.
LEMMA StuckIsCyclic ==
  ASSUME TypeOK, OrderInv, ~Refusable, ready = {}, Stuck # {}
  PROVE  Cyclic # {}
<1>1. SUFFICES ASSUME \A n \in Nodes : n \notin Beyond({n}) PROVE FALSE
  BY DEF Cyclic
<1> DEFINE WaitsFor(n) == {m \in Stuck : n \in Beyond({m})}
           Counts == {Cardinality(WaitsFor(n)) : n \in Stuck}
<1>2. Stuck = Nodes \ Placed
  BY DEF Stuck, Placed
<1>3. IsFiniteSet(Stuck)
  BY <1>2, RunTyped, FS_Subset
<1>4. \A n : IsFiniteSet(WaitsFor(n)) /\ Cardinality(WaitsFor(n)) \in Nat
  <2>1. \A n : WaitsFor(n) \in SUBSET Stuck
    OBVIOUS
  <2> HIDE DEF WaitsFor
  <2>2. QED
    BY <1>3, <2>1, FS_Subset, FS_CardinalityType
<1>5. Counts \in SUBSET Nat /\ Counts # {}
  BY <1>4
<1>6. Min(Counts) \in Counts /\ \A i \in Counts : Min(Counts) <= i
  BY <1>5, MinIsAMember
<1>7. PICK n \in Stuck : \A m \in Stuck :
                           Cardinality(WaitsFor(n)) <= Cardinality(WaitsFor(m))
  BY <1>6
<1>8. PICK p \in Before(flow, n) : p \notin Placed
  BY <1>2, <1>7 DEF OrderInv
<1>9. PICK k \in DOMAIN flow.edges : EdgeAt(k).from = p /\ EdgeAt(k).to = n
  BY <1>8 DEF Before, Upstream
<1>10. p \in Stuck /\ n \in Nodes /\ p \in Nodes
  BY <1>2, <1>7, <1>8, <1>9, RunTyped, SoundEdges DEF OrderInv
<1>11. \A m \in WaitsFor(p) : m \in WaitsFor(n)
  BY <1>9, <1>10, WiredBeyond
<1>12. p \in WaitsFor(n) /\ p \notin WaitsFor(p)
  BY <1>1, <1>9, <1>10, WiredBeyond
<1> HIDE DEF WaitsFor
<1>13. Cardinality(WaitsFor(p)) < Cardinality(WaitsFor(n))
  <2>1. WaitsFor(p) \in SUBSET (WaitsFor(n)) /\ WaitsFor(p) # WaitsFor(n)
    BY <1>11, <1>12
  <2>2. QED
    BY <1>4, <2>1, FS_Subset
<1>14. QED
  BY <1>4, <1>7, <1>10, <1>13

\* What validate finds wrong with a document before it looks for a cycle.
LEMMA UnsoundDocument ==
  ASSUME NEW f \in Flow, StructureError(f) # "none"
  PROVE  \/ Cardinality(Ids(f)) < Len(f.nodes)
         \/ \E k \in DOMAIN f.edges :
              \/ {f.edges[k].from, f.edges[k].to} \ Ids(f) # {}
              \/ f.edges[k].handle \notin Outputs(Card(f, f.edges[k].from))
              \/ f.edges[k].from = f.edges[k].to /\ f.edges[k].to \in Ids(f)
<1>1. CASE DuplicateNode(f)
  <2>1. f.nodes \in Seq(Node)
    BY DEF Flow
  <2> DEFINE len == Len(f.nodes)
  <2>2. DOMAIN f.nodes = 1..len /\ len \in Nat
    BY <2>1, LenProperties
  <2>3. PICK i, j \in 1..len : i # j /\ f.nodes[i].id = f.nodes[j].id
    BY <1>1, <2>2 DEF DuplicateNode
  <2> DEFINE S == (1..len) \ {j}
             g == [x \in S |-> f.nodes[x].id]
  <2>4. IsFiniteSet(S) /\ Cardinality(S) = len - 1
    <3>1. 1 \in Int /\ len \in Int
      BY <2>2
    <3> HIDE DEF len
    <3>2. IsFiniteSet(1..len) /\ Cardinality(1..len) = IF 1 > len THEN 0 ELSE len - 1 + 1
      BY <3>1, FS_Interval, Zenon
    <3>3. ~(1 > len)
      BY <2>2, <2>3
    <3>4. Cardinality(1..len) = len
      BY <2>2, <3>2, <3>3
    <3>5. QED
      BY <2>3, <3>2, <3>4, FS_RemoveElement
  <2>5. g \in Surjection(S, Ids(f))
    BY <2>2, <2>3 DEF Surjection, Ids
  <2>6. Cardinality(Ids(f)) <= Cardinality(S) /\ IsFiniteSet(Ids(f))
    <3> HIDE DEF S, g
    <3>1. QED
      BY <2>4, <2>5, FS_Surjection
  <2>7. Cardinality(Ids(f)) \in Nat
    BY <2>6, FS_CardinalityType
  <2>8. QED
    BY <2>2, <2>4, <2>6, <2>7
<1>2. CASE ~DuplicateNode(f)
  <2>1. BadEdges(f) # {}
    BY <1>2 DEF StructureError
  <2>2. QED
    BY <2>1 DEF BadEdges, DanglingEdge, SelfLoop, UnknownHandle
<1>3. QED
  BY <1>1, <1>2

\* A document with no id twice has as many ids as cards.
LEMMA NoIdTwice ==
  ASSUME NEW f \in Flow, ~DuplicateNode(f)
  PROVE  Cardinality(Ids(f)) = Len(f.nodes)
<1> DEFINE len == Len(f.nodes)
           g == [i \in 1..len |-> f.nodes[i].id]
<1>1. f.nodes \in Seq(Node)
  BY DEF Flow
<1>2. DOMAIN f.nodes = 1..len /\ len \in Nat
  BY <1>1, LenProperties
<1>3. g \in Bijection(1..len, Ids(f))
  BY <1>2 DEF Bijection, Injection, Surjection, IsInjective, Ids, DuplicateNode
<1>4. IsFiniteSet(1..len) /\ Cardinality(1..len) = len
  <2>1. \A m \in Nat : IsFiniteSet(1..m) /\ Cardinality(1..m) = m
    <3>1. TAKE m \in Nat
    <3>2. 1 \in Int /\ m \in Int
      OBVIOUS
    <3>3. IsFiniteSet(1..m) /\ Cardinality(1..m) = IF 1 > m THEN 0 ELSE m - 1 + 1
      BY <3>2, FS_Interval, Zenon
    <3>4. QED
      BY <3>3
  <2>2. QED
    BY <1>2, <2>1
<1>5. QED
  <2> HIDE DEF g
  <2>1. QED
    BY <1>3, <1>4, FS_Bijection DEF ExistsBijection

\* Why a document is refused.
RefusalInv ==
  /\ phase = "refused" <=> verdict # "none"
  /\ phase = "refused" => StructureError(flow) # "none" \/ Cyclic # {}

LEMMA RefusedUnrunnable == IInv /\ RefusalInv => RefusedExactlyIfUnrunnable
<1>1. SUFFICES ASSUME IInv, RefusalInv PROVE RefusedExactlyIfUnrunnable
  OBVIOUS
<1>2. TypeOK /\ OrderInv
  BY <1>1 DEF IInv
<1>3. ASSUME phase = "refused" PROVE Unrunnable
  <2>1. SUFFICES ASSUME StructureError(flow) # "none",
                        NEW k \in DOMAIN flow.edges,
                        EdgeAt(k).from = EdgeAt(k).to, EdgeAt(k).to \in Nodes
                 PROVE  Cyclic # {}
    BY <1>1, <1>2, <1>3, RunTyped, UnsoundDocument DEF RefusalInv, Unrunnable
  <2>2. EdgeAt(k).to \in Beyond({EdgeAt(k).to})
    BY <2>1, WiredBeyond
  <2>3. QED
    BY <2>1, <2>2 DEF Cyclic
<1>4. ASSUME phase \in {"running", "sending", "finished", "quit"} PROVE ~Unrunnable
  <2>1. flow \in Flow /\ StructureError(flow) = "none"
    BY <1>2, <1>4, RunTyped DEF OrderInv, Refusable
  <2>2. ~(Cardinality(Nodes) < Len(flow.nodes))
    <3>1. Cardinality(Nodes) = Len(flow.nodes)
      BY <2>1, SoundDocument, NoIdTwice
    <3>2. Len(flow.nodes) \in Nat
      BY <2>1, LenProperties DEF Flow
    <3>3. QED
      BY <3>1, <3>2
  <2>3. Cyclic = {}
    BY <1>2, <1>4, CompleteIsAcyclic DEF Complete, Refusable
  <2>4. QED
    BY <2>1, <2>2, <2>3, SoundEdges DEF Unrunnable
<1>5. QED
  BY <1>1, <1>3, <1>4, Zenon DEF RefusalInv, RefusedExactlyIfUnrunnable

LEMMA RefusalKept ==
  ASSUME RefusalInv, UNCHANGED <<run, verdict>>, phase # "refused", phase' # "refused"
  PROVE  RefusalInv'
BY DEF RefusalInv

LEMMA NextRefusal ==
  ASSUME IInv, RefusalInv, [Next]_vars
  PROVE  RefusalInv'
<1>1. TypeOK /\ OrderInv /\ ProgressInv
  BY DEF IInv
<1>2. CASE UNCHANGED vars
  BY <1>2 DEF vars, RefusalInv, Cyclic, Beyond, DependsOn
<1>3. CASE Validate
  <2>1. CASE StructureError(flow) # "none"
    <3>1. verdict' = StructureError(flow) /\ phase' = "refused" /\ run' = run
      BY <1>3, <2>1 DEF Validate, Refuse
    <3>2. QED
      BY <2>1, <3>1 DEF RefusalInv
  <2>2. CASE StructureError(flow) = "none"
    BY <1>3, <2>2, RefusalKept DEF Validate
  <2>3. QED
    BY <2>1, <2>2
<1>4. CASE Start
  <2>1. CASE Stuck # {}
    <3>1. verdict' = "cycle" /\ phase' = "refused" /\ run' = run
          /\ ready = {} /\ phase = "ordering"
      BY <1>4, <2>1 DEF Start, Refuse
    <3>2. Cyclic # {}
      BY <1>1, <2>1, <3>1, StuckIsCyclic DEF Refusable
    <3>3. Cyclic' = Cyclic
      BY <3>1 DEF Cyclic, Beyond, DependsOn
    <3>4. QED
      BY <3>1, <3>2, <3>3 DEF RefusalInv
  <2>2. CASE Stuck = {}
    BY <1>4, <2>2, RefusalKept DEF Start
  <2>3. QED
    BY <2>1, <2>2
<1>5. CASE \/ \E n \in NodeId : PlaceNext(n)
           \/ Finish \/ Quit
  BY <1>5, RefusalKept DEF PlaceNext, Finish, Quit
<1>6. CASE \E n \in NodeId : Step(n)
  <2>1. PICK n \in NodeId : Step(n)
    BY <1>6
  <2>2. IsNext(n) /\ UNCHANGED <<run, verdict>> /\ phase' \in {phase, "sending"}
    BY <2>1 DEF Step, SkipAfterFailure, SkipUntaken, RunLocal, FailBeforeSending, Send
  <2>3. QED
    BY <2>2, RefusalKept DEF IsNext
<1>7. CASE Answer
  BY <1>7, RefusalKept DEF Answer
<1>8. QED
  BY <1>2, <1>3, <1>4, <1>5, <1>6, <1>7 DEF Next, Progress

\* validate and execution_order refuse a document exactly when it cannot run: a
\* refused one has two cards with one id, an edge to nowhere or from an output that
\* is not there, or cards that wait for themselves; one that starts has none of
\* these.  What runs waits for nothing twice over.
THEOREM RefusesExactlyTheUnrunnable == Spec => []RefusedExactlyIfUnrunnable
<1>1. Init => RefusalInv
  BY DEF Init, RefusalInv
<1>2. IInv /\ RefusalInv /\ [Next]_vars => RefusalInv'
  BY NextRefusal
<1>3. Spec => []RefusalInv
  BY <1>1, <1>2, Invariance, PTL DEF Spec
<1>4. QED
  BY <1>3, Invariance, RefusedUnrunnable, PTL

----------------------------------------------------------------------------
(***************************************************************************)
(* The order is the one the document decides.                              *)
(***************************************************************************)
Prefix(i) == {order[j] : j \in 1..(i - 1)}

\* Each card placed came first in the document among those that could go.
GreedyInv ==
  ~Refusable =>
    \A i \in DOMAIN order : \A m \in Nodes \ Prefix(i) :
      Before(flow, m) \subseteq Prefix(i) => Place(flow, order[i]) <= Place(flow, m)

LEMMA PlaceNextGreedy ==
  ASSUME TypeOK, OrderInv, GreedyInv, NEW n \in NodeId, PlaceNext(n)
  PROVE  GreedyInv'
<1>1. /\ phase = "ordering" /\ phase' = "ordering" /\ run' = run /\ n \in ready
      /\ \A m \in ready : Place(flow, n) <= Place(flow, m)
      /\ order' = Append(order, n)
  BY DEF PlaceNext
<1>2. ready = {m \in Nodes \ Placed : Before(flow, m) \subseteq Placed} /\ n \in Nodes
  BY <1>1 DEF OrderInv, Refusable
<1>3. /\ DOMAIN order = 1..Len(order) /\ Len(order) \in Nat
      /\ DOMAIN order' = 1..(Len(order) + 1)
      /\ order'[Len(order) + 1] = n
      /\ \A i \in DOMAIN order : order'[i] = order[i]
  BY <1>1, <1>2, PlacedAppend DEF TypeOK
<1>4. \A i \in DOMAIN order' : Prefix(i)' = Prefix(i)
  BY <1>3 DEF Prefix
<1>5. Prefix(Len(order) + 1) = Placed
  BY <1>3 DEF Prefix, Placed
<1>6. SUFFICES ASSUME NEW i \in DOMAIN order', NEW m \in Nodes \ Prefix(i),
                      Before(flow, m) \subseteq Prefix(i)
               PROVE  Place(flow, order'[i]) <= Place(flow, m)
  BY <1>1, <1>4 DEF GreedyInv
<1>7. CASE i = Len(order) + 1
  BY <1>1, <1>2, <1>3, <1>5, <1>6, <1>7
<1>8. CASE i \in DOMAIN order
  BY <1>1, <1>3, <1>6, <1>8 DEF GreedyInv, Refusable
<1>9. QED
  BY <1>3, <1>7, <1>8

LEMMA GreedyKept ==
  ASSUME GreedyInv, UNCHANGED <<run, order>>, Refusable' \/ ~Refusable
  PROVE  GreedyInv'
BY DEF GreedyInv, Prefix

LEMMA NextGreedy ==
  ASSUME IInv, GreedyInv, [Next]_vars
  PROVE  GreedyInv'
<1>1. TypeOK /\ OrderInv /\ ProgressInv
  BY DEF IInv
<1>2. CASE UNCHANGED vars
  BY <1>2, GreedyKept DEF vars, orderVars, Refusable
<1>3. CASE Validate
  <2>1. phase' = "refused" \/ order' = <<>>
    BY <1>3 DEF Validate, Refuse
  <2>2. QED
    BY <2>1 DEF GreedyInv, Refusable
<1>4. CASE \E n \in NodeId : PlaceNext(n)
  BY <1>1, <1>4, PlaceNextGreedy
<1>5. CASE Start \/ Finish \/ Quit
  BY <1>5, GreedyKept DEF Start, Refuse, Finish, Quit, orderVars, Refusable
<1>6. CASE \E n \in NodeId : Step(n)
  <2>1. PICK n \in NodeId : Step(n)
    BY <1>6
  <2>2. phase = "running" /\ UNCHANGED <<run, order>>
    BY <2>1 DEF Step, SkipAfterFailure, SkipUntaken, RunLocal, FailBeforeSending, Send,
                IsNext, orderVars
  <2>3. QED
    BY <2>2, GreedyKept DEF Refusable
<1>7. CASE Answer
  BY <1>7, GreedyKept DEF Answer, orderVars, Refusable
<1>8. QED
  BY <1>2, <1>3, <1>4, <1>5, <1>6, <1>7 DEF Next, Progress

\* A complete order has every card once.
LEMMA OrderIsPermutation ==
  ASSUME TypeOK, Complete
  PROVE  /\ Permutation(order) /\ Respects(order)
         /\ Cardinality(Nodes) \in Nat
         /\ order \in [1..Cardinality(Nodes) -> Nodes]
<1>1. /\ DOMAIN order = 1..Len(order) /\ Len(order) \in Nat
      /\ order \in [1..Len(order) -> Nodes]
  BY LenProperties DEF TypeOK
<1>2. \A i, j \in DOMAIN order : order[i] = order[j] => i = j
  BY DEF Complete, OrderInv
<1>3. \A n \in Nodes : \E i \in DOMAIN order : order[i] = n
  BY DEF Complete, OrderInv, Placed
<1>4. order \in Bijection(1..Len(order), Nodes)
  BY <1>1, <1>2, <1>3 DEF Bijection, Injection, Surjection, IsInjective
<1>5. IsFiniteSet(1..Len(order)) /\ Cardinality(1..Len(order)) = Len(order)
  <2>1. \A len \in Nat : /\ IsFiniteSet(1..len)
                         /\ Cardinality(1..len) = IF 1 > len THEN 0 ELSE len - 1 + 1
    <3>1. TAKE len \in Nat
    <3>2. 1 \in Int /\ len \in Int
      OBVIOUS
    <3>3. QED
      BY <3>2, FS_Interval, Zenon
  <2>2. \A len \in Nat : Cardinality(1..len) = len
    BY <2>1
  <2>3. QED
    BY <1>1, <2>1, <2>2
<1>6. ExistsBijection(1..Len(order), Nodes)
  BY <1>4 DEF ExistsBijection
<1>7. Cardinality(Nodes) = Len(order)
  BY <1>5, <1>6, FS_Bijection
<1>8. Permutation(order)
  BY <1>3, <1>7 DEF Permutation
<1>9. Respects(order)
  <2>1. SUFFICES ASSUME NEW d \in DependsOn, NEW i \in DOMAIN order, NEW j \in DOMAIN order,
                        order[i] = d[1], order[j] = d[2]
                 PROVE  i < j
    BY DEF Respects
  <2>2. PICK k \in DOMAIN flow.edges : d = <<EdgeAt(k).from, EdgeAt(k).to>>
    BY Dependencies
  <2>3. d[1] \in Nodes /\ d[2] \in Nodes /\ Position(d[1]) < Position(d[2])
    BY <2>2, PositionRespectsEdges
  <2>4. i = Position(d[1]) /\ j = Position(d[2])
    BY <2>1, <2>3, PositionOfStep
  <2>5. QED
    BY <2>3, <2>4
<1>10. QED
  BY <1>1, <1>7, <1>8, <1>9

\* A list of all the cards that is no longer than they are many has each once.
LEMMA NoneTwice ==
  ASSUME NEW S, IsFiniteSet(S), NEW N \in Nat, Cardinality(S) = N,
         NEW s \in [1..N -> S], \A n \in S : \E i \in DOMAIN s : s[i] = n
  PROVE  \A i, j \in 1..N : s[i] = s[j] => i = j
<1>1. s \in Surjection(1..N, S)
  BY DEF Surjection
<1>2. IsFiniteSet(1..N) /\ Cardinality(1..N) = N
  <2>1. 1 \in Int /\ N \in Int
    OBVIOUS
  <2>2. /\ IsFiniteSet(1..N)
        /\ Cardinality(1..N) = IF 1 > N THEN 0 ELSE N - 1 + 1
    BY <2>1, FS_Interval, Zenon
  <2>3. QED
    BY <2>2
<1>3. s \in Injection(1..N, S)
  BY <1>1, <1>2, FS_SurjSameCardinalityImpliesInj
<1>4. QED
  BY <1>3 DEF Injection, IsInjective

\* Different cards of a document have different places in it.
LEMMA PlacesDiffer ==
  ASSUME TypeOK, NEW n \in Nodes, NEW m \in Nodes, n # m
  PROVE  Place(flow, n) \in Nat /\ Place(flow, m) \in Nat /\ Place(flow, n) # Place(flow, m)
<1>1. flow \in Flow /\ flow.nodes \in Seq(Node)
  BY RunTyped DEF Flow
<1>2. DOMAIN flow.nodes \subseteq Nat
  BY <1>1, LenProperties
<1>3. QED
  BY <1>1, <1>2, CardOfId DEF Card

\* Another order that respects the dependencies first differs where a later card
\* of the document takes the place.
LEMMA LeastOrder ==
  ASSUME TypeOK, Complete, GreedyInv,
         NEW s \in [1..Cardinality(Nodes) -> Nodes], Permutation(s), Respects(s)
  PROVE  EarlierInDocument(order, s)
<1>1. PICK N \in Nat : N = Cardinality(Nodes)
  BY OrderIsPermutation
<1>2. /\ order \in [1..N -> Nodes] /\ s \in [1..N -> Nodes] /\ IsFiniteSet(Nodes)
      /\ DOMAIN order = 1..N /\ DOMAIN s = 1..N
      /\ \A n \in Nodes : \E i \in DOMAIN s : s[i] = n
  BY <1>1, OrderIsPermutation, RunTyped DEF Permutation
<1>3. \A i, j \in 1..N : s[i] = s[j] => i = j
  <2>1. \A S : IsFiniteSet(S) /\ Cardinality(S) = N =>
          \A t \in [1..N -> S] : (\A n \in S : \E i \in DOMAIN t : t[i] = n) =>
            \A i, j \in 1..N : t[i] = t[j] => i = j
    BY NoneTwice
  <2> HIDE DEF Nodes
  <2>2. QED
    BY <1>1, <1>2, <2>1
<1>4. SUFFICES ASSUME s # order PROVE EarlierInDocument(order, s)
  BY DEF EarlierInDocument
<1>5. PICK i \in 1..N : order[i] # s[i] /\ \A j \in 1..(i - 1) : order[j] = s[j]
  <2> DEFINE D == {i \in 1..N : order[i] # s[i]}
  <2>1. D \in SUBSET Nat /\ D # {}
    <3>1. order = [i \in 1..N |-> order[i]] /\ s = [i \in 1..N |-> s[i]]
      BY <1>2
    <3>2. QED
      BY <1>4, <3>1
  <2>2. Min(D) \in D /\ \A i \in D : Min(D) <= i
    BY <2>1, MinIsAMember
  <2>3. PICK i \in D : \A j \in D : i <= j
    BY <2>2
  <2>4. QED
    BY <2>3
<1> DEFINE m == s[i]
<1>6. m \in Nodes /\ order[i] \in Nodes
  BY <1>2, <1>5
<1>7. m \notin Prefix(i)
  <2>1. SUFFICES ASSUME NEW j \in 1..(i - 1), order[j] = m PROVE FALSE
    BY DEF Prefix
  <2>2. s[j] = s[i] /\ j \in 1..N /\ j # i
    BY <1>2, <1>5, <2>1
  <2>3. QED
    BY <1>3, <1>5, <2>2
<1>8. Before(flow, m) \subseteq Prefix(i)
  <2>1. SUFFICES ASSUME NEW p \in Before(flow, m) PROVE p \in Prefix(i)
    OBVIOUS
  <2>2. PICK k \in DOMAIN flow.edges : EdgeAt(k).from = p /\ EdgeAt(k).to = m
    BY DEF Before, Upstream
  <2>3. p \in Nodes /\ <<p, m>> \in DependsOn
    BY <2>2, PositionRespectsEdges, Dependencies
  <2>4. PICK j \in DOMAIN s : s[j] = p
    BY <1>2, <2>3
  <2>5. j < i
    BY <1>2, <1>5, <2>3, <2>4 DEF Respects
  <2>6. j \in 1..(i - 1)
    BY <1>2, <1>5, <2>4, <2>5
  <2>7. QED
    BY <1>5, <2>4, <2>6 DEF Prefix
<1>9. Place(flow, order[i]) <= Place(flow, m)
  BY <1>2, <1>5, <1>6, <1>7, <1>8 DEF GreedyInv, Complete
<1>10. Place(flow, order[i]) < Place(flow, m)
  BY <1>5, <1>6, <1>9, PlacesDiffer
<1>11. QED
  BY <1>2, <1>5, <1>10 DEF EarlierInDocument

LEMMA OrderDecided == IInv /\ GreedyInv => OrderIsTheDocuments
<1>1. SUFFICES ASSUME IInv, GreedyInv, phase = "running"
               PROVE  /\ Permutation(order) /\ Respects(order)
                      /\ \A s \in [1..Cardinality(Nodes) -> Nodes] :
                           Permutation(s) /\ Respects(s) => EarlierInDocument(order, s)
  BY DEF OrderIsTheDocuments
<1>2. TypeOK /\ Complete
  BY <1>1 DEF IInv, Complete, Refusable
<1>3. QED
  BY <1>1, <1>2, OrderIsPermutation, LeastOrder

\* The order a run is taken in depends on nothing but the document: of all the
\* orders in which every card follows what feeds it, execution_order returns the
\* one that is least by the cards' places in the file.
THEOREM OrderIsDecided == Spec => []OrderIsTheDocuments
<1>1. Init => GreedyInv
  BY DEF Init, GreedyInv, Refusable
<1>2. IInv /\ GreedyInv /\ [Next]_vars => GreedyInv'
  BY NextGreedy
<1>3. Spec => []GreedyInv
  BY <1>1, <1>2, Invariance, PTL DEF Spec
<1>4. QED
  BY <1>3, Invariance, OrderDecided, PTL

----------------------------------------------------------------------------
(***************************************************************************)
(* Why each step ran, or did not.                                          *)
(***************************************************************************)
\* A result is what a card of its kind can come to, and only steps of the run
\* have one.
Formed ==
  /\ \A n \in NodeId :
       /\ result[n].status = "pending" => ~Decided(n)
       /\ Decided(n) => n \in Included
       /\ result[n].status = "skipped" <=> result[n].why \in SkipKinds
       /\ IF result[n].status = "passed"
            THEN result[n].branch \in Outputs(Card(flow, n))
            ELSE result[n].branch = "none"
  /\ current # NoNode => Card(flow, current).kind = "request"
  /\ phase = "finished" => Left = {}

\* The gate's view of a step that was taken up is still what decided it.
GateHolds(n) ==
  /\ Executed(n) => MayRun(n)
  /\ result[n].why = "upstream_failed" => DeadInto(n) # {}
  /\ result[n].why = "branch_not_taken" => DeadInto(n) = {} /\ ~MayRun(n)

Gated == \A n \in Included : GateHolds(n)

\* The inductive invariant of the reasons.
WhyInv == IInv /\ Formed /\ Gated /\ SkipsNameTheirCause

----------------------------------------------------------------------------
(***************************************************************************)
(* What a card of each kind can come to.                                   *)
(***************************************************************************)
\* A result with the output a card of its kind has, if it passed.
Fitting(node, r) ==
  /\ r \in Result
  /\ r.status # "pending"
  /\ r.status = "skipped" <=> r.why \in SkipKinds
  /\ IF r.status = "passed" THEN r.branch \in Outputs(node) ELSE r.branch = "none"

LEMMA PassedFits ==
  ASSUME NEW node \in Node, NEW h \in Outputs(node), NEW names \in SUBSET Name
  PROVE  Fitting(node, Passed(h, names))
<1>1. h \in Handles
  BY DEF Outputs, Handles
<1>2. QED
  BY <1>1 DEF Fitting, Passed, Pending, Result, Handles, SkipKinds

LEMMA FailedFits ==
  ASSUME NEW node, NEW why \in FailureKinds, NEW names \in SUBSET Name
  PROVE  Fitting(node, Failed(why, names))
BY DEF Fitting, Failed, Pending, Result, Handles, FailureKinds, SkipKinds

LEMMA SkippedFits ==
  ASSUME NEW node, NEW why \in SkipKinds, NEW n \in NodeId \union {NoNode},
         NEW h \in Handles \union {"other"}
  PROVE  Fitting(node, Skipped(why, n, h))
BY DEF Fitting, Skipped, Pending, Result, Handles, SkipKinds

LEMMA LocalFits ==
  ASSUME NEW node \in Node, node.kind # "request", NEW r \in LocalOutcomes(node)
  PROVE  Fitting(node, r) /\ Outcome(r)
<1> USE DEF FailureKinds
<1>1. CASE node.kind = "condition"
  <2>1. r \in TextOutcomes(node, {Passed("true", {}), Passed("false", {})})
    BY <1>1, Zenon DEF LocalOutcomes
  <2>2. r \in {Failed("undefined", {}), Failed("resolve", {}),
               Passed("true", {}), Passed("false", {})}
    BY <2>1 DEF TextOutcomes
  <2>3. "true" \in Outputs(node) /\ "false" \in Outputs(node)
    BY <1>1 DEF Outputs
  <2>4. QED
    BY <2>2, <2>3, PassedFits, FailedFits, LocalOutcomesShape
<1>2. CASE node.kind = "display"
  <2>1. r \in TextOutcomes(node, {Passed("none", {})})
    BY <1>2, Zenon DEF LocalOutcomes
  <2>2. r \in {Failed("undefined", {}), Failed("resolve", {}), Passed("none", {})}
    BY <2>1 DEF TextOutcomes
  <2>3. "none" \in Outputs(node)
    BY <1>2 DEF Outputs
  <2>4. QED
    BY <2>2, <2>3, PassedFits, FailedFits, LocalOutcomesShape
<1>3. CASE node.kind = "variables"
  <2>1. r \in DeclarationOutcomes(node)
    BY <1>3, Zenon DEF LocalOutcomes
  <2>2. "none" \in Outputs(node)
    BY <1>3 DEF Outputs
  <2>3. CASE r = Passed("none", Defines(node))
    BY <2>2, <2>3, DefinesNames, PassedFits, LocalOutcomesShape
  <2>4. CASE \E k : r = Failed("undefined", DefinedBy(node, k - 1))
                    \/ r = Failed("resolve", DefinedBy(node, k - 1))
    BY <2>4, DefinesNames, FailedFits, LocalOutcomesShape
  <2>5. QED
    BY <2>1, <2>3, <2>4 DEF DeclarationOutcomes
<1>4. node.kind \in Kinds
  BY DEF Node
<1>5. QED
  BY <1>1, <1>2, <1>3, <1>4 DEF Kinds

LEMMA AnswerFits ==
  ASSUME NEW node \in Node, node.kind = "request",
         NEW r \in {Failed("transport", {})} \union AnswerOutcomes(node)
  PROVE  Fitting(node, r) /\ Outcome(r) /\ r.branch = "none"
<1> USE DEF FailureKinds
<1>1. Outcome(r)
  BY AnswerOutcomesShape
<1>2. Fitting(node, r)
  <2>1. CASE r = Failed("transport", {}) \/ r = Failed("assertions", Defines(node))
    BY <2>1, DefinesNames, FailedFits
  <2>2. CASE r = Passed("none", Defines(node))
    <3>1. "none" \in Outputs(node)
      BY DEF Outputs
    <3>2. QED
      BY <2>2, <3>1, DefinesNames, PassedFits
  <2>3. CASE \E found \in SUBSET Declared(node) :
               r = Failed("extraction", {node.pairs[k].name : k \in found})
    <3>1. PICK found \in SUBSET Declared(node) :
                 r = Failed("extraction", {node.pairs[k].name : k \in found})
      BY <2>3
    <3>2. {node.pairs[k].name : k \in found} \in SUBSET Name
      BY DefinesNames
    <3>3. QED
      BY <3>1, <3>2, FailedFits
  <2>4. QED
    BY <2>1, <2>2, <2>3 DEF AnswerOutcomes
<1>3. QED
  BY <1>1, <1>2 DEF Fitting, Outputs

----------------------------------------------------------------------------
(***************************************************************************)
(* What the gate says of an edge, once the step behind it has an outcome.  *)
(***************************************************************************)
LEMMA OneVerdict ==
  ASSUME TypeOK, Formed, NEW k \in DOMAIN flow.edges,
         EdgeAt(k).from \in Included => Decided(EdgeAt(k).from)
  PROVE  /\ Dead(EdgeAt(k)) \/ Inactive(EdgeAt(k)) \/ Live(EdgeAt(k))
         /\ Live(EdgeAt(k)) => ~Dead(EdgeAt(k)) /\ ~Inactive(EdgeAt(k))
         /\ Inactive(EdgeAt(k)) => ~Dead(EdgeAt(k))
<1> DEFINE p == EdgeAt(k).from
<1>1. p \in NodeId /\ result[p] \in Result
  BY EdgeTyped DEF TypeOK
<1>2. CASE p \notin Included
  BY <1>2 DEF Dead, Inactive, Live
<1>3. CASE p \in Included
  <2>1. Decided(p)
    BY <1>3
  <2>2. /\ result[p].status # "pending"
        /\ result[p].status = "skipped" <=> result[p].why \in SkipKinds
    BY <1>1, <2>1 DEF Formed
  <2>3. result[p].status \in {"passed", "failed", "skipped"}
    BY <1>1, <2>2 DEF Result
  <2>4. QED
    BY <1>3, <2>2, <2>3 DEF Dead, Inactive, Live, UntakenOutput, SkipKinds
<1>4. QED
  BY <1>2, <1>3

\* The gate's view of a step changes only with a step that feeds it.
LEMMA ViewKept ==
  ASSUME UNCHANGED run, NEW n,
         \A k \in Upstream(flow, n) : result'[EdgeAt(k).from] = result[EdgeAt(k).from]
  PROVE  /\ DeadInto(n)' = DeadInto(n) /\ InactiveInto(n)' = InactiveInto(n)
         /\ LiveInto(n)' = LiveInto(n) /\ (MayRun(n)' <=> MayRun(n))
<1>1. Upstream(flow, n)' = Upstream(flow, n)
  BY DEF Upstream
<1>2. \A k \in Upstream(flow, n) :
        /\ Dead(EdgeAt(k))' <=> Dead(EdgeAt(k))
        /\ Inactive(EdgeAt(k))' <=> Inactive(EdgeAt(k))
        /\ Live(EdgeAt(k))' <=> Live(EdgeAt(k))
  BY DEF Dead, Inactive, Live, UntakenOutput
<1>3. /\ DeadInto(n)' = DeadInto(n) /\ InactiveInto(n)' = InactiveInto(n)
      /\ LiveInto(n)' = LiveInto(n)
  BY <1>1, <1>2 DEF DeadInto, InactiveInto, LiveInto
<1>4. QED
  BY <1>1, <1>3 DEF MayRun

\* A step that is bypassed waits for outputs that were not taken.
LEMMA BypassedBy ==
  ASSUME TypeOK, Formed, NEW n, DeadInto(n) = {}, ~MayRun(n),
         \A k \in Upstream(flow, n) :
           EdgeAt(k).from \in Included => Decided(EdgeAt(k).from)
  PROVE  /\ Upstream(flow, n) # {} /\ InactiveInto(n) = Upstream(flow, n)
         /\ LiveInto(n) = {}
<1>1. Upstream(flow, n) # {} /\ LiveInto(n) = {}
  BY DEF MayRun
<1>2. \A k \in Upstream(flow, n) : Inactive(EdgeAt(k))
  BY <1>1, OneVerdict DEF DeadInto, LiveInto, Upstream
<1>3. QED
  BY <1>1, <1>2 DEF InactiveInto

----------------------------------------------------------------------------
(***************************************************************************)
(* Formed and Gated are kept.                                              *)
(***************************************************************************)
\* What a step leaves when it finishes as it is taken up.
LEMMA StepFits ==
  ASSUME TypeOK, NEW n \in NodeId, SettlesAtOnce(n)
  PROVE  \E r : /\ Settled(n, r) /\ Fitting(Card(flow, n), r)
                /\ r.status \in {"passed", "failed"} => MayRun(n)
                /\ r.why = "branch_not_taken" => DeadInto(n) = {} /\ ~MayRun(n)
<1>1. IsNext(n) /\ n \in Nodes
  BY StepSettles, StepRuns
<1>2. PICK r : Settled(n, r)
  BY StepSettles
<1>3. CASE SkipAfterFailure(n)
  <2> DEFINE e == EdgeAt(Min(DeadInto(n)))
             s == Skipped("upstream_failed", Culprit(e), "none")
  <2>1. DeadInto(n) # {} /\ Decide(n, s)
    BY <1>3 DEF SkipAfterFailure
  <2>2. result'[n] = s /\ result'[n] = r
    BY <1>2, <2>1 DEF Decide, TypeOK, Settled
  <2>3. s.status = "skipped" /\ s.why = "upstream_failed" /\ s.branch = "none"
    BY DEF Skipped, Pending
  <2>4. Fitting(Card(flow, n), r)
    BY <1>2, <2>2, <2>3 DEF Fitting, Settled, SkipKinds
  <2>5. QED
    BY <1>2, <2>2, <2>3, <2>4
<1>4. CASE SkipUntaken(n)
  <2> DEFINE e == EdgeAt(Min(InactiveInto(n)))
             s == IF InactiveInto(n) # {} THEN UntakenBranch(e)
                  ELSE Skipped("branch_not_taken", n, "none")
  <2>1. DeadInto(n) = {} /\ ~MayRun(n) /\ Decide(n, s)
    BY <1>4 DEF SkipUntaken
  <2>2. result'[n] = s /\ result'[n] = r
    BY <1>2, <2>1 DEF Decide, TypeOK, Settled
  <2>3. s.status = "skipped" /\ s.why = "branch_not_taken" /\ s.branch = "none"
    BY DEF Skipped, Pending, UntakenBranch
  <2>4. Fitting(Card(flow, n), r)
    BY <1>2, <2>2, <2>3 DEF Fitting, Settled, SkipKinds
  <2>5. QED
    BY <1>2, <2>1, <2>2, <2>3, <2>4
<1>5. CASE RunLocal(n)
  <2>1. PICK s \in LocalOutcomes(Card(flow, n)) : Decide(n, s)
    BY <1>5 DEF RunLocal
  <2>2. Fitting(Card(flow, n), s) /\ Outcome(s)
    BY <1>1, <1>5, <2>1, CardTyped, LocalFits DEF RunLocal
  <2>3. DeadInto(n) = {} /\ MayRun(n)
    BY <1>5 DEF RunLocal, MayRun
  <2>4. QED
    BY <2>1, <2>2, <2>3, OutcomeSettles DEF Outcome, SkipKinds
<1>6. CASE FailBeforeSending(n)
  <2>1. PICK why \in {"undefined", "resolve"} : Decide(n, Failed(why, {}))
    BY <1>6 DEF FailBeforeSending
  <2>2. Fitting(Card(flow, n), Failed(why, {})) /\ Outcome(Failed(why, {}))
    BY <2>1, FailedFits, FailedOutcome DEF FailureKinds
  <2>3. DeadInto(n) = {} /\ MayRun(n)
    BY <1>6 DEF FailBeforeSending, MayRun
  <2>4. QED
    BY <2>1, <2>2, <2>3, OutcomeSettles DEF Outcome, SkipKinds
<1>7. QED
  BY <1>3, <1>4, <1>5, <1>6 DEF SettlesAtOnce

Fed(n) == \A k \in Upstream(flow, n) :
            EdgeAt(k).from \in Included => Decided(EdgeAt(k).from)

\* The end of the loop's body.
LEMMA DecideReasons ==
  ASSUME TypeOK, StepsFollowWhatFeedsThem, Formed, Gated, UNCHANGED run,
         NEW n \in Included, ~Decided(n), Fed(n),
         current \in {NoNode, n}, current' = NoNode, phase' # "finished",
         NEW r, Fitting(Card(flow, n), r), Decide(n, r),
         r.status \in {"passed", "failed"} => MayRun(n),
         r.why = "upstream_failed" => DeadInto(n) # {},
         r.why = "branch_not_taken" => DeadInto(n) = {} /\ ~MayRun(n)
  PROVE  Formed' /\ Gated'
<1>1. n \in NodeId /\ n # NoNode /\ Included \subseteq NodeId
  BY RunTyped, ValuesAssumption
<1>2. /\ result'[n] = r /\ r # Pending
      /\ \A m \in NodeId : m # n => result'[m] = result[m]
  BY <1>1, DecideOnly DEF Fitting
<1>3. Formed'
  <2>1. SUFFICES ASSUME NEW m \in NodeId
                 PROVE  /\ result'[m].status = "pending" => ~Decided(m)'
                        /\ Decided(m)' => m \in Included
                        /\ result'[m].status = "skipped" <=> result'[m].why \in SkipKinds
                        /\ IF result'[m].status = "passed"
                             THEN result'[m].branch \in Outputs(Card(flow, m))
                             ELSE result'[m].branch = "none"
    BY Zenon DEF Formed
  <2>2. CASE m = n
    BY <1>2, <2>2 DEF Fitting
  <2>3. CASE m # n
    <3>1. result'[m] = result[m]
      BY <1>2, <2>3
    <3>2. QED
      BY <3>1 DEF Formed, Decided
  <2>4. QED
    BY <2>2, <2>3
<1>4. Gated'
  <2>1. SUFFICES ASSUME NEW m \in Included PROVE GateHolds(m)'
    BY DEF Gated
  <2>2. Decided(m) \/ m = n => Fed(m)
    BY DEF StepsFollowWhatFeedsThem, Upstream, Fed
  <2>3. Decided(m) \/ m = n => \A k \in Upstream(flow, m) : EdgeAt(k).from # n
    BY <2>2 DEF Fed
  <2>4. \A k \in Upstream(flow, m) : EdgeAt(k).from \in NodeId
    BY EdgeTyped DEF Upstream
  <2>5. Decided(m) \/ m = n =>
          \A k \in Upstream(flow, m) : result'[EdgeAt(k).from] = result[EdgeAt(k).from]
    BY <1>2, <2>3, <2>4
  <2>6. Decided(m) \/ m = n =>
          DeadInto(m)' = DeadInto(m) /\ (MayRun(m)' <=> MayRun(m))
    BY <2>5, ViewKept
  <2>7. CASE m = n
    BY <1>2, <2>6, <2>7, <1>1 DEF GateHolds, Executed
  <2>8. CASE m # n /\ Decided(m)
    <3>1. result'[m] = result[m] /\ current' # m
      BY <1>1, <1>2, <2>8, ValuesAssumption
    <3>2. GateHolds(m)
      BY DEF Gated
    <3>3. QED
      BY <2>6, <2>8, <3>1, <3>2 DEF GateHolds, Executed
  <2>9. CASE m # n /\ ~Decided(m)
    <3>1. result'[m] = Pending /\ current' # m
      BY <1>1, <1>2, <2>9, ValuesAssumption DEF Decided
    <3>2. QED
      BY <3>1, PendingShape DEF GateHolds, Executed
  <2>10. QED
    BY <2>7, <2>8, <2>9
<1>5. QED
  BY <1>3, <1>4

LEMMA NextFed ==
  ASSUME TypeOK, OrderInv, NEW n, IsNext(n)
  PROVE  Fed(n)
BY NextIsFed DEF Fed

LEMMA QuietReasons ==
  ASSUME Formed, Gated, UNCHANGED <<run, result, current>>, phase' = "finished" => Left = {}
  PROVE  Formed' /\ Gated'
<1>1. \A n : /\ DeadInto(n)' = DeadInto(n) /\ (MayRun(n)' <=> MayRun(n))
  BY ViewKept
<1>2. Gated'
  BY <1>1 DEF Gated, GateHolds, Executed
<1>3. Formed'
  <2>1. Left' = Left
    BY DEF Left
  <2>2. QED
    BY <2>1 DEF Formed, Decided
<1>4. QED
  BY <1>2, <1>3

LEMMA SendReasons ==
  ASSUME TypeOK, Formed, Gated, NEW n \in NodeId, Send(n)
  PROVE  Formed' /\ Gated'
<1>1. /\ UNCHANGED <<run, result>> /\ current' = n /\ MayRun(n) /\ n \in Included
      /\ Card(flow, n).kind = "request" /\ phase' = "sending"
  BY StepRuns DEF Send
<1>2. \A m : /\ DeadInto(m)' = DeadInto(m) /\ (MayRun(m)' <=> MayRun(m))
  BY <1>1, ViewKept
<1>3. Gated'
  <2>1. SUFFICES ASSUME NEW m \in Included PROVE GateHolds(m)'
    BY <1>1 DEF Gated
  <2>2. GateHolds(m)
    BY DEF Gated
  <2>3. QED
    BY <1>1, <1>2, <2>2 DEF GateHolds, Executed
<1>4. Formed'
  BY <1>1 DEF Formed, Decided
<1>5. QED
  BY <1>3, <1>4

\* The answer's outcome, and the card it is an outcome of.
LEMMA AnswerComesTo ==
  ASSUME TypeOK, ProgressInv, Formed, Answer
  PROVE  \E r : /\ Fitting(Card(flow, current), r) /\ Outcome(r) /\ r.branch = "none"
                /\ Decide(current, r)
<1>1. current \in Included /\ current # NoNode
  BY AnswerSettles, RunTyped, ValuesAssumption
<1>2. PICK r \in {Failed("transport", {})} \union AnswerOutcomes(Card(flow, current)) :
        Decide(current, r)
  BY DEF Answer
<1>3. Card(flow, current) \in Node /\ Card(flow, current).kind = "request"
  BY <1>1, CardTyped DEF Formed
<1>4. \A c \in Node : c.kind = "request" =>
        \A s \in {Failed("transport", {})} \union AnswerOutcomes(c) :
          Fitting(c, s) /\ Outcome(s) /\ s.branch = "none"
  BY AnswerFits
<1>5. QED
  BY <1>2, <1>3, <1>4

LEMMA SettleReasons ==
  ASSUME IInv, Formed, Gated, NEW n \in NodeId, SettlesAtOnce(n)
  PROVE  Formed' /\ Gated'
<1>1. TypeOK /\ OrderInv /\ ProgressInv /\ StepsFollowWhatFeedsThem
  BY DEF IInv
<1>2. /\ n \in Included /\ ~Decided(n) /\ phase = "running"
      /\ UNCHANGED <<run, phase, current>> /\ Fed(n)
  BY <1>1, StepSettles, StepRuns, NextFed
<1>3. current = NoNode
  BY <1>1, <1>2 DEF ProgressInv
<1>4. PICK r : /\ Settled(n, r) /\ Fitting(Card(flow, n), r)
               /\ r.status \in {"passed", "failed"} => MayRun(n)
               /\ r.why = "branch_not_taken" => DeadInto(n) = {} /\ ~MayRun(n)
  BY <1>1, StepFits
<1>5. Decide(n, r) /\ (r.why = "upstream_failed" => DeadInto(n) # {})
  BY <1>4 DEF Settled
<1>6. QED
  BY <1>1, <1>2, <1>3, <1>4, <1>5, DecideReasons

LEMMA AnswerReasons ==
  ASSUME IInv, Formed, Gated, Answer
  PROVE  Formed' /\ Gated'
<1>1. TypeOK /\ OrderInv /\ ProgressInv /\ StepsFollowWhatFeedsThem
  BY DEF IInv
<1>2. /\ current \in Included /\ ~Decided(current)
      /\ current' = NoNode /\ phase' = "running" /\ UNCHANGED run
  BY <1>1, AnswerSettles
<1>3. PICK r : /\ Fitting(Card(flow, current), r) /\ Outcome(r) /\ Decide(current, r)
  BY <1>1, AnswerComesTo
<1>4. Fed(current)
  BY <1>1, <1>2 DEF StepsFollowWhatFeedsThem, Upstream, Fed
<1>5. MayRun(current)
  BY <1>2 DEF Gated, GateHolds, Executed
<1>6. r.why \notin SkipKinds
  BY <1>3 DEF Outcome
<1>7. PICK n \in Included : n = current
  BY <1>2
<1>8. QED
  BY <1>1, <1>2, <1>3, <1>4, <1>5, <1>6, <1>7, DecideReasons DEF SkipKinds

----------------------------------------------------------------------------
(***************************************************************************)
(* The reason a skipped step shows is the reason.                          *)
(***************************************************************************)
\* What is wired behind a step, or behind what is behind it.
LEMMA WiredBehind ==
  ASSUME NEW c \in Included, NEW k \in DOMAIN flow.edges, EdgeAt(k).to \in Included,
         EdgeAt(k).from \in {c} \union Behind({c})
  PROVE  EdgeAt(k).to \in Behind({c})
<1>1. SUFFICES ASSUME NEW S \in SUBSET Included,
                      \A j \in DOMAIN flow.edges :
                        /\ EdgeAt(j).to \in Included
                        /\ EdgeAt(j).from \in ({c} \union S) \intersect Included
                        => EdgeAt(j).to \in S
               PROVE  EdgeAt(k).to \in S
  BY Zenon DEF Behind
<1>2. Behind({c}) \subseteq S
  <2>1. SUFFICES ASSUME NEW m \in Behind({c}) PROVE m \in S
    OBVIOUS
  <2>2. QED
    BY <1>1, <2>1, Zenon DEF Behind
<1>3. EdgeAt(k).from \in ({c} \union S) \intersect Included
  BY <1>2 DEF Behind
<1>4. QED
  BY <1>1, <1>3

\* The failure or the branch that a skip with these particulars names.
Names(n, r) ==
  /\ r.why = "upstream_failed" =>
       /\ r.blame \in Included /\ n \in Behind({r.blame})
       /\ result[r.blame].status = "failed"
  /\ r.why = "branch_not_taken" =>
       /\ r.blame \in Included /\ n \in Behind({r.blame})
       /\ Card(flow, r.blame).kind = "condition"
       /\ result[r.blame].status = "passed"
       /\ {r.handle, result[r.blame].branch} = {"true", "false"}

Named(n) == Names(n, result[n])

LEMMA CausesNamed == SkipsNameTheirCause <=> \A n \in Included : Named(n)
BY DEF SkipsNameTheirCause, Names, Named

LEMMA FailureNamed ==
  ASSUME IInv, Formed, SkipsNameTheirCause, NEW n \in NodeId, SkipAfterFailure(n)
  PROVE  Names(n, result'[n])
<1> DEFINE k == Min(DeadInto(n))
           e == EdgeAt(k)
           c == Culprit(e)
<1>1. TypeOK /\ n \in Included
  BY StepRuns DEF IInv, SkipAfterFailure
<1>2. DeadInto(n) # {} /\ Decide(n, Skipped("upstream_failed", c, "none"))
  BY DEF SkipAfterFailure
<1>3. DeadInto(n) \in SUBSET Nat
  BY <1>1, EdgeTyped DEF DeadInto, Upstream
<1>4. k \in DeadInto(n)
  BY <1>2, <1>3, MinIsAMember
<1> HIDE DEF k
<1>5. k \in DOMAIN flow.edges /\ e.to = n /\ e.from \in Included
      /\ (result[e.from].status = "failed" \/ result[e.from].why = "upstream_failed")
  BY <1>4 DEF DeadInto, Upstream, Dead
<1>6. /\ c \in Included /\ result[c].status = "failed"
      /\ e.from \in {c} \union Behind({c})
  <2>1. CASE result[e.from].status = "failed"
    BY <1>5, <2>1 DEF Culprit
  <2>2. CASE result[e.from].status # "failed"
    <3>1. c = result[e.from].blame
      BY <2>2 DEF Culprit
    <3>2. QED
      BY <1>5, <2>2, <3>1 DEF SkipsNameTheirCause
  <2>3. QED
    BY <2>1, <2>2
<1>7. n \in Behind({c})
  BY <1>1, <1>5, <1>6, WiredBehind
<1>8. result'[n] = Skipped("upstream_failed", c, "none")
  BY <1>1, <1>2 DEF Decide, TypeOK
<1>9. result'[n].why = "upstream_failed" /\ result'[n].blame = c
  BY <1>8 DEF Skipped, Pending
<1>10. QED
  BY <1>6, <1>7, <1>9 DEF Names

LEMMA BranchNamed ==
  ASSUME IInv, Formed, SkipsNameTheirCause, NEW n \in NodeId, SkipUntaken(n)
  PROVE  Names(n, result'[n])
<1> DEFINE k == Min(InactiveInto(n))
           e == EdgeAt(k)
<1>1. TypeOK /\ OrderInv /\ n \in Included /\ IsNext(n)
  BY StepRuns DEF IInv, SkipUntaken
<1>2. InactiveInto(n) # {}
  BY <1>1, NextFed, BypassedBy DEF SkipUntaken, Fed
<1>3. Decide(n, UntakenBranch(e))
  BY <1>2 DEF SkipUntaken
<1>4. InactiveInto(n) \in SUBSET Nat
  BY <1>1, EdgeTyped DEF InactiveInto, Upstream
<1>5. k \in InactiveInto(n)
  BY <1>2, <1>4, MinIsAMember
<1> HIDE DEF k
<1>6. k \in DOMAIN flow.edges /\ e.to = n /\ e.from \in Included
      /\ (result[e.from].why = "branch_not_taken" \/ UntakenOutput(e))
  BY <1>5 DEF InactiveInto, Upstream, Inactive
<1>7. result'[n] = UntakenBranch(e)
  BY <1>1, <1>3 DEF Decide, TypeOK
<1>8. e.from \in NodeId
  BY <1>1, <1>6, EdgeTyped
<1>9. CASE result[e.from].status = "skipped"
  <2> DEFINE c == result[e.from].blame
  <2>1. result'[n] = Skipped("branch_not_taken", c, result[e.from].handle)
    BY <1>7, <1>9 DEF UntakenBranch
  <2>2. result[e.from].why = "branch_not_taken"
    BY <1>6, <1>9 DEF UntakenOutput
  <2>3. /\ c \in Included /\ e.from \in Behind({c})
        /\ Card(flow, c).kind = "condition"
        /\ result[c].status = "passed"
        /\ {result[e.from].handle, result[c].branch} = {"true", "false"}
    BY <1>6, <2>2 DEF SkipsNameTheirCause
  <2>4. n \in Behind({c})
    BY <1>1, <1>6, <2>3, WiredBehind
  <2>5. /\ result'[n].why = "branch_not_taken" /\ result'[n].blame = c
        /\ result'[n].handle = result[e.from].handle
    BY <2>1 DEF Skipped, Pending
  <2>6. QED
    BY <2>3, <2>4, <2>5 DEF Names
<1>10. CASE result[e.from].status # "skipped"
  <2>1. result[e.from].why \notin SkipKinds
    BY <1>8, <1>10 DEF Formed
  <2>2. UntakenOutput(e)
    BY <1>6, <2>1 DEF SkipKinds
  <2>3. /\ result[e.from].status = "passed" /\ result[e.from].branch # "none"
        /\ e.handle # "none" /\ result[e.from].branch # e.handle
    BY <2>2 DEF UntakenOutput
  <2>4. result[e.from].branch \in Outputs(Card(flow, e.from))
    BY <1>8, <2>3 DEF Formed
  <2>5. Card(flow, e.from).kind = "condition"
    BY <2>3, <2>4 DEF Outputs
  <2>6. e.handle \in Outputs(Card(flow, e.from))
    BY <1>1, <1>6, RunTyped, SoundEdges, Zenon DEF OrderInv, Refusable, IsNext
  <2>7. {e.handle, result[e.from].branch} = {"true", "false"}
    BY <2>3, <2>4, <2>5, <2>6 DEF Outputs
  <2>8. result'[n] = Skipped("branch_not_taken", e.from, e.handle)
    BY <1>7, <1>10 DEF UntakenBranch
  <2>9. /\ result'[n].why = "branch_not_taken" /\ result'[n].blame = e.from
        /\ result'[n].handle = e.handle
    BY <2>8 DEF Skipped, Pending
  <2>10. n \in Behind({e.from})
    BY <1>1, <1>6, WiredBehind
  <2>11. QED
    BY <1>6, <2>3, <2>5, <2>7, <2>9, <2>10 DEF Names
<1>11. QED
  BY <1>9, <1>10

\* A result, once there, stays: what was named stays named.
LEMMA NamesKept ==
  ASSUME TypeOK, SkipsNameTheirCause, UNCHANGED run, NEW n \in Included, ~Decided(n),
         \A m \in NodeId : m # n => result'[m] = result[m],
         Names(n, result'[n])
  PROVE  SkipsNameTheirCause'
<1>1. Included \subseteq NodeId
  BY RunTyped
<1>2. SUFFICES ASSUME NEW m \in Included PROVE Named(m)'
  BY DEF SkipsNameTheirCause, Names, Named
<1>3. Names(m, result'[m])
  BY <1>1, CausesNamed DEF Named
<1>4. \A from : Behind(from)' = Behind(from)
  BY DEF Behind
<1>5. \A c \in Included : result[c].status # "pending" => result'[c] = result[c]
  BY <1>1, PendingShape DEF Decided
<1>6. QED
  BY <1>3, <1>4, <1>5 DEF Names, Named

LEMMA SettleNames ==
  ASSUME IInv, Formed, SkipsNameTheirCause, NEW n \in NodeId, SettlesAtOnce(n)
  PROVE  SkipsNameTheirCause'
<1>1. TypeOK /\ n \in Included /\ ~Decided(n) /\ UNCHANGED run
  BY StepSettles, StepRuns DEF IInv
<1>2. PICK r : Settled(n, r)
  BY <1>1, StepSettles
<1>3. /\ result'[n] = r /\ \A m \in NodeId : m # n => result'[m] = result[m]
  BY <1>1, <1>2, DecideOnly DEF Settled
<1>4. CASE SkipAfterFailure(n)
  BY <1>1, <1>3, <1>4, FailureNamed, NamesKept
<1>5. CASE SkipUntaken(n)
  BY <1>1, <1>3, <1>5, BranchNamed, NamesKept
<1>6. CASE RunLocal(n) \/ FailBeforeSending(n)
  <2>1. \E s : Outcome(s) /\ Decide(n, s)
    <3>1. CASE RunLocal(n)
      BY <1>1, <3>1, CardTyped, LocalFits DEF RunLocal
    <3>2. CASE FailBeforeSending(n)
      BY <3>2, FailedOutcome DEF FailBeforeSending, FailureKinds
    <3>3. QED
      BY <1>6, <3>1, <3>2
  <2>2. result'[n].why \notin SkipKinds
    BY <1>1, <2>1 DEF Outcome, Decide, TypeOK
  <2>3. QED
    BY <1>1, <1>3, <2>2, NamesKept DEF Names, SkipKinds
<1>7. QED
  BY <1>4, <1>5, <1>6 DEF SettlesAtOnce

LEMMA AnswerNames ==
  ASSUME IInv, Formed, SkipsNameTheirCause, Answer
  PROVE  SkipsNameTheirCause'
<1>1. /\ TypeOK /\ ProgressInv /\ current \in Included /\ ~Decided(current)
      /\ UNCHANGED run
  BY AnswerSettles DEF IInv
<1>2. PICK r : Outcome(r) /\ Decide(current, r)
  BY <1>1, AnswerSettles
<1>3. current \in NodeId
  BY <1>1, RunTyped
<1>4. PICK n \in Included : n = current
  BY <1>1
<1>5. result'[n] = r /\ \A m \in NodeId : m # n => result'[m] = result[m]
  BY <1>1, <1>2, <1>3, <1>4, DecideOnly DEF Outcome
<1>6. Names(n, result'[n])
  BY <1>2, <1>5 DEF Outcome, Names, SkipKinds
<1>7. QED
  BY <1>1, <1>4, <1>5, <1>6, NamesKept

LEMMA FreshWhy == Fresh => WhyInv
<1>1. SUFFICES ASSUME Fresh PROVE WhyInv
  OBVIOUS
<1>2. IInv /\ TypeOK
  BY <1>1, FreshIInv DEF IInv
<1>3. \A n \in NodeId : result[n] = Pending
  BY <1>1 DEF Fresh
<1>4. phase = "new" /\ current = NoNode
  BY <1>1 DEF Fresh
<1>5. Included \subseteq NodeId
  BY <1>2, RunTyped
<1>6. Formed
  BY <1>3, <1>4, PendingShape DEF Formed, Decided, Pending, SkipKinds
<1>7. Gated /\ SkipsNameTheirCause
  BY <1>3, <1>4, <1>5, PendingShape, ValuesAssumption
  DEF Gated, GateHolds, Executed, SkipsNameTheirCause
<1>8. QED
  BY <1>2, <1>6, <1>7 DEF WhyInv

LEMMA InitWhy == Init => WhyInv
BY InitFresh, FreshWhy

LEMMA NextWhy == WhyInv /\ [Next]_vars => WhyInv'
<1>1. SUFFICES ASSUME WhyInv, [Next]_vars PROVE WhyInv'
  OBVIOUS
<1>2. IInv /\ IInv' /\ Formed /\ Gated /\ SkipsNameTheirCause
  BY <1>1, NextIInv DEF WhyInv
<1>3. TypeOK /\ ProgressInv
  BY <1>2 DEF IInv
<1>4. CASE /\ UNCHANGED <<run, result, current>>
           /\ phase' = "finished" => Left = {}
  <2>1. SkipsNameTheirCause'
    <3>1. \A from : Behind(from)' = Behind(from)
      BY <1>4 DEF Behind
    <3>2. QED
      BY <1>2, <1>4, <3>1 DEF SkipsNameTheirCause
  <2>2. QED
    BY <1>2, <1>4, <2>1, QuietReasons DEF WhyInv
<1>5. CASE UNCHANGED vars
  BY <1>2, <1>4, <1>5 DEF vars, runVars, Formed
<1>6. CASE Quiet
  <2>1. UNCHANGED <<run, result, current>>
    BY <1>3, <1>6, QuietProgress
  <2>2. phase' = "finished" => Left = {}
    BY <1>6 DEF Quiet, Validate, PlaceNext, Start, Finish, Quit, Refuse
  <2>3. QED
    BY <1>4, <2>1, <2>2
<1>7. CASE \E n \in NodeId : Step(n)
  <2>1. PICK n \in NodeId : Step(n)
    BY <1>7
  <2>2. CASE Send(n)
    <3>1. Formed' /\ Gated' /\ UNCHANGED <<run, result>>
      BY <1>2, <1>3, <2>2, SendReasons DEF Send
    <3>2. \A from : Behind(from)' = Behind(from)
      BY <3>1 DEF Behind
    <3>3. SkipsNameTheirCause'
      BY <1>2, <3>1, <3>2 DEF SkipsNameTheirCause
    <3>4. QED
      BY <1>2, <3>1, <3>3 DEF WhyInv
  <2>3. CASE SettlesAtOnce(n)
    BY <1>2, <2>3, SettleReasons, SettleNames DEF WhyInv
  <2>4. QED
    BY <2>1, <2>2, <2>3 DEF Step, SettlesAtOnce
<1>8. CASE Answer
  BY <1>2, <1>8, AnswerReasons, AnswerNames DEF WhyInv
<1>9. QED
  BY <1>1, <1>5, <1>6, <1>7, <1>8 DEF Next, Progress, Quiet

\* In every run the gate's verdict on a step that was taken up is the one that
\* let it run or had it skipped, although other steps have ended since.
THEOREM ReasonsStand == Spec => []WhyInv
BY InitWhy, NextWhy, PTL DEF Spec

\* Whatever the document, what a skipped step shows as its reason is the reason:
\* the step that failed above it, or the condition that took the other output,
\* however many skipped steps lie between.
THEOREM CausesShown == Spec => []SkipsNameTheirCause
<1>1. WhyInv => SkipsNameTheirCause
  BY DEF WhyInv
<1>2. QED
  BY <1>1, ReasonsStand, PTL

----------------------------------------------------------------------------
(***************************************************************************)
(* A finished run ran what it could reach.                                 *)
(***************************************************************************)
Failures == {f \in Included : result[f].status = "failed"}

Leads(m, n) == \E k \in Upstream(flow, n) :
                 /\ EdgeAt(k).from = m
                 /\ result[m].status = "passed"
                 /\ Card(flow, m).kind = "condition" => EdgeAt(k).handle = result[m].branch

RunsAfter(S) == {n \in Included \ Behind(Failures) : Entry(n) \/ \E m \in S : Leads(m, n)}

Reached == {n \in Included : \A S \in SUBSET Included : RunsAfter(S) \subseteq S => n \in S}

\* A passed step's live outputs are the ones it took.
LEMMA LiveLeads ==
  ASSUME TypeOK, StructureError(flow) = "none", Formed, NEW n, NEW k \in Upstream(flow, n),
         EdgeAt(k).from \in Included
  PROVE  Live(EdgeAt(k)) <=>
           /\ result[EdgeAt(k).from].status = "passed"
           /\ Card(flow, EdgeAt(k).from).kind = "condition"
                => EdgeAt(k).handle = result[EdgeAt(k).from].branch
<1> DEFINE m == EdgeAt(k).from
<1>1. SUFFICES ASSUME result[m].status = "passed"
               PROVE  ~UntakenOutput(EdgeAt(k)) <=>
                        (Card(flow, m).kind = "condition"
                           => EdgeAt(k).handle = result[m].branch)
  BY DEF Live
<1>2. k \in DOMAIN flow.edges /\ m \in NodeId
  BY EdgeTyped DEF Upstream
<1>3. EdgeAt(k).handle \in Outputs(Card(flow, m))
  BY <1>2, RunTyped, SoundEdges
<1>4. result[m].branch \in Outputs(Card(flow, m))
  BY <1>1, <1>2 DEF Formed
<1>5. QED
  BY <1>1, <1>3, <1>4 DEF UntakenOutput, Outputs

LEMMA RankIsNat ==
  ASSUME TypeOK, Complete, NEW n \in Nodes
  PROVE  Rank(n) \in Nat
BY PositionOfStep DEF Rank

\* Nothing is run that could not be reached: the first step run out of turn, in
\* the order of the loop, would have had to be let through by one before it.
LEMMA RunIsReached ==
  ASSUME WhyInv, phase = "finished", NEW S \in SUBSET Included, RunsAfter(S) \subseteq S,
         NEW n \in Included, Executed(n)
  PROVE  n \in S
<1>1. /\ TypeOK /\ OrderInv /\ ProgressInv /\ Formed /\ Gated /\ Complete
      /\ NothingRunsBehindAFailure /\ StructureError(flow) = "none" /\ current = NoNode
  BY FailureStops DEF WhyInv, IInv, Complete, Refusable, OrderInv, ProgressInv
<1> DEFINE Early == {m \in Included : Executed(m) /\ m \notin S}
           Ranks == {Rank(m) : m \in Early}
<1>2. Included \subseteq Nodes /\ Nodes \subseteq NodeId
  BY <1>1, RunTyped
<1>3. SUFFICES ASSUME Early # {} PROVE FALSE
  OBVIOUS
<1>4. Ranks \in SUBSET Nat /\ Ranks # {}
  BY <1>1, <1>2, <1>3, RankIsNat
<1>5. Min(Ranks) \in Ranks /\ \A i \in Ranks : Min(Ranks) <= i
  BY <1>4, MinIsAMember
<1>6. PICK m \in Early : \A o \in Early : Rank(m) <= Rank(o)
  BY <1>5
<1>7. m \in Included /\ m \in NodeId /\ m # NoNode /\ m \notin S
      /\ result[m].status \in {"passed", "failed"} /\ MayRun(m)
  BY <1>1, <1>2, <1>6, ValuesAssumption DEF Executed, Gated, GateHolds
<1>8. m \notin Behind(Failures)
  <2>1. Decided(m) /\ result[m].why # "upstream_failed"
    BY <1>1, <1>7, PendingShape DEF Formed, SkipKinds, Decided
  <2>2. QED
    BY <1>1, <2>1 DEF NothingRunsBehindAFailure, Failures
<1>9. CASE Entry(m)
  BY <1>7, <1>8, <1>9 DEF RunsAfter
<1>10. CASE ~Entry(m)
  <2>1. PICK k \in Upstream(flow, m) : Live(EdgeAt(k))
    BY <1>7, <1>10 DEF Entry, MayRun, LiveInto
  <2> DEFINE p == EdgeAt(k).from
  <2>2. p \in Included
    BY <1>10 DEF Entry
  <2>3. /\ result[p].status = "passed"
        /\ Card(flow, p).kind = "condition" => EdgeAt(k).handle = result[p].branch
    BY <1>1, <2>1, <2>2, LiveLeads
  <2>4. Leads(p, m) /\ Executed(p)
    BY <2>3 DEF Leads, Executed
  <2>5. p \in S
    <3>1. k \in DOMAIN flow.edges /\ EdgeAt(k).to = m
      BY DEF Upstream
    <3>2. ~(Rank(m) <= Rank(p))
      BY <1>1, <3>1, RankRespectsEdges
    <3>3. QED
      BY <1>6, <2>2, <2>4, <3>2
  <2>6. QED
    BY <1>7, <1>8, <2>4, <2>5 DEF RunsAfter
<1>11. QED
  BY <1>9, <1>10

\* What could be reached was run.
LEMMA ReachedIsRun ==
  ASSUME WhyInv, phase = "finished"
  PROVE  RunsAfter({n \in Included : Executed(n)}) \subseteq {n \in Included : Executed(n)}
<1>1. /\ TypeOK /\ OrderInv /\ ProgressInv /\ Formed /\ Gated /\ SkipsNameTheirCause
      /\ StructureError(flow) = "none"
  BY DEF WhyInv, IInv, OrderInv, Refusable
<1>2. SUFFICES ASSUME NEW n \in Included, n \notin Behind(Failures), ~Executed(n),
                      Entry(n) \/ \E m \in Included : Leads(m, n)
               PROVE  FALSE
  BY DEF RunsAfter
<1>3. n \in NodeId /\ result[n] \in Result
  BY <1>1, RunTyped DEF TypeOK
<1>4. Decided(n)
  BY <1>1 DEF Formed, Left, Decided
<1>5. result[n].status = "skipped"
  BY <1>1, <1>2, <1>3, <1>4 DEF Formed, Executed, Result
<1>6. CASE result[n].why = "upstream_failed"
  <2> DEFINE c == result[n].blame
  <2>1. c \in Failures /\ n \in Behind({c})
    BY <1>1, <1>6 DEF SkipsNameTheirCause, Failures
  <2>2. n \in Behind(Failures)
    <3>1. SUFFICES ASSUME NEW S \in SUBSET Included,
                          \A j \in DOMAIN flow.edges :
                            /\ EdgeAt(j).to \in Included
                            /\ EdgeAt(j).from \in (Failures \union S) \intersect Included
                            => EdgeAt(j).to \in S
                   PROVE  n \in S
      BY Zenon DEF Behind
    <3>2. \A j \in DOMAIN flow.edges :
            /\ EdgeAt(j).to \in Included
            /\ EdgeAt(j).from \in ({c} \union S) \intersect Included
            => EdgeAt(j).to \in S
      BY <2>1, <3>1
    <3>3. QED
      BY <2>1, <3>2, Zenon DEF Behind
  <2>3. QED
    BY <1>2, <2>2
<1>7. CASE result[n].why = "branch_not_taken"
  <2>1. LiveInto(n) = {} /\ Upstream(flow, n) # {}
    BY <1>1, <1>7 DEF Gated, GateHolds, MayRun
  <2>2. ~Entry(n)
    BY <2>1 DEF Entry, LiveInto, Live
  <2>3. PICK m \in Included : Leads(m, n)
    BY <1>2, <2>2
  <2>4. PICK k \in Upstream(flow, n) :
               /\ EdgeAt(k).from = m
               /\ result[m].status = "passed"
               /\ Card(flow, m).kind = "condition" => EdgeAt(k).handle = result[m].branch
    BY <2>3 DEF Leads
  <2>5. Live(EdgeAt(k))
    BY <1>1, <2>4, LiveLeads
  <2>6. QED
    BY <2>1, <2>5 DEF LiveInto
<1>8. QED
  BY <1>1, <1>3, <1>5, <1>6, <1>7 DEF Formed, SkipKinds

LEMMA RanWhatItReached == WhyInv => RanExactlyWhatItReached
<1>1. SUFFICES ASSUME WhyInv, phase = "finished"
               PROVE  {n \in Included : Executed(n)} = Reached
  BY Zenon DEF RanExactlyWhatItReached, Reached, RunsAfter, Failures, Leads
<1>2. \A n \in Included : Executed(n) => n \in Reached
  BY <1>1, RunIsReached DEF Reached
<1>3. \A n \in Reached : n \in Included /\ Executed(n)
  BY <1>1, ReachedIsRun DEF Reached
<1>4. QED
  BY <1>2, <1>3 DEF Reached

\* Every finished run of every document ran exactly what it could reach: from the
\* steps nothing of the run feeds, along the outputs taken, short of what lies
\* behind a failure.
THEOREM ReachedIsRan == Spec => []RanExactlyWhatItReached
BY RanWhatItReached, ReasonsStand, PTL

----------------------------------------------------------------------------
(***************************************************************************)
(* The runner keeps the promise.                                           *)
(***************************************************************************)
Promised == [n \in NodeId |-> PromisedStatus(n)]
Branches == [n \in NodeId |-> result[n].branch]
Edges    == {EdgeAt(k) : k \in DOMAIN flow.edges}

\* What each result is promised as.
LEMMA PromisedAs ==
  ASSUME TypeOK, Formed, NEW n \in NodeId
  PROVE  /\ ~Decided(n) /\ current # n <=> PromisedStatus(n) = "waiting"
         /\ ~Decided(n) /\ current = n <=> PromisedStatus(n) = "running"
         /\ result[n].status = "passed" <=> PromisedStatus(n) = "passed"
         /\ result[n].status = "failed" <=> PromisedStatus(n) = "failed"
         /\ result[n].why = "upstream_failed" <=> PromisedStatus(n) = "blocked"
         /\ result[n].why = "branch_not_taken" <=> PromisedStatus(n) = "bypassed"
<1> DEFINE r == result[n]
<1>1. /\ r \in Result
      /\ r.status = "pending" <=> ~Decided(n)
      /\ r.status = "skipped" <=> r.why \in SkipKinds
  BY PendingShape DEF TypeOK, Formed, Decided
<1>2. r.status \in {"pending", "passed", "failed", "skipped"}
  BY <1>1 DEF Result
<1>3. CASE r.why = "upstream_failed"
  BY <1>1, <1>3, Zenon DEF PromisedStatus, SkipKinds
<1>4. CASE r.why = "branch_not_taken"
  BY <1>1, <1>4, Zenon DEF PromisedStatus, SkipKinds
<1>5. CASE r.status = "pending"
  <2>1. r.why # "upstream_failed" /\ r.why # "branch_not_taken"
    BY <1>1, <1>5 DEF SkipKinds
  <2>2. PromisedStatus(n) = IF current = n THEN "running" ELSE "waiting"
    BY <1>5, <2>1, Zenon DEF PromisedStatus
  <2>3. QED
    BY <1>1, <1>5, <2>1, <2>2
<1>6. CASE r.status \in {"passed", "failed"}
  <2>1. r.why # "upstream_failed" /\ r.why # "branch_not_taken"
    BY <1>1, <1>6 DEF SkipKinds
  <2>2. PromisedStatus(n) = r.status
    BY <1>6, <2>1 DEF PromisedStatus
  <2>3. QED
    BY <1>1, <1>6, <2>1, <2>2
<1>7. QED
  BY <1>1, <1>2, <1>3, <1>4, <1>5, <1>6 DEF SkipKinds

\* The promise's view of an edge is the gate's.
LEMMA PromisedEdges ==
  ASSUME TypeOK, Formed, NEW k \in DOMAIN flow.edges
  PROVE  /\ Promise!Dead(EdgeAt(k)) <=> Dead(EdgeAt(k))
         /\ Promise!Inactive(EdgeAt(k)) <=> Inactive(EdgeAt(k))
         /\ Promise!Live(EdgeAt(k)) <=> Live(EdgeAt(k))
<1> DEFINE p == EdgeAt(k).from
<1>1. p \in NodeId
  BY EdgeTyped
<1>2. /\ PromisedStatus(p) = "passed" <=> result[p].status = "passed"
      /\ PromisedStatus(p) = "failed" <=> result[p].status = "failed"
      /\ PromisedStatus(p) = "blocked" <=> result[p].why = "upstream_failed"
      /\ PromisedStatus(p) = "bypassed" <=> result[p].why = "branch_not_taken"
  BY <1>1, PromisedAs
<1>3. Promised[p] = PromisedStatus(p) /\ Branches[p] = result[p].branch
  BY <1>1 DEF Promised, Branches
<1>4. Promise!Dead(EdgeAt(k)) <=> Dead(EdgeAt(k))
  BY <1>2, <1>3 DEF Promise!Dead, Dead, Promised
<1>5. Promise!Inactive(EdgeAt(k)) <=> Inactive(EdgeAt(k))
  BY <1>2, <1>3 DEF Promise!Inactive, Inactive, UntakenOutput, Promised, Branches
<1>6. UntakenOutput(EdgeAt(k)) => Inactive(EdgeAt(k)) \/ p \notin Included
  BY DEF Inactive
<1>7. result[p].status = "passed" /\ Inactive(EdgeAt(k)) => UntakenOutput(EdgeAt(k))
  BY <1>1 DEF Inactive, Formed, SkipKinds
<1>8. Promise!Live(EdgeAt(k)) <=> Live(EdgeAt(k))
  BY <1>2, <1>3, <1>5, <1>6, <1>7 DEF Promise!Live, Live, Promised
<1>9. QED
  BY <1>4, <1>5, <1>8

\* What leads into a step.
LEMMA PromisedInto ==
  ASSUME TypeOK, Formed, NEW n
  PROVE  /\ Promise!Into(n) = {EdgeAt(k) : k \in Upstream(flow, n)}
         /\ Promise!Into(n) = {} <=> Upstream(flow, n) = {}
         /\ (\E e \in Promise!Into(n) : Promise!Dead(e)) <=> DeadInto(n) # {}
         /\ (\E e \in Promise!Into(n) : Promise!Live(e)) <=> LiveInto(n) # {}
         /\ (\A e \in Promise!Into(n) : Promise!Inactive(e))
              <=> InactiveInto(n) = Upstream(flow, n)
<1>1. Promise!Into(n) = {EdgeAt(k) : k \in Upstream(flow, n)}
  BY DEF Promise!Into, Upstream
<1>2. Upstream(flow, n) \subseteq DOMAIN flow.edges
  BY DEF Upstream
<1>3. \A k \in Upstream(flow, n) :
        /\ Promise!Dead(EdgeAt(k)) <=> Dead(EdgeAt(k))
        /\ Promise!Inactive(EdgeAt(k)) <=> Inactive(EdgeAt(k))
        /\ Promise!Live(EdgeAt(k)) <=> Live(EdgeAt(k))
  BY <1>2, PromisedEdges
<1>4. (\E e \in Promise!Into(n) : Promise!Dead(e)) <=> DeadInto(n) # {}
  BY <1>1, <1>3 DEF DeadInto
<1>5. (\E e \in Promise!Into(n) : Promise!Live(e)) <=> LiveInto(n) # {}
  BY <1>1, <1>3 DEF LiveInto
<1>6. (\A e \in Promise!Into(n) : Promise!Inactive(e))
        <=> InactiveInto(n) = Upstream(flow, n)
  BY <1>1, <1>3 DEF InactiveInto
<1>7. QED
  BY <1>1, <1>4, <1>5, <1>6

\* A step that has what it needs in the run has it in the promise.
LEMMA PromisedFed ==
  ASSUME TypeOK, Formed, NEW n, Fed(n)
  PROVE  Promise!Fed(n)
<1>1. SUFFICES ASSUME NEW k \in Upstream(flow, n), EdgeAt(k).from \in Included
               PROVE  Promised[EdgeAt(k).from] \notin {"waiting", "running"}
  BY PromisedInto DEF Promise!Fed, Promise!Settled, Promised
<1>2. Decided(EdgeAt(k).from) /\ EdgeAt(k).from \in NodeId
  BY <1>1, EdgeTyped DEF Fed, Upstream
<1>3. QED
  BY <1>2, PromisedAs DEF Promised

\* One step changes what is promised of one step.
LEMMA OnePromised ==
  ASSUME NEW n \in NodeId, UNCHANGED run,
         \A m \in NodeId : m # n => result'[m] = result[m],
         {current, current'} \subseteq {NoNode, n}
  PROVE  /\ Promised' = [Promised EXCEPT ![n] = PromisedStatus(n)']
         /\ Branches' = [Branches EXCEPT ![n] = result'[n].branch]
         /\ UNCHANGED <<Included, Edges>>
<1>1. \A m \in NodeId : m # n => PromisedStatus(m)' = PromisedStatus(m)
  BY ValuesAssumption DEF PromisedStatus
<1>2. Promised' = [Promised EXCEPT ![n] = PromisedStatus(n)']
  BY <1>1 DEF Promised
<1>3. Branches' = [Branches EXCEPT ![n] = result'[n].branch]
  BY DEF Branches
<1>4. QED
  BY <1>2, <1>3 DEF Edges

\* A step is skipped with no output, and had none.
LEMMA SameBranch ==
  ASSUME NEW n \in NodeId, Branches' = [Branches EXCEPT ![n] = result'[n].branch],
         result'[n].branch = result[n].branch
  PROVE  Branches' = Branches
BY DEF Branches

LEMMA SettleKeepsPromise ==
  ASSUME WhyInv, WhyInv', NEW n \in NodeId, SettlesAtOnce(n)
  PROVE  Promise!Next
<1>1. /\ TypeOK /\ OrderInv /\ ProgressInv /\ Formed /\ TypeOK' /\ Formed'
  BY DEF WhyInv, IInv
<1>2. /\ n \in Included /\ ~Decided(n) /\ phase = "running" /\ IsNext(n)
      /\ UNCHANGED <<run, current>> /\ Fed(n)
  BY <1>1, StepSettles, StepRuns, NextFed
<1>3. PICK r : /\ Settled(n, r) /\ Fitting(Card(flow, n), r)
               /\ r.status \in {"passed", "failed"} => MayRun(n)
               /\ r.why = "branch_not_taken" => DeadInto(n) = {} /\ ~MayRun(n)
  BY <1>1, StepFits
<1>4. result'[n] = r /\ \A m \in NodeId : m # n => result'[m] = result[m]
  BY <1>1, <1>3, DecideOnly DEF Settled
<1>5. current = NoNode /\ current' = NoNode /\ n # NoNode
  BY <1>1, <1>2, ValuesAssumption DEF ProgressInv
<1>6. /\ Promised' = [Promised EXCEPT ![n] = PromisedStatus(n)']
      /\ Branches' = [Branches EXCEPT ![n] = r.branch]
      /\ UNCHANGED <<Included, Edges>>
  BY <1>2, <1>4, <1>5, OnePromised
<1>7. Promised[n] = "waiting"
  BY <1>1, <1>2, <1>5, PromisedAs DEF Promised
<1>8. Promise!Fed(n)
  BY <1>1, <1>2, PromisedFed
<1>9. /\ r.status = "passed" <=> PromisedStatus(n)' = "passed"
      /\ r.status = "failed" <=> PromisedStatus(n)' = "failed"
      /\ r.why = "upstream_failed" <=> PromisedStatus(n)' = "blocked"
      /\ r.why = "branch_not_taken" <=> PromisedStatus(n)' = "bypassed"
  <2>1. (TypeOK /\ Formed =>
          /\ result[n].status = "passed" <=> PromisedStatus(n) = "passed"
          /\ result[n].status = "failed" <=> PromisedStatus(n) = "failed"
          /\ result[n].why = "upstream_failed" <=> PromisedStatus(n) = "blocked"
          /\ result[n].why = "branch_not_taken" <=> PromisedStatus(n) = "bypassed")'
    BY PromisedAs, PTL
  <2>2. QED
    BY <1>1, <1>4, <2>1
<1>10. r.status # "passed" => Branches' = Branches
  <2>1. result[n].branch = "none"
    BY <1>2, PendingShape DEF Decided, Pending
  <2>2. r.status # "passed" => r.branch = "none"
    BY <1>3 DEF Fitting
  <2>3. QED
    BY <1>4, <1>6, <2>1, <2>2, SameBranch
<1>11. r.status \in {"passed", "failed", "skipped"}
  BY <1>3 DEF Fitting, Result
<1>12. CASE r.status \in {"passed", "failed"}
  <2>1. DeadInto(n) = {} /\ (Upstream(flow, n) = {} \/ LiveInto(n) # {})
    BY <1>3, <1>12 DEF MayRun
  <2>2. /\ \A e \in Promise!Into(n) : ~Promise!Dead(e)
        /\ Promise!Into(n) = {} \/ \E e \in Promise!Into(n) : Promise!Live(e)
    BY <1>1, <2>1, PromisedInto
  <2>3. r.branch \in Handles
    BY <1>3 DEF Fitting, Result
  <2>4. PromisedStatus(n)' \in {"running", "passed", "failed"}
    BY <1>9, <1>12
  <2>5. Promise!Run(n)
    BY <1>2, <1>6, <1>7, <1>8, <2>2, <2>3, <2>4, Zenon
    DEF Promise!Run, Promised, Branches, Edges
  <2>6. QED
    BY <2>5 DEF Promise!Next
<1>13. CASE r.why = "upstream_failed"
  <2>1. \E e \in Promise!Into(n) : Promise!Dead(e)
    BY <1>1, <1>3, <1>13, PromisedInto DEF Settled
  <2>2. PromisedStatus(n)' = "blocked" /\ Branches' = Branches
    BY <1>9, <1>10, <1>13
  <2>3. Promise!Block(n)
    BY <1>2, <1>6, <1>7, <2>1, <2>2, Zenon DEF Promise!Block, Promised, Branches, Edges
  <2>4. QED
    BY <2>3 DEF Promise!Next
<1>14. CASE r.why = "branch_not_taken"
  <2>1. Upstream(flow, n) # {} /\ InactiveInto(n) = Upstream(flow, n)
    BY <1>1, <1>2, <1>3, <1>14, BypassedBy DEF Fed
  <2>2. Promise!Into(n) # {} /\ \A e \in Promise!Into(n) : Promise!Inactive(e)
    BY <1>1, <2>1, PromisedInto
  <2>3. PromisedStatus(n)' = "bypassed" /\ Branches' = Branches
    BY <1>9, <1>10, <1>14
  <2>4. Promise!Bypass(n)
    BY <1>2, <1>6, <1>7, <2>2, <2>3, Zenon DEF Promise!Bypass, Promised, Branches, Edges
  <2>5. QED
    BY <2>4 DEF Promise!Next
<1>15. QED
  BY <1>3, <1>11, <1>12, <1>13, <1>14 DEF Fitting, SkipKinds

LEMMA SendKeepsPromise ==
  ASSUME WhyInv, WhyInv', NEW n \in NodeId, Send(n)
  PROVE  Promise!Next
<1>1. /\ TypeOK /\ OrderInv /\ ProgressInv /\ Formed /\ TypeOK' /\ Formed'
  BY DEF WhyInv, IInv
<1>2. /\ n \in Included /\ ~Decided(n) /\ phase = "running" /\ IsNext(n)
      /\ UNCHANGED <<run, result>> /\ current' = n /\ MayRun(n)
  BY StepRuns DEF Send
<1>3. current = NoNode /\ n # NoNode /\ Fed(n)
  BY <1>1, <1>2, ValuesAssumption, NextFed DEF ProgressInv
<1>4. /\ Promised' = [Promised EXCEPT ![n] = PromisedStatus(n)']
      /\ Branches' = [Branches EXCEPT ![n] = result'[n].branch]
      /\ UNCHANGED <<Included, Edges>>
  BY <1>2, <1>3, OnePromised
<1>5. Promised[n] = "waiting" /\ Promise!Fed(n)
  BY <1>1, <1>2, <1>3, PromisedAs, PromisedFed DEF Promised
<1>6. PromisedStatus(n)' = "running"
  <2>1. (TypeOK /\ Formed => (~Decided(n) /\ current = n <=> PromisedStatus(n) = "running"))'
    BY PromisedAs, PTL
  <2>2. QED
    BY <1>1, <1>2, <2>1 DEF Decided
<1>7. /\ \A e \in Promise!Into(n) : ~Promise!Dead(e)
      /\ Promise!Into(n) = {} \/ \E e \in Promise!Into(n) : Promise!Live(e)
  BY <1>1, <1>2, PromisedInto DEF MayRun
<1>8. result'[n].branch \in Handles
  BY <1>1, <1>2 DEF TypeOK, Result
<1>9. Promise!Run(n)
  BY <1>2, <1>4, <1>5, <1>6, <1>7, <1>8, Zenon DEF Promise!Run, Promised, Branches, Edges
<1>10. QED
  BY <1>9 DEF Promise!Next

LEMMA AnswerKeepsPromise ==
  ASSUME WhyInv, WhyInv', Answer
  PROVE  Promise!Next
<1>1. /\ TypeOK /\ OrderInv /\ ProgressInv /\ Formed /\ TypeOK' /\ Formed'
  BY DEF WhyInv, IInv
<1>2. /\ current \in Included /\ ~Decided(current) /\ current' = NoNode /\ UNCHANGED run
  BY <1>1, AnswerSettles
<1>3. PICK n \in NodeId : n = current
  BY <1>1, <1>2, RunTyped
<1>4. n \in Included
  BY <1>2, <1>3
<1>5. PICK r : /\ Fitting(Card(flow, current), r) /\ Outcome(r) /\ r.branch = "none"
               /\ Decide(current, r)
  BY <1>1, AnswerComesTo
<1>6. result'[n] = r /\ \A m \in NodeId : m # n => result'[m] = result[m]
  BY <1>1, <1>3, <1>4, <1>5, DecideOnly DEF Outcome
<1>7. /\ Promised' = [Promised EXCEPT ![n] = PromisedStatus(n)']
      /\ Branches' = [Branches EXCEPT ![n] = r.branch]
      /\ UNCHANGED <<Included, Edges>>
  BY <1>2, <1>3, <1>4, <1>6, OnePromised
<1>8. Promised[n] = "running"
  BY <1>1, <1>2, <1>3, <1>4, PromisedAs DEF Promised
<1>9. PromisedStatus(n)' \in {"passed", "failed"}
  <2>1. (TypeOK /\ Formed =>
          /\ result[n].status = "passed" <=> PromisedStatus(n) = "passed"
          /\ result[n].status = "failed" <=> PromisedStatus(n) = "failed")'
    BY PromisedAs, PTL
  <2>2. QED
    BY <1>1, <1>5, <1>6, <2>1 DEF Outcome
<1>10. Branches' = Branches
  <2>1. result[n].branch = "none"
    BY <1>2, <1>3 DEF Decided, Pending
  <2>2. QED
    BY <1>4, <1>5, <1>6, <1>7, <2>1, SameBranch
<1>11. Promise!End(n)
  BY <1>7, <1>8, <1>9, <1>10, Zenon DEF Promise!End, Promised, Branches, Edges
<1>12. QED
  BY <1>4, <1>11 DEF Promise!Next

LEMMA PromiseStarts == Init => Promise!Init
<1>1. SUFFICES ASSUME Init PROVE Promise!Init
  OBVIOUS
<1>2. TypeOK /\ current = NoNode
  BY <1>1, InitIInv DEF IInv, Init
<1>3. \A n \in NodeId : result[n] = Pending /\ current # n
  BY <1>1, <1>2, ValuesAssumption DEF Init
<1>4. \A n \in NodeId : PromisedStatus(n) = "waiting" /\ result[n].branch = "none"
  BY <1>3 DEF PromisedStatus, Pending
<1>5. Included \subseteq NodeId
  BY <1>2, RunTyped
<1>6. QED
  BY <1>4, <1>5 DEF Promise!Init

LEMMA StepKeepsPromise == WhyInv /\ WhyInv' /\ [Next]_vars => [Promise!Next]_(Promise!vars)
<1>1. SUFFICES ASSUME WhyInv, WhyInv', [Next]_vars
               PROVE  Promise!Next \/ UNCHANGED Promise!vars
  OBVIOUS
<1>2. ProgressInv
  BY <1>1 DEF WhyInv, IInv
<1>3. CASE UNCHANGED <<run, result, current>>
  BY <1>3 DEF Promise!vars, PromisedStatus
<1>4. CASE UNCHANGED vars
  BY <1>3, <1>4 DEF vars, runVars
<1>5. CASE Quiet
  BY <1>2, <1>3, <1>5, QuietProgress
<1>6. CASE \E n \in NodeId : Step(n)
  BY <1>1, <1>6, SettleKeepsPromise, SendKeepsPromise DEF Step, SettlesAtOnce
<1>7. CASE Answer
  BY <1>1, <1>7, AnswerKeepsPromise
<1>8. QED
  BY <1>1, <1>4, <1>5, <1>6, <1>7 DEF Next, Progress, Quiet

\* The runner implements FlowPromise: every run of every document is a behaviour
\* the contract in the documentation of run_with allows, each step of which is a
\* step of the contract or none.
THEOREM PromiseKept == Spec => KeepsThePromise
<1>1. Spec => [][Promise!Next]_(Promise!vars)
  BY StepKeepsPromise, ReasonsStand, PTL DEF Spec
<1>2. Spec => Promise!Init
  BY PromiseStarts DEF Spec
<1>3. QED
  BY <1>1, <1>2, PTL DEF KeepsThePromise, Promise!Spec

----------------------------------------------------------------------------
(***************************************************************************)
(* What lint says, against what a run does.                                *)
(***************************************************************************)
\* A card that passes sets what lint takes it to set, and had what it reads.
Complied(node, r) ==
  r.status = "passed" =>
    /\ r.extracted = Defines(node)
    /\ node.reads \subseteq Defined
    /\ \A k \in Declared(node) : ~PairUndefined(node, k)

\* A card that fails for an undefined name read one.
Lacking(node, r) ==
  r.why = "undefined" =>
    \E x \in Name :
      /\ x \notin Defined
      /\ \/ x \in node.reads
         \/ \E k \in Declared(node) : x \in node.pairs[k].reads \ DefinedBy(node, k - 1)

LEMMA CardShape ==
  ASSUME NEW node \in Node
  PROVE  /\ node.kind \in Kinds /\ node.reads \subseteq Name
         /\ Declared(node) \subseteq DOMAIN node.pairs /\ Declared(node) \subseteq Nat
         /\ DOMAIN node.pairs \subseteq Nat
         /\ \A k \in DOMAIN node.pairs : node.pairs[k].reads \subseteq Name
         /\ node.kind = "request" => \A k \in DOMAIN node.pairs : node.pairs[k].reads = {}
         /\ node.kind # "request" => node.expects = <<>>
         /\ node.kind = "variables" => node.reads = {}
         /\ node.kind \in {"condition", "display"} => node.pairs = <<>>
<1>1. node.pairs \in Seq(Pair)
  BY DEF Node
<1>2. DOMAIN node.pairs \subseteq Nat /\ \A k \in DOMAIN node.pairs : node.pairs[k] \in Pair
  BY <1>1, LenProperties, ElementOfSeq
<1>3. Declared(node) \subseteq DOMAIN node.pairs
  BY DEF Declared
<1>4. QED
  BY <1>2, <1>3 DEF Node, Pair

LEMMA TextSays ==
  ASSUME NEW node \in Node, node.kind \in {"condition", "display"},
         NEW r \in LocalOutcomes(node)
  PROVE  Complied(node, r) /\ Lacking(node, r)
<1>1. Declared(node) = {} /\ Defines(node) = {} /\ node.reads \subseteq Name
  BY CardShape DEF Defines, Declared
<1>2. PICK passes \in SUBSET {Passed("true", {}), Passed("false", {}), Passed("none", {})} :
        r \in TextOutcomes(node, passes)
  BY Zenon DEF LocalOutcomes
<1>3. CASE node.reads \ Defined # {}
  <2>1. r = Failed("undefined", {})
    BY <1>2, <1>3 DEF TextOutcomes
  <2>2. r.status = "failed"
    BY <2>1 DEF Failed, Pending
  <2>3. QED
    BY <1>1, <1>3, <2>2 DEF Complied, Lacking
<1>4. CASE node.reads \ Defined = {}
  <2>1. r \in passes \/ r = Failed("resolve", {})
    BY <1>2, <1>4 DEF TextOutcomes
  <2>2. r.why # "undefined" /\ (r.status = "passed" => r.extracted = {})
    BY <2>1 DEF Failed, Passed, Pending
  <2>3. QED
    BY <1>1, <1>4, <2>2 DEF Complied, Lacking
<1>5. QED
  BY <1>3, <1>4

LEMMA DeclarationSays ==
  ASSUME NEW node \in Node, node.kind = "variables", NEW r \in LocalOutcomes(node)
  PROVE  Complied(node, r) /\ Lacking(node, r)
<1>1. r \in DeclarationOutcomes(node)
  BY Zenon DEF LocalOutcomes
<1>2. /\ node.reads = {} /\ DOMAIN node.pairs \subseteq Nat
      /\ Declared(node) \subseteq DOMAIN node.pairs /\ Declared(node) \subseteq Nat
      /\ \A k \in DOMAIN node.pairs : node.pairs[k].reads \subseteq Name
  BY CardShape
<1>3. CASE \E k \in FirstUndefined(node) : r = Failed("undefined", DefinedBy(node, k - 1))
  <2>1. PICK k \in FirstUndefined(node) : r = Failed("undefined", DefinedBy(node, k - 1))
    BY <1>3
  <2>2. k \in Declared(node) /\ k \in DOMAIN node.pairs /\ PairUndefined(node, k)
    BY <1>2 DEF FirstUndefined
  <2>3. r.status = "failed"
    BY <2>1 DEF Failed, Pending
  <2>4. PICK x \in node.pairs[k].reads : x \notin Defined \union DefinedBy(node, k - 1)
    BY <2>2 DEF PairUndefined
  <2>5. QED
    BY <1>2, <2>2, <2>3, <2>4 DEF Complied, Lacking
<1>4. CASE \E k \in Unresolved(node) : r = Failed("resolve", DefinedBy(node, k - 1))
  BY <1>4 DEF Complied, Lacking, Failed, Pending
<1>5. CASE FirstUndefined(node) = {} /\ r = Passed("none", Defines(node))
  <2>1. r.status = "passed" /\ r.why = "none" /\ r.extracted = Defines(node)
    BY <1>5 DEF Passed, Pending
  <2>2. ASSUME NEW k \in Declared(node), PairUndefined(node, k) PROVE FALSE
    <3> DEFINE U == {j \in Declared(node) : PairUndefined(node, j)}
    <3>1. U \in SUBSET Nat /\ U # {}
      BY <1>2, <2>2
    <3>2. Min(U) \in U /\ \A j \in U : Min(U) <= j
      BY <3>1, MinIsAMember
    <3>3. PICK i \in U : \A j \in U : i <= j
      BY <3>2
    <3>4. \A j \in 1..(i - 1) : ~PairUndefined(node, j)
      <4>1. SUFFICES ASSUME NEW j \in 1..(i - 1), PairUndefined(node, j) PROVE FALSE
        OBVIOUS
      <4>2. j \in U
        BY <4>1 DEF PairUndefined
      <4>3. QED
        BY <3>1, <3>3, <4>1, <4>2
    <3>5. i \in FirstUndefined(node)
      BY <3>4 DEF FirstUndefined
    <3>6. QED
      BY <1>5, <3>5
  <2>3. QED
    BY <1>2, <2>1, <2>2 DEF Complied, Lacking
<1>6. QED
  BY <1>1, <1>3, <1>4, <1>5 DEF DeclarationOutcomes

LEMMA LocalSays ==
  ASSUME NEW node \in Node, node.kind # "request", NEW r \in LocalOutcomes(node)
  PROVE  Complied(node, r) /\ Lacking(node, r)
BY TextSays, DeclarationSays, CardShape DEF Kinds

\* An answered request sets its extractions if it passes, and then had the names
\* its assertions read; it never lacks one.
LEMMA AnswerSays ==
  ASSUME NEW node \in Node,
         NEW r \in {Failed("transport", {})} \union AnswerOutcomes(node)
  PROVE  /\ r.why # "undefined"
         /\ r.status = "passed" =>
              /\ r.extracted = Defines(node)
              /\ \A k \in Compared(node) : node.expects[k].reads \subseteq Defined
<1>1. CASE r = Failed("transport", {}) \/ r = Failed("assertions", Defines(node))
  BY <1>1 DEF Failed, Pending
<1>2. CASE /\ r = Passed("none", Defines(node))
           /\ \A k \in Compared(node) : node.expects[k].reads \subseteq Defined
  BY <1>2 DEF Passed, Pending
<1>3. CASE \E found \in SUBSET Declared(node) :
             r = Failed("extraction", {node.pairs[k].name : k \in found})
  BY <1>3 DEF Failed, Pending
<1>4. QED
  BY <1>1, <1>2, <1>3 DEF AnswerOutcomes

\* Steps are taken up in the order of the loop.
InOrder ==
  \A p, q \in Included :
    (Decided(p) \/ current = p) /\ Rank(q) < Rank(p) => Decided(q)

\* A request that was sent had what it reads; a passed step set what it sets.
ReadsDefined == current # NoNode => Card(flow, current).reads \subseteq Defined

SetsDefined == \A n \in Included :
  result[n].status = "passed" => result[n].extracted = Defines(Card(flow, n))

\* A step before `n` that sets a name `n` reads, had it passed.
Culpable(m, n) ==
  /\ Rank(m) < Rank(n)
  /\ m \in Included => Decided(m) /\ result[m].status # "passed"
  /\ Defines(Card(flow, m)) \intersect Needs(Card(flow, n)) # {}

LackExplained(n) == LintClean /\ result[n].why = "undefined" => \E m \in Nodes : Culpable(m, n)

WarningHeeded(n) == run.seed = {} /\ UnknownResolved(n) # {} => result[n].status # "passed"

\* The inductive invariant of the static reading.
LintInv ==
  Ordered => /\ InOrder /\ ReadsDefined /\ SetsDefined
             /\ \A n \in Included : LackExplained(n) /\ WarningHeeded(n)

LEMMA RankOfStep ==
  ASSUME TypeOK, Complete
  PROVE  /\ \A n \in Nodes : Rank(n) \in Nat
         /\ \A n, m \in Nodes : Rank(n) = Rank(m) => n = m
<1>1. \A n \in Nodes : /\ Position(n) \in 1..Len(order) /\ order[Position(n)] = n
                       /\ Len(order) \in Nat
  BY PositionOfStep
<1>2. \A n \in Nodes : Rank(n) = Position(n) \/ Rank(n) = Len(order) + Position(n)
  BY DEF Rank
<1>3. \A n \in Nodes : Rank(n) \in Nat
  BY <1>1, <1>2
<1>4. ASSUME NEW n \in Nodes, NEW m \in Nodes, Rank(n) = Rank(m)
      PROVE  n = m
  <2>1. Position(n) = Position(m)
    BY <1>1, <1>2, <1>4
  <2>2. QED
    BY <1>1, <2>1
<1>5. QED
  BY <1>3, <1>4

\* Whatever has a value when a step is taken up, and no run before left, lint took
\* to be in its scope.
LEMMA DefinedInScope ==
  ASSUME TypeOK, Complete, ScopeIsWhatPassed, phase \in {"running", "sending"},
         InOrder, SetsDefined, run.seed = {}, NEW n \in Included, ~Decided(n),
         NEW x \in Defined
  PROVE  x \in LintScope(n)
<1>1. CASE x \in Environment
  BY <1>1 DEF LintScope
<1>2. CASE x \notin Environment
  <2>1. x \in Name /\ variables[x] # Unset
    BY <1>2 DEF Defined
  <2>2. PICK p \in Included : result[p].status = "passed" /\ x \in result[p].extracted
    BY <2>1 DEF ScopeIsWhatPassed
  <2>3. x \in Defines(Card(flow, p)) /\ p \in Nodes /\ n \in Nodes
    BY <2>2 DEF SetsDefined
  <2>4. Decided(p)
    BY <2>2, PendingShape DEF Decided
  <2>5. ~(Rank(n) < Rank(p)) /\ p # n
    BY <2>4 DEF InOrder
  <2>6. Rank(p) < Rank(n)
    BY <2>3, <2>5, RankOfStep
  <2>7. QED
    BY <2>3, <2>6 DEF LintScope
<1>3. QED
  BY <1>1, <1>2

\* What lint took to be in scope and has no value was left to a step that did not
\* pass.
LEMMA LackHasCulprit ==
  ASSUME TypeOK, ScopeIsWhatPassed, phase \in {"running", "sending"}, SetsDefined,
         NEW n \in Included, \A q \in Included : Rank(q) < Rank(n) => Decided(q),
         NEW x \in Name, x \notin Defined, x \in LintScope(n), x \in Needs(Card(flow, n))
  PROVE  \E m \in Nodes : Culpable(m, n)
<1>1. PICK m \in Nodes : Rank(m) < Rank(n) /\ x \in Defines(Card(flow, m))
  BY DEF LintScope, Defined
<1>2. ASSUME m \in Included PROVE Decided(m) /\ result[m].status # "passed"
  <2>1. Decided(m)
    BY <1>1, <1>2
  <2>2. ASSUME result[m].status = "passed" PROVE FALSE
    <3>1. x \in result[m].extracted
      BY <1>1, <1>2, <2>2 DEF SetsDefined
    <3>2. variables[x] # Unset
      BY <1>2, <2>2, <3>1 DEF ScopeIsWhatPassed
    <3>3. QED
      BY <3>2 DEF Defined
  <2>3. QED
    BY <2>1, <2>2
<1>3. QED
  BY <1>1, <1>2 DEF Culpable

\* What lint reads of the document and the order stays as it is.
LEMMA ReadingKept ==
  ASSUME UNCHANGED <<run, order>>
  PROVE  /\ \A n : Rank(n)' = Rank(n)
         /\ \A n : UnknownResolved(n)' = UnknownResolved(n)
         /\ LintClean' <=> LintClean
<1>1. \A n : Rank(n)' = Rank(n)
  BY DEF Rank, Position
<1>2. \A n : LintScope(n)' = LintScope(n)
  BY <1>1 DEF LintScope
<1>3. \A n, asserted, declared :
        UnknownAmong(n, asserted, declared)' = UnknownAmong(n, asserted, declared)
  BY <1>2 DEF UnknownAmong
<1>4. \A n : Unknown(n)' = Unknown(n) /\ UnknownResolved(n)' = UnknownResolved(n)
  BY <1>3 DEF Unknown, UnknownResolved
<1>5. QED
  BY <1>1, <1>4 DEF LintClean

LEMMA DecideLint ==
  ASSUME TypeOK, Ordered, LintInv, UNCHANGED <<run, order>>,
         NEW n \in Included, ~Decided(n), current \in {NoNode, n}, current' = NoNode,
         \A q \in Included : Rank(q) < Rank(n) => Decided(q),
         NEW r, r.status # "pending", Decide(n, r),
         r.status = "passed" => r.extracted = Defines(Card(flow, n)),
         LintClean /\ r.why = "undefined" => \E m \in Nodes : Culpable(m, n),
         run.seed = {} /\ UnknownResolved(n) # {} => r.status # "passed"
  PROVE  LintInv'
<1>1. n \in NodeId /\ n # NoNode /\ Included \subseteq NodeId /\ Nodes \subseteq NodeId
  BY RunTyped, ValuesAssumption
<1>2. /\ result'[n] = r /\ r # Pending
      /\ \A m \in NodeId : m # n => result'[m] = result[m]
  BY <1>1, DecideOnly
<1>3. /\ \A m : Rank(m)' = Rank(m)
      /\ \A m : UnknownResolved(m)' = UnknownResolved(m)
      /\ LintClean' <=> LintClean
  BY ReadingKept
<1>4. \A m \in Included : Decided(m)' <=> Decided(m) \/ m = n
  BY <1>1, <1>2 DEF Decided
<1>5. InOrder /\ SetsDefined /\ \A m \in Included : LackExplained(m) /\ WarningHeeded(m)
  BY DEF LintInv
<1>6. InOrder'
  <2>1. SUFFICES ASSUME NEW p \in Included, NEW q \in Included, Decided(p)',
                        Rank(q) < Rank(p)
                 PROVE  Decided(q)'
    BY <1>1, <1>3, ValuesAssumption DEF InOrder
  <2>2. CASE p = n
    BY <1>4, <2>1, <2>2
  <2>3. CASE p # n
    BY <1>4, <1>5, <2>1, <2>3 DEF InOrder
  <2>4. QED
    BY <2>2, <2>3
<1>7. SetsDefined'
  BY <1>1, <1>2, <1>5 DEF SetsDefined
<1>8. ReadsDefined'
  BY DEF ReadsDefined
<1>9. ASSUME NEW m \in Nodes, NEW k \in Included, Culpable(m, k), Decided(k) \/ k = n
      PROVE  Culpable(m, k)'
  <2>1. m \in Included => Decided(m) /\ result[m].status # "passed" /\ m # n
    BY <1>9 DEF Culpable
  <2>2. m \in Included => result'[m] = result[m]
    BY <1>1, <1>2, <2>1
  <2>3. QED
    BY <1>3, <1>4, <1>9, <2>1, <2>2 DEF Culpable
<1>10. ASSUME NEW m \in Included PROVE (LackExplained(m) /\ WarningHeeded(m))'
  <2>1. CASE m = n
    <3>1. LackExplained(m)'
      BY <1>2, <1>3, <1>9, <2>1 DEF LackExplained
    <3>2. WarningHeeded(m)'
      BY <1>2, <1>3, <2>1 DEF WarningHeeded
    <3>3. QED
      BY <3>1, <3>2
  <2>2. CASE m # n
    <3>1. result'[m] = result[m] /\ LackExplained(m) /\ WarningHeeded(m)
      BY <1>1, <1>2, <1>5, <2>2
    <3>2. result[m].why = "undefined" => Decided(m)
      BY PendingShape DEF Decided
    <3>3. LackExplained(m)'
      BY <1>3, <1>9, <3>1, <3>2 DEF LackExplained
    <3>4. WarningHeeded(m)'
      BY <1>3, <3>1 DEF WarningHeeded
    <3>5. QED
      BY <3>3, <3>4
  <2>3. QED
    BY <2>1, <2>2
<1>11. QED
  BY <1>6, <1>7, <1>8, <1>10 DEF LintInv

\* A step that had everything it reads was not warned about.
LEMMA CompliedIsKnown ==
  ASSUME NEW n, NEW node, node = Card(flow, n), Defined \subseteq LintScope(n),
         node.reads \subseteq Defined,
         \A k \in Declared(node) : ~PairUndefined(node, k),
         \A k \in Compared(node) : node.expects[k].reads \subseteq Defined
  PROVE  UnknownResolved(n) = {}
BY DEF UnknownResolved, UnknownAmong, PairUndefined

\* A step that lacks a name although lint is content lacks one in lint's scope.
LEMMA LackIsInScope ==
  ASSUME NEW n \in Nodes, LintClean, NEW r, r.why = "undefined", Lacking(Card(flow, n), r)
  PROVE  \E x \in Name : x \notin Defined /\ x \in LintScope(n) /\ x \in Needs(Card(flow, n))
<1>1. Unknown(n) = {}
  BY DEF LintClean
<1>2. PICK x \in Name :
        /\ x \notin Defined
        /\ \/ x \in Card(flow, n).reads
           \/ \E k \in Declared(Card(flow, n)) :
                x \in Card(flow, n).pairs[k].reads \ DefinedBy(Card(flow, n), k - 1)
  BY DEF Lacking
<1>3. x \in Needs(Card(flow, n))
  BY <1>2 DEF Needs
<1>4. x \in LintScope(n)
  BY <1>1, <1>2 DEF Unknown, UnknownAmong, Declared
<1>5. QED
  BY <1>2, <1>3, <1>4

LEMMA StepSays ==
  ASSUME TypeOK, NEW n \in NodeId, SettlesAtOnce(n)
  PROVE  \E r : /\ Decide(n, r) /\ r.status # "pending"
                /\ Complied(Card(flow, n), r) /\ Lacking(Card(flow, n), r)
                /\ r.status = "passed" => Card(flow, n).kind # "request"
<1>1. IsNext(n) /\ n \in Nodes
  BY StepSettles, StepRuns
<1>2. Card(flow, n) \in Node
  BY <1>1, CardTyped
<1>3. CASE SkipAfterFailure(n) \/ SkipUntaken(n)
  <2>1. PICK r : Settled(n, r)
    BY StepSettles
  <2>2. r.status = "skipped" /\ r.why \in SkipKinds
    <3>1. result'[n] = r
      BY <2>1 DEF Settled, Decide, TypeOK
    <3>2. CASE SkipAfterFailure(n)
      <4> DEFINE e == EdgeAt(Min(DeadInto(n)))
                 s == Skipped("upstream_failed", Culprit(e), "none")
      <4>1. Decide(n, s)
        BY <3>2 DEF SkipAfterFailure
      <4>2. result'[n] = s
        BY <4>1 DEF Decide, TypeOK
      <4>3. s.status = "skipped" /\ s.why = "upstream_failed"
        BY DEF Skipped, Pending
      <4>4. QED
        BY <3>1, <4>2, <4>3 DEF SkipKinds
    <3>3. CASE SkipUntaken(n)
      <4> DEFINE e == EdgeAt(Min(InactiveInto(n)))
                 s == IF InactiveInto(n) # {} THEN UntakenBranch(e)
                      ELSE Skipped("branch_not_taken", n, "none")
      <4>1. Decide(n, s)
        BY <3>3 DEF SkipUntaken
      <4>2. result'[n] = s
        BY <4>1 DEF Decide, TypeOK
      <4>3. s.status = "skipped" /\ s.why = "branch_not_taken"
        BY DEF Skipped, Pending, UntakenBranch
      <4>4. QED
        BY <3>1, <4>2, <4>3 DEF SkipKinds
    <3>4. QED
      BY <1>3, <3>2, <3>3
  <2>3. QED
    BY <2>1, <2>2 DEF Settled, Complied, Lacking, SkipKinds
<1>4. CASE RunLocal(n)
  <2>1. PICK r \in LocalOutcomes(Card(flow, n)) : Decide(n, r)
    BY <1>4 DEF RunLocal
  <2>2. Card(flow, n).kind # "request"
    BY <1>4 DEF RunLocal
  <2>3. Outcome(r)
    BY <1>2, <2>1, <2>2, LocalOutcomesShape
  <2>4. Complied(Card(flow, n), r) /\ Lacking(Card(flow, n), r)
    BY <1>2, <2>1, <2>2, LocalSays
  <2>5. QED
    BY <2>1, <2>2, <2>3, <2>4 DEF Outcome
<1>5. CASE FailBeforeSending(n)
  <2>1. PICK why \in {"undefined", "resolve"} :
               /\ why = "undefined" <=> Card(flow, n).reads \ Defined # {}
               /\ Decide(n, Failed(why, {}))
    BY <1>5 DEF FailBeforeSending
  <2>2. Failed(why, {}).status = "failed" /\ Failed(why, {}).why = why
    BY DEF Failed, Pending
  <2>3. Lacking(Card(flow, n), Failed(why, {}))
    BY <1>2, <2>1, <2>2, CardShape DEF Lacking
  <2>4. QED
    BY <2>1, <2>2, <2>3 DEF Complied
<1>6. QED
  BY <1>3, <1>4, <1>5 DEF SettlesAtOnce

LEMMA SettleLint ==
  ASSUME IInv, ScopeIsWhatPassed, LintInv, NEW n \in NodeId, SettlesAtOnce(n)
  PROVE  LintInv'
<1>1. TypeOK /\ OrderInv /\ ProgressInv
  BY DEF IInv
<1>2. /\ n \in Included /\ n \in Nodes /\ ~Decided(n) /\ phase = "running" /\ IsNext(n)
      /\ UNCHANGED <<run, order, phase, current>>
  BY <1>1, StepSettles, StepRuns DEF orderVars
<1>3. current = NoNode /\ Ordered /\ Complete
  BY <1>1, <1>2 DEF ProgressInv, Ordered, Complete, Refusable
<1>4. \A q \in Included : Rank(q) < Rank(n) => Decided(q)
  <2>1. \A q \in Nodes : Rank(q) \in Nat
    BY <1>1, <1>3, RankOfStep
  <2>2. QED
    BY <1>2, <2>1 DEF IsNext, Left, Decided
<1>5. PICK r : /\ Decide(n, r) /\ r.status # "pending"
               /\ Complied(Card(flow, n), r) /\ Lacking(Card(flow, n), r)
               /\ r.status = "passed" => Card(flow, n).kind # "request"
  BY <1>1, <1>2, StepSays
<1>6. InOrder /\ SetsDefined
  BY <1>3 DEF LintInv
<1>7. ASSUME LintClean, r.why = "undefined" PROVE \E m \in Nodes : Culpable(m, n)
  <2>1. PICK x \in Name :
               x \notin Defined /\ x \in LintScope(n) /\ x \in Needs(Card(flow, n))
    BY <1>2, <1>5, <1>7, LackIsInScope
  <2>2. QED
    BY <1>1, <1>2, <1>4, <1>6, <2>1, LackHasCulprit
<1>8. ASSUME run.seed = {}, r.status = "passed" PROVE UnknownResolved(n) = {}
  <2>1. Defined \subseteq LintScope(n)
    BY <1>1, <1>2, <1>3, <1>6, <1>8, DefinedInScope
  <2>2. Card(flow, n) \in Node
    BY <1>1, <1>2, CardTyped
  <2>3. Compared(Card(flow, n)) = {}
    BY <1>5, <1>8, <2>2, CardShape DEF Compared
  <2>4. QED
    BY <1>5, <1>8, <2>1, <2>3, CompliedIsKnown DEF Complied
<1>9. QED
  BY <1>1, <1>2, <1>3, <1>4, <1>5, <1>7, <1>8, DecideLint DEF Complied

LEMMA AnswerLint ==
  ASSUME IInv, ScopeIsWhatPassed, LintInv, WhyInv, Answer
  PROVE  LintInv'
<1>1. TypeOK /\ OrderInv /\ ProgressInv /\ Formed
  BY DEF IInv, WhyInv
<1>2. /\ current \in Included /\ ~Decided(current) /\ phase = "sending"
      /\ current' = NoNode /\ UNCHANGED <<run, order>>
  BY <1>1, AnswerSettles DEF orderVars
<1>3. PICK n \in Included : n = current
  BY <1>2
<1>4. Ordered /\ Complete /\ InOrder /\ SetsDefined /\ ReadsDefined
  BY <1>1, <1>2 DEF LintInv, Ordered, Complete, Refusable
<1>5. PICK r \in {Failed("transport", {})} \union AnswerOutcomes(Card(flow, current)) :
        Decide(current, r)
  BY DEF Answer
<1>6. n \in Nodes /\ n # NoNode /\ Card(flow, n) \in Node /\ Card(flow, n).kind = "request"
  BY <1>1, <1>2, <1>3, RunTyped, CardTyped, ValuesAssumption DEF Formed
<1>7. /\ r.status # "pending" /\ r.why # "undefined"
      /\ r.status = "passed" =>
           /\ r.extracted = Defines(Card(flow, n))
           /\ \A k \in Compared(Card(flow, n)) : Card(flow, n).expects[k].reads \subseteq Defined
  BY <1>3, <1>5, <1>6, AnswerSays, AnswerOutcomesShape DEF Outcome
<1>8. ASSUME run.seed = {}, r.status = "passed" PROVE UnknownResolved(n) = {}
  <2>1. Defined \subseteq LintScope(n)
    BY <1>1, <1>2, <1>3, <1>4, <1>8, DefinedInScope
  <2>2. Card(flow, n).reads \subseteq Defined
    BY <1>3, <1>4, <1>6 DEF ReadsDefined
  <2>3. \A k \in Declared(Card(flow, n)) : ~PairUndefined(Card(flow, n), k)
    BY <1>6, CardShape DEF PairUndefined
  <2>4. QED
    BY <1>7, <1>8, <2>1, <2>2, <2>3, CompliedIsKnown
<1>9. \A q \in Included : Rank(q) < Rank(n) => Decided(q)
  BY <1>3, <1>4 DEF InOrder
<1>10. QED
  BY <1>1, <1>2, <1>3, <1>4, <1>5, <1>7, <1>8, <1>9, DecideLint

LEMMA SendLint ==
  ASSUME IInv, LintInv, NEW n \in NodeId, Send(n)
  PROVE  LintInv'
<1>1. TypeOK /\ OrderInv /\ ProgressInv
  BY DEF IInv
<1>2. /\ n \in Included /\ n \in Nodes /\ ~Decided(n) /\ phase = "running" /\ IsNext(n)
      /\ UNCHANGED <<run, order, result, variables>> /\ current' = n
      /\ Card(flow, n).reads \subseteq Defined
  BY StepRuns DEF Send, orderVars
<1>3. current = NoNode /\ Ordered /\ Complete
  BY <1>1, <1>2 DEF ProgressInv, Ordered, Complete, Refusable
<1>4. \A q \in Included : Rank(q) < Rank(n) => Decided(q)
  <2>1. \A q \in Nodes : Rank(q) \in Nat
    BY <1>1, <1>3, RankOfStep
  <2>2. QED
    BY <1>2, <2>1 DEF IsNext, Left, Decided
<1>5. InOrder /\ SetsDefined /\ \A m \in Included : LackExplained(m) /\ WarningHeeded(m)
  BY <1>3 DEF LintInv
<1>6. /\ \A m : Rank(m)' = Rank(m)
      /\ \A m : UnknownResolved(m)' = UnknownResolved(m)
      /\ LintClean' <=> LintClean
  BY <1>2, ReadingKept
<1>7. InOrder'
  BY <1>2, <1>4, <1>5, <1>6 DEF InOrder, Decided
<1>8. ReadsDefined'
  BY <1>2 DEF ReadsDefined, Defined
<1>9. SetsDefined'
  BY <1>2, <1>5 DEF SetsDefined
<1>10. ASSUME NEW m \in Included PROVE (LackExplained(m) /\ WarningHeeded(m))'
  BY <1>2, <1>5, <1>6 DEF LackExplained, WarningHeeded, Culpable, Decided
<1>11. QED
  BY <1>2, <1>7, <1>8, <1>9, <1>10 DEF LintInv

\* Nothing happens to a step.
LEMMA QuietLint ==
  ASSUME LintInv, Ordered' => Ordered, UNCHANGED <<run, order, result, variables, current>>
  PROVE  LintInv'
<1>1. /\ \A m : Rank(m)' = Rank(m)
      /\ \A m : UnknownResolved(m)' = UnknownResolved(m)
      /\ LintClean' <=> LintClean
  BY ReadingKept
<1>2. Defined' = Defined
  BY DEF Defined
<1>3. SUFFICES ASSUME Ordered, InOrder, ReadsDefined, SetsDefined,
                      \A n \in Included : LackExplained(n) /\ WarningHeeded(n)
               PROVE  (/\ InOrder /\ ReadsDefined /\ SetsDefined
                       /\ \A n \in Included : LackExplained(n) /\ WarningHeeded(n))'
  BY DEF LintInv
<1>4. InOrder' /\ ReadsDefined' /\ SetsDefined'
  BY <1>1, <1>2, <1>3 DEF InOrder, Decided, ReadsDefined, SetsDefined
<1>5. \A n \in Included : LackExplained(n)' /\ WarningHeeded(n)'
  BY <1>1, <1>3 DEF LackExplained, WarningHeeded, Culpable, Decided
<1>6. QED
  BY <1>4, <1>5

LEMMA NextLint ==
  ASSUME IInv, IInv', ScopeIsWhatPassed, WhyInv, LintInv, [Next]_vars
  PROVE  LintInv'
<1>1. TypeOK /\ OrderInv /\ ProgressInv
  BY DEF IInv
<1>2. CASE UNCHANGED vars
  BY <1>2, QuietLint DEF vars, orderVars, runVars, Ordered
<1>3. CASE Validate \/ \E n \in NodeId : PlaceNext(n)
  BY <1>3 DEF Validate, PlaceNext, Refuse, LintInv, Ordered
<1>4. CASE Start
  <2>1. CASE Ordered'
    <3>1. /\ \A n \in NodeId : result'[n] = Pending
          /\ current' = NoNode
      BY <1>1, <1>4, <2>1 DEF Start, Refuse, Ordered, ProgressInv, Decided
    <3>2. Included' \subseteq NodeId
      <4>1. UNCHANGED run
        BY <1>4 DEF Start, Refuse
      <4>2. Included \subseteq NodeId
        BY <1>1, RunTyped
      <4>3. QED
        BY <4>1, <4>2
    <3>3. InOrder' /\ ReadsDefined' /\ SetsDefined'
      BY <3>1, <3>2, PendingShape, ValuesAssumption
      DEF InOrder, ReadsDefined, SetsDefined, Decided
    <3>4. \A n \in Included' : LackExplained(n)' /\ WarningHeeded(n)'
      BY <3>1, <3>2, PendingShape DEF LackExplained, WarningHeeded
    <3>5. QED
      BY <3>3, <3>4 DEF LintInv
  <2>2. CASE ~Ordered'
    BY <2>2 DEF LintInv
  <2>3. QED
    BY <2>1, <2>2
<1>5. CASE Finish \/ Quit
  BY <1>5, QuietLint DEF Finish, Quit, orderVars, runVars, Ordered
<1>6. CASE \E n \in NodeId : Step(n)
  BY <1>6, SettleLint, SendLint DEF Step, SettlesAtOnce
<1>7. CASE Answer
  BY <1>7, AnswerLint
<1>8. QED
  BY <1>2, <1>3, <1>4, <1>5, <1>6, <1>7 DEF Next, Progress

LEMMA LintStarts == Init => LintInv
BY DEF Init, LintInv, Ordered

\* What lint takes to be in scope when a step is reached, and what is, differ only
\* by the steps that did not pass, whatever the document, its order and the names.
THEOREM LintInvariance == Spec => []LintInv
<1>1. IInv /\ IInv' /\ ScopeIsWhatPassed /\ WhyInv /\ LintInv /\ [Next]_vars => LintInv'
  BY NextLint
<1>2. QED
  BY <1>1, LintStarts, Invariance, ScopeTold, ReasonsStand, PTL DEF Spec

\* In a flow lint has nothing to say about, a step fails for an undefined name only
\* where an earlier step that sets one it reads was left out or did not pass.
THEOREM CleanFlowsLack == Spec => []CleanFlowsLackOnlyWhatDidNotPass
<1>1. LintInv => CleanFlowsLackOnlyWhatDidNotPass
  BY DEF LintInv, CleanFlowsLackOnlyWhatDidNotPass, LackExplained, Culpable
<1>2. QED
  BY <1>1, LintInvariance, PTL

\* Lint raises no false alarm: without the variables of an earlier run, a step it
\* warns about never passes.
THEOREM WarningsHold == Spec => []WarnedStepsNeverPass
<1>1. LintInv => WarnedStepsNeverPass
  BY DEF LintInv, WarnedStepsNeverPass, WarningHeeded
<1>2. QED
  BY <1>1, LintInvariance, PTL

----------------------------------------------------------------------------
(***************************************************************************)
(* What the tab is told of a run.                                          *)
(***************************************************************************)
Sent(e)  == \E k \in 1..Len(events) : events[k] = e
Heard(e) == \E k \in 1..told : events[k] = e

\* An event of a step comes after those of what feeds it, and there are none of
\* steps that were not taken up, nor any after the last.
StepEvent(k) == events[k] \in {NodeStarted(events[k].node), NodeFinished(events[k].node)}

EventsInv ==
  /\ \A k \in 1..Len(events) :
       \/ k = 1 /\ events[k] = [event |-> "started", node |-> NoNode]
       \/ /\ k = Len(events) /\ k > 1 /\ phase = "finished"
          /\ events[k] = [event |-> "finished", node |-> NoNode]
       \/ /\ k > 1 /\ StepEvent(k) /\ events[k].node \in Included
          /\ \A u \in Upstream(flow, events[k].node) :
               EdgeAt(u).from \in Included =>
                 \E i \in 1..(k - 1) : events[i] = NodeFinished(EdgeAt(u).from)
  /\ \A n \in Included :
       /\ Sent(NodeFinished(n)) <=> Decided(n)
       /\ Sent(NodeStarted(n)) => Executed(n)
       /\ \A i, k \in 1..Len(events) :
            events[i] = NodeFinished(n) /\ events[k] = NodeStarted(n) => k < i
  /\ Refusable \/ phase = "ordering" => events = <<>>
  /\ Scoped => events # <<>>

\* A card shows what the last event it heard of says.
LiveInv ==
  /\ told \in 0..Len(events)
  /\ live = [n \in NodeId |-> live[n]]
  /\ \A n \in NodeId :
       /\ Heard(NodeFinished(n)) => live[n] = Shown(n)
       /\ \/ live[n] \in {Idle, Waiting}
          \/ live[n] = Busy /\ Heard(NodeStarted(n)) /\ n \in Included
          \/ live[n] = Shown(n) /\ Heard(NodeFinished(n)) /\ n \in Included

LEMMA EventShapes ==
  /\ \A n : NodeStarted(n).event = "node_started" /\ NodeStarted(n).node = n
  /\ \A n : NodeFinished(n).event = "node_finished" /\ NodeFinished(n).node = n
  /\ \A n, m : NodeStarted(n) # NodeFinished(m)
  /\ \A n, m : NodeFinished(n) = NodeFinished(m) => n = m
  /\ \A n, m : NodeStarted(n) = NodeStarted(m) => n = m
  /\ \A n, m : /\ NodeStarted(n) # [event |-> "started", node |-> m]
               /\ NodeFinished(n) # [event |-> "started", node |-> m]
               /\ NodeStarted(n) # [event |-> "finished", node |-> m]
               /\ NodeFinished(n) # [event |-> "finished", node |-> m]
BY DEF NodeStarted, NodeFinished

(***************************************************************************)
(* The picture.                                                            *)
(***************************************************************************)
\* A card the tab has heard of was taken up, and the tab has heard how all that
\* feeds it ended.
LEMMA HeardOf ==
  ASSUME TypeOK, EventsInv, LiveInv, NEW n \in NodeId, live[n] \notin {Idle, Waiting},
         NEW u \in Upstream(flow, n), EdgeAt(u).from \in Included
  PROVE  Decided(EdgeAt(u).from) /\ live[EdgeAt(u).from] = Shown(EdgeAt(u).from)
<1>1. PICK k \in 1..told : events[k] = NodeStarted(n) \/ events[k] = NodeFinished(n)
  BY DEF LiveInv, Heard
<1>2. k \in 1..Len(events) /\ events[k].node = n /\ Len(events) \in Nat /\ told \in Nat
      /\ told <= Len(events)
  BY <1>1, EventShapes DEF LiveInv, TypeOK
<1>3. PICK i \in 1..(k - 1) : events[i] = NodeFinished(EdgeAt(u).from)
  BY <1>1, <1>2, EventShapes DEF EventsInv
<1>4. i \in 1..told /\ i \in 1..Len(events)
  BY <1>2, <1>3
<1>5. Heard(NodeFinished(EdgeAt(u).from)) /\ Sent(NodeFinished(EdgeAt(u).from))
  BY <1>3, <1>4 DEF Heard, Sent
<1>6. EdgeAt(u).from \in NodeId
  BY RunTyped
<1>7. QED
  BY <1>5, <1>6 DEF LiveInv, EventsInv

LEMMA PictureExplains ==
  WhyInv /\ EventsInv /\ LiveInv => CanvasExplainsTheGate
<1>1. SUFFICES ASSUME WhyInv, EventsInv, LiveInv, NEW n \in Nodes
               PROVE  LET edges == {Drawn(EdgeAt(k)) : k \in Upstream(flow, n)} IN
                        CASE live[n].status \in {"running", "passed", "failed"} ->
                               "dead" \notin edges
                                 /\ (edges = {} \/ {"taken", "idle"} \intersect edges # {})
                          [] live[n].status = "skipped" /\ live[n].result.why = "upstream_failed" ->
                               "dead" \in edges
                          [] live[n].status = "skipped" /\ live[n].result.why = "branch_not_taken" ->
                               edges = {"inactive"}
                          [] OTHER -> TRUE
  BY Zenon DEF CanvasExplainsTheGate
<1> DEFINE edges == {Drawn(EdgeAt(k)) : k \in Upstream(flow, n)}
<1>2. /\ TypeOK /\ Formed /\ Gated /\ n \in NodeId /\ Included \subseteq NodeId
      /\ NoNode \notin NodeId
  BY <1>1, RunTyped, ValuesAssumption DEF WhyInv, IInv
<1>3. CASE live[n] \in {Idle, Waiting}
  <2>1. live[n].status \in {"idle", "pending"}
    BY <1>3 DEF Idle, Waiting
  <2>2. QED
    BY <2>1
<1>4. CASE live[n] \notin {Idle, Waiting}
  <2>1. n \in Included
    BY <1>1, <1>2, <1>4 DEF LiveInv
  <2>2. ASSUME NEW u \in Upstream(flow, n)
        PROVE  /\ EdgeAt(u).from \notin Included => Drawn(EdgeAt(u)) = "idle"
               /\ EdgeAt(u).from \in Included =>
                    /\ Dead(EdgeAt(u)) => Drawn(EdgeAt(u)) = "dead"
                    /\ Live(EdgeAt(u)) => Drawn(EdgeAt(u)) = "taken"
                    /\ ~Dead(EdgeAt(u)) /\ ~Live(EdgeAt(u)) => Drawn(EdgeAt(u)) = "inactive"
    <3> DEFINE m == EdgeAt(u).from
    <3>1. m \in NodeId
      BY <1>2, EdgeTyped DEF Upstream
    <3>2. CASE m \notin Included
      <4>1. live[m] \in {Idle, Waiting}
        BY <1>1, <3>1, <3>2 DEF LiveInv
      <4>2. live[m].result.status = "pending"
        BY <4>1, PendingShape DEF Idle, Waiting
      <4>3. QED
        BY <3>2, <4>2 DEF Drawn
    <3>3. CASE m \in Included
      <4>1. Decided(m) /\ live[m] = Shown(m)
        BY <1>1, <1>2, <1>4, <3>3, HeardOf
      <4>2. live[m].result = result[m]
        BY <4>1 DEF Shown
      <4>3. /\ result[m] \in Result /\ result[m].status # "pending"
            /\ result[m].status = "skipped" <=> result[m].why \in SkipKinds
        BY <1>2, <3>1, <4>1 DEF TypeOK, Formed
      <4>4. result[m].status \in {"passed", "failed", "skipped"}
        BY <4>3 DEF Result
      <4>5. QED
        BY <3>3, <4>2, <4>3, <4>4 DEF Drawn, Dead, Live, UntakenOutput, SkipKinds
    <3>4. QED
      BY <3>2, <3>3
  <2>3. CASE live[n] = Shown(n) /\ result[n].status = "skipped"
    <3>1. /\ live[n].status = "skipped" /\ live[n].result = result[n]
          /\ result[n].why \in SkipKinds
      BY <1>2, <2>3 DEF Shown, Formed
    <3>2. CASE result[n].why = "upstream_failed"
      <4>1. DeadInto(n) # {}
        BY <1>2, <2>1, <3>2 DEF Gated, GateHolds
      <4>2. PICK u \in Upstream(flow, n) : Dead(EdgeAt(u))
        BY <4>1 DEF DeadInto
      <4>3. "dead" \in edges
        BY <2>2, <4>2 DEF Dead
      <4>4. QED
        BY <3>1, <3>2, <4>3
    <3>3. CASE result[n].why = "branch_not_taken"
      <4>1. DeadInto(n) = {} /\ ~MayRun(n)
        BY <1>2, <2>1, <3>3 DEF Gated, GateHolds
      <4>2. Upstream(flow, n) # {} /\ LiveInto(n) = {}
        BY <4>1 DEF MayRun
      <4>3. \A u \in Upstream(flow, n) : ~Dead(EdgeAt(u)) /\ ~Live(EdgeAt(u))
        BY <4>1, <4>2 DEF DeadInto, LiveInto
      <4>4. \A u \in Upstream(flow, n) : Drawn(EdgeAt(u)) = "inactive"
        BY <2>2, <4>3 DEF Live
      <4>5. edges = {"inactive"}
        BY <4>2, <4>4
      <4>6. QED
        BY <3>1, <3>3, <4>5
    <3>4. QED
      BY <3>1, <3>2, <3>3 DEF SkipKinds
  <2>4. CASE ~(live[n] = Shown(n) /\ result[n].status = "skipped")
    <3>1. Executed(n) /\ live[n].status \in {"running", "passed", "failed"}
      <4>1. CASE live[n] = Busy /\ Heard(NodeStarted(n))
        <5>1. Sent(NodeStarted(n))
          BY <1>1, <1>2, <4>1 DEF Heard, Sent, LiveInv, TypeOK
        <5>2. QED
          BY <1>1, <2>1, <4>1, <5>1 DEF EventsInv, Busy
      <4>2. CASE live[n] = Shown(n) /\ Heard(NodeFinished(n))
        <5>1. Sent(NodeFinished(n))
          BY <1>1, <1>2, <4>2 DEF Heard, Sent, LiveInv, TypeOK
        <5>2. Decided(n)
          BY <1>1, <2>1, <5>1 DEF EventsInv
        <5>3. result[n].status \in {"passed", "failed"}
          BY <1>2, <2>4, <4>2, <5>2 DEF Formed, TypeOK, Result
        <5>4. QED
          BY <4>2, <5>3 DEF Shown, Executed
      <4>3. QED
        BY <1>1, <1>2, <1>4, <4>1, <4>2 DEF LiveInv
    <3>2. MayRun(n)
      BY <1>2, <2>1, <3>1 DEF Gated, GateHolds
    <3>3. "dead" \notin edges
      <4>1. \A u \in Upstream(flow, n) : ~Dead(EdgeAt(u))
        BY <3>2 DEF MayRun, DeadInto
      <4>2. \A u \in Upstream(flow, n) : Drawn(EdgeAt(u)) # "dead"
        BY <2>2, <4>1
      <4>3. QED
        BY <4>2
    <3>4. edges = {} \/ {"taken", "idle"} \intersect edges # {}
      <4>1. CASE Upstream(flow, n) = {}
        BY <4>1
      <4>2. CASE LiveInto(n) # {}
        <5>1. PICK u \in Upstream(flow, n) : Live(EdgeAt(u))
          BY <4>2 DEF LiveInto
        <5>2. Drawn(EdgeAt(u)) \in {"taken", "idle"}
          BY <2>2, <5>1
        <5>3. QED
          BY <5>2
      <4>3. QED
        BY <3>2, <4>1, <4>2 DEF MayRun
    <3>5. QED
      BY <3>1, <3>3, <3>4
  <2>5. QED
    BY <2>3, <2>4
<1>5. QED
  BY <1>3, <1>4

(***************************************************************************)
(* What each action adds to the events.                                    *)
(***************************************************************************)
LEMMA MoreEvents ==
  ASSUME TypeOK, EventsInv, phase \in {"running", "sending"}, phase' \in {"running", "sending"},
         UNCHANGED run, NEW n \in Included, ~Decided(n),
         \A u \in Upstream(flow, n) : EdgeAt(u).from \in Included => Decided(EdgeAt(u).from),
         NEW N \in Nat, Len(events') = N, N >= Len(events),
         \A k \in 1..Len(events) : events'[k] = events[k],
         \A k \in (Len(events) + 1)..N : events'[k] \in {NodeStarted(n), NodeFinished(n)},
         \A i, k \in (Len(events) + 1)..N :
           events'[i] = NodeFinished(n) /\ events'[k] = NodeStarted(n) => k < i,
         Decided(n)' <=> \E k \in (Len(events) + 1)..N : events'[k] = NodeFinished(n),
         (\E k \in 1..N : events'[k] = NodeStarted(n)) => Executed(n)',
         \A m \in Included \ {n} : Decided(m)' = Decided(m) /\ (Executed(m) => Executed(m)')
  PROVE  EventsInv'
<1> DEFINE L == Len(events)
<1>1. L \in Nat /\ L >= 1 /\ NoNode \notin NodeId
  <2>1. events \in Seq(FlowEvent) /\ events # <<>>
    BY DEF TypeOK, FlowEvent, EventsInv, Scoped
  <2>2. QED
    BY <2>1, ValuesAssumption, EmptySeq, LenProperties
<1>2. \A k \in 1..N : k \in 1..L \/ k \in (L + 1)..N
  BY <1>1
<1>3. ASSUME NEW k \in 1..L PROVE k \in 1..N
  BY <1>1, <1>3
<1>4. ASSUME NEW m \in Included PROVE Sent(NodeFinished(m)) <=> Decided(m)
  BY DEF EventsInv
<1>5. ASSUME NEW k \in 1..N
      PROVE  \/ k = 1 /\ events'[k] = [event |-> "started", node |-> NoNode]
             \/ /\ k > 1 /\ StepEvent(k)' /\ events'[k].node \in Included
                /\ \A u \in Upstream(flow, events'[k].node) :
                     EdgeAt(u).from \in Included =>
                       \E i \in 1..(k - 1) : events'[i] = NodeFinished(EdgeAt(u).from)
  <2>1. CASE k \in 1..L
    <3>1. \A i \in 1..(k - 1) : events'[i] = events[i]
      BY <1>1, <2>1
    <3>2. events'[k] = events[k]
      BY <2>1
    <3>3. \/ k = 1 /\ events[k] = [event |-> "started", node |-> NoNode]
          \/ /\ k > 1 /\ StepEvent(k) /\ events[k].node \in Included
             /\ \A u \in Upstream(flow, events[k].node) :
                  EdgeAt(u).from \in Included =>
                    \E i \in 1..(k - 1) : events[i] = NodeFinished(EdgeAt(u).from)
      BY <2>1 DEF EventsInv
    <3>4. QED
      BY <3>1, <3>2, <3>3 DEF StepEvent
  <2>2. CASE k \in (L + 1)..N
    <3>1. events'[k] \in {NodeStarted(n), NodeFinished(n)} /\ k > 1
      BY <1>1, <2>2
    <3>2. events'[k].node = n /\ StepEvent(k)'
      BY <3>1, EventShapes DEF StepEvent
    <3>3. ASSUME NEW u \in Upstream(flow, n), EdgeAt(u).from \in Included
          PROVE  \E i \in 1..(k - 1) : events'[i] = NodeFinished(EdgeAt(u).from)
      <4>1. PICK i \in 1..L : events[i] = NodeFinished(EdgeAt(u).from)
        BY <1>4, <3>3 DEF Sent
      <4>2. i \in 1..(k - 1) /\ events'[i] = events[i]
        BY <1>1, <2>2, <4>1
      <4>3. QED
        BY <4>1, <4>2
    <3>4. QED
      BY <3>1, <3>2, <3>3
  <2>3. QED
    BY <1>2, <2>1, <2>2
<1>6. ASSUME NEW m \in Included
      PROVE  /\ (\E k \in 1..N : events'[k] = NodeFinished(m)) <=> Decided(m)'
             /\ (\E k \in 1..N : events'[k] = NodeStarted(m)) => Executed(m)'
             /\ \A i, k \in 1..N :
                  events'[i] = NodeFinished(m) /\ events'[k] = NodeStarted(m) => k < i
  <2>1. CASE m = n
    <3>1. \A k \in 1..L : events'[k] # NodeFinished(n)
      BY <1>4 DEF Sent
    <3>2. ASSUME NEW i \in 1..N, NEW k \in 1..N, events'[i] = NodeFinished(n),
                 events'[k] = NodeStarted(n)
          PROVE  k < i
      <4>1. i \in (L + 1)..N
        BY <1>2, <3>1, <3>2
      <4>2. CASE k \in 1..L
        BY <1>1, <4>1, <4>2
      <4>3. CASE k \in (L + 1)..N
        BY <3>2, <4>1, <4>3
      <4>4. QED
        BY <1>2, <4>2, <4>3
    <3>3. (\E k \in 1..N : events'[k] = NodeFinished(n)) <=> Decided(n)'
      BY <1>1, <1>2, <3>1
    <3>4. QED
      BY <2>1, <3>2, <3>3
  <2>2. CASE m # n
    <3>1. \A k \in (L + 1)..N : events'[k] \notin {NodeStarted(m), NodeFinished(m)}
      BY <2>2, EventShapes
    <3>2. \A k \in 1..N : events'[k] \in {NodeStarted(m), NodeFinished(m)} =>
                            k \in 1..L /\ events'[k] = events[k]
      BY <1>2, <3>1
    <3>3. \A k \in 1..L : k \in 1..N /\ events'[k] = events[k]
      BY <1>3
    <3>4. /\ Sent(NodeStarted(m)) => Executed(m)
          /\ \A i, k \in 1..L :
               events[i] = NodeFinished(m) /\ events[k] = NodeStarted(m) => k < i
      BY DEF EventsInv
    <3>5. QED
      BY <1>4, <2>2, <3>2, <3>3, <3>4 DEF Sent
  <2>3. QED
    BY <2>1, <2>2
<1>7. events' # <<>>
  BY <1>1, EmptySeq
<1>8. Included' = Included /\ flow' = flow
  OBVIOUS
<1>9. QED
  BY <1>5, <1>6, <1>7, <1>8 DEF EventsInv, Sent, Refusable, Scoped

LEMMA OneMore ==
  ASSUME TypeOK, NEW e, events' = Append(events, e)
  PROVE  /\ Len(events) \in Nat /\ Len(events') = Len(events) + 1
         /\ \A k \in 1..Len(events) : events'[k] = events[k]
         /\ events'[Len(events) + 1] = e
<1>1. events \in Seq(FlowEvent \union {e})
  <2>1. events \in Seq(FlowEvent)
    BY DEF TypeOK, FlowEvent
  <2>2. QED
    BY <2>1, SeqMonotonic
<1>2. QED
  BY <1>1, AppendProperties, LenProperties

LEMMA TwoMore ==
  ASSUME TypeOK, NEW d \in FlowEvent, NEW e \in FlowEvent, events' = events \o <<d, e>>
  PROVE  /\ Len(events) \in Nat /\ Len(events') = Len(events) + 2
         /\ \A k \in 1..Len(events) : events'[k] = events[k]
         /\ events'[Len(events) + 1] = d /\ events'[Len(events) + 2] = e
<1>1. events \in Seq(FlowEvent) /\ <<d, e>> \in Seq(FlowEvent) /\ Len(<<d, e>>) = 2
  BY DEF TypeOK, FlowEvent
<1>2. Len(events) \in Nat
  BY <1>1, LenProperties
<1>3. QED
  BY <1>1, <1>2, ConcatProperties

\* The steps that finish as they are taken up.
LEMMA SettleTold ==
  ASSUME IInv, EventsInv, NEW n \in NodeId, SettlesAtOnce(n)
  PROVE  EventsInv'
<1>1. TypeOK /\ OrderInv /\ ProgressInv
  BY DEF IInv
<1>2. /\ n \in Included /\ ~Decided(n) /\ phase = "running" /\ IsNext(n) /\ current = NoNode
      /\ UNCHANGED <<run, phase, current>>
  BY <1>1, StepSettles, StepRuns DEF ProgressInv
<1>3. \A u \in Upstream(flow, n) : EdgeAt(u).from \in Included => Decided(EdgeAt(u).from)
  BY <1>1, <1>2, NextFed DEF Fed
<1>4. PICK r : Settled(n, r)
  BY <1>1, StepSettles
<1>5. /\ result'[n] = r /\ r # Pending /\ r.status # "pending"
      /\ \A m \in NodeId : m # n => result'[m] = result[m]
  BY <1>1, <1>4, DecideOnly DEF Settled
<1>6. Included \subseteq NodeId /\ n # NoNode
  BY <1>1, RunTyped, ValuesAssumption
<1>7. Decided(n)' /\ \A m \in Included \ {n} : Decided(m)' = Decided(m) /\ (Executed(m) => Executed(m)')
  BY <1>2, <1>5, <1>6 DEF Decided, Executed
<1>8. NodeStarted(n) # NodeFinished(n)
  BY EventShapes
<1>9. CASE SkipAfterFailure(n) \/ SkipUntaken(n)
  <2>1. events' = Append(events, NodeFinished(n))
    BY <1>9 DEF SkipAfterFailure, SkipUntaken
  <2>2. /\ Len(events) \in Nat /\ Len(events') = Len(events) + 1
        /\ \A k \in 1..Len(events) : events'[k] = events[k]
        /\ events'[Len(events) + 1] = NodeFinished(n)
    BY <1>1, <2>1, OneMore
  <2>3. \A k \in 1..Len(events) : events[k] # NodeStarted(n)
    BY <1>2, <1>6, PendingShape DEF EventsInv, Sent, Executed, Decided
  <2>4. \A k \in 1..Len(events') : k \in 1..Len(events) \/ k = Len(events) + 1
    BY <2>2
  <2>5. \A k \in 1..Len(events') : events'[k] # NodeStarted(n)
    BY <1>8, <2>2, <2>3, <2>4
  <2>6. PICK N \in Nat : N = Len(events')
    BY <2>2
  <2>7. \A k \in (Len(events) + 1)..N : k = Len(events) + 1
    BY <2>2, <2>6
  <2>8. Len(events) + 1 \in (Len(events) + 1)..N /\ N >= Len(events)
    BY <2>2, <2>6
  <2>9. QED
    BY <1>1, <1>2, <1>3, <1>7, <1>8, <2>2, <2>5, <2>6, <2>7, <2>8, MoreEvents
<1>10. CASE RunLocal(n) \/ FailBeforeSending(n)
  <2>1. events' = events \o <<NodeStarted(n), NodeFinished(n)>>
    BY <1>10 DEF RunLocal, FailBeforeSending
  <2>2. /\ Len(events) \in Nat /\ Len(events') = Len(events) + 2
        /\ \A k \in 1..Len(events) : events'[k] = events[k]
        /\ events'[Len(events) + 1] = NodeStarted(n) /\ events'[Len(events) + 2] = NodeFinished(n)
    BY <1>1, <2>1, NodeEvents, TwoMore
  <2>3. Executed(n)'
    <3>1. CASE RunLocal(n)
      <4>1. PICK s \in LocalOutcomes(Card(flow, n)) : Decide(n, s)
        BY <3>1 DEF RunLocal
      <4>2. Outcome(s)
        BY <1>1, <1>2, <3>1, <4>1, CardTyped, LocalOutcomesShape DEF RunLocal
      <4>3. result'[n] = s
        BY <1>1, <4>1 DEF Decide, TypeOK
      <4>4. QED
        BY <4>2, <4>3 DEF Outcome, Executed
    <3>2. CASE FailBeforeSending(n)
      <4>1. PICK why \in {"undefined", "resolve"} : Decide(n, Failed(why, {}))
        BY <3>2 DEF FailBeforeSending
      <4>2. result'[n] = Failed(why, {})
        BY <1>1, <4>1 DEF Decide, TypeOK
      <4>3. Failed(why, {}).status = "failed"
        BY DEF Failed, Pending
      <4>4. QED
        BY <4>2, <4>3 DEF Executed
    <3>3. QED
      BY <1>10, <3>1, <3>2
  <2>4. PICK N \in Nat : N = Len(events')
    BY <2>2
  <2>5. \A k \in (Len(events) + 1)..N : k \in {Len(events) + 1, Len(events) + 2}
    BY <2>2, <2>4
  <2>6. /\ Len(events) + 1 < Len(events) + 2 /\ N >= Len(events)
        /\ Len(events) + 2 \in (Len(events) + 1)..N
    BY <2>2, <2>4
  <2>7. \A i, k \in (Len(events) + 1)..N :
           events'[i] = NodeFinished(n) /\ events'[k] = NodeStarted(n) => k < i
    <3>1. SUFFICES ASSUME NEW i \in (Len(events) + 1)..N, NEW k \in (Len(events) + 1)..N,
                          events'[i] = NodeFinished(n), events'[k] = NodeStarted(n)
                   PROVE  k < i
      OBVIOUS
    <3>2. i = Len(events) + 2 /\ k = Len(events) + 1
      BY <1>8, <2>2, <2>5, <3>1
    <3>3. QED
      BY <2>6, <3>2
  <2>8. QED
    BY <1>1, <1>2, <1>3, <1>7, <2>2, <2>3, <2>4, <2>5, <2>6, <2>7, MoreEvents
<1>11. QED
  BY <1>9, <1>10 DEF SettlesAtOnce

LEMMA SendTold ==
  ASSUME IInv, EventsInv, NEW n \in NodeId, Send(n)
  PROVE  EventsInv'
<1>1. TypeOK /\ OrderInv /\ ProgressInv
  BY DEF IInv
<1>2. /\ n \in Included /\ ~Decided(n) /\ phase = "running" /\ IsNext(n) /\ current = NoNode
      /\ current' = n /\ phase' = "sending" /\ UNCHANGED <<run, result>>
      /\ events' = Append(events, NodeStarted(n))
  BY <1>1, StepRuns DEF ProgressInv, Send
<1>3. \A u \in Upstream(flow, n) : EdgeAt(u).from \in Included => Decided(EdgeAt(u).from)
  BY <1>1, <1>2, NextFed DEF Fed
<1>4. /\ Len(events) \in Nat /\ Len(events') = Len(events) + 1
      /\ \A k \in 1..Len(events) : events'[k] = events[k]
      /\ events'[Len(events) + 1] = NodeStarted(n)
  BY <1>1, <1>2, OneMore
<1>5. Included \subseteq NodeId /\ NoNode \notin NodeId
  BY <1>1, RunTyped, ValuesAssumption
<1>6. ~Decided(n)' /\ Executed(n)'
  BY <1>2 DEF Decided, Executed
<1>7. \A m \in Included \ {n} : Decided(m)' = Decided(m) /\ (Executed(m) => Executed(m)')
  BY <1>2, <1>5 DEF Decided, Executed
<1>8. NodeStarted(n) # NodeFinished(n)
  BY EventShapes
<1>9. PICK N \in Nat : N = Len(events')
  BY <1>4
<1>10. N >= Len(events) /\ \A k \in (Len(events) + 1)..N : k = Len(events) + 1
  BY <1>4, <1>9
<1>11. QED
  BY <1>1, <1>2, <1>3, <1>4, <1>6, <1>7, <1>8, <1>9, <1>10, MoreEvents

LEMMA AnswerTold ==
  ASSUME IInv, EventsInv, Answer
  PROVE  EventsInv'
<1>1. TypeOK /\ OrderInv /\ ProgressInv /\ StepsFollowWhatFeedsThem
  BY DEF IInv
<1>2. /\ current \in Included /\ ~Decided(current) /\ phase = "sending" /\ phase' = "running"
      /\ current' = NoNode /\ UNCHANGED run
  BY <1>1, AnswerSettles
<1>3. PICK n \in Included : n = current
  BY <1>2
<1>4. Included \subseteq NodeId /\ n # NoNode
  BY <1>1, RunTyped, ValuesAssumption
<1>5. PICK r : Outcome(r) /\ Decide(n, r)
  BY <1>1, <1>3, AnswerSettles
<1>6. /\ result'[n] = r /\ r # Pending /\ r.status \in {"passed", "failed"}
      /\ \A m \in NodeId : m # n => result'[m] = result[m]
  BY <1>1, <1>4, <1>5, DecideOnly DEF Outcome
<1>7. Decided(n)' /\ Executed(n)'
  BY <1>6 DEF Decided, Executed
<1>8. \A m \in Included \ {n} : Decided(m)' = Decided(m) /\ (Executed(m) => Executed(m)')
  BY <1>3, <1>4, <1>6 DEF Decided, Executed
<1>9. \A u \in Upstream(flow, n) : EdgeAt(u).from \in Included => Decided(EdgeAt(u).from)
  BY <1>1, <1>2, <1>3 DEF StepsFollowWhatFeedsThem, Upstream
<1>10. events' = Append(events, NodeFinished(n))
  BY <1>3 DEF Answer
<1>11. /\ Len(events) \in Nat /\ Len(events') = Len(events) + 1
       /\ \A k \in 1..Len(events) : events'[k] = events[k]
       /\ events'[Len(events) + 1] = NodeFinished(n)
  BY <1>1, <1>10, OneMore
<1>12. NodeStarted(n) # NodeFinished(n)
  BY EventShapes
<1>13. PICK N \in Nat : N = Len(events')
  BY <1>11
<1>14. /\ N >= Len(events) /\ Len(events) + 1 \in (Len(events) + 1)..N
       /\ \A k \in (Len(events) + 1)..N : k = Len(events) + 1
  BY <1>11, <1>13
<1>15. QED
  BY <1>1, <1>2, <1>3, <1>7, <1>8, <1>9, <1>11, <1>12, <1>13, <1>14, MoreEvents

\* Before the run starts nothing is told.
LEMMA NothingTold ==
  ASSUME UNCHANGED run, events' = <<>>, ~Scoped', \A n \in Included : ~Decided(n)'
  PROVE  EventsInv'
<1>1. \A k \in 1..Len(events') : FALSE
  BY EmptySeq
<1>2. QED
  BY <1>1 DEF EventsInv, Sent

LEMMA StartTold ==
  ASSUME IInv, EventsInv, Start
  PROVE  EventsInv'
<1>1. phase = "ordering" /\ events = <<>> /\ UNCHANGED <<run, result, current>> /\ current = NoNode
      /\ \A n \in Included : ~Decided(n)
  BY RunTyped DEF Start, Refuse, runVars, EventsInv, IInv, ProgressInv
<1>2. CASE Stuck # {}
  <2>1. phase' = "refused" /\ UNCHANGED events
    BY <1>2 DEF Start, Refuse, runVars
  <2>2. QED
    BY <1>1, <2>1, NothingTold DEF Scoped, Decided
<1>3. CASE Stuck = {}
  <2>1. phase' = "running" /\ events' = <<[event |-> "started", node |-> NoNode]>>
    BY <1>3 DEF Start
  <2>2. \A k \in 1..Len(events') : k = 1
    BY <2>1
  <2>3. events'[1] = [event |-> "started", node |-> NoNode]
    BY <2>1
  <2>4. \A n : events'[1] \notin {NodeStarted(n), NodeFinished(n)}
    BY <2>3, EventShapes
  <2>5. events' # <<>>
    BY <2>1
  <2>6. QED
    BY <1>1, <2>1, <2>2, <2>3, <2>4, <2>5 DEF EventsInv, Sent, Decided, Refusable, Scoped
<1>4. QED
  BY <1>2, <1>3

LEMMA FinishTold ==
  ASSUME IInv, EventsInv, Finish
  PROVE  EventsInv'
<1> DEFINE L == Len(events)
<1>1. /\ phase = "running" /\ phase' = "finished" /\ UNCHANGED <<run, result, current>>
      /\ events' = Append(events, [event |-> "finished", node |-> NoNode])
  BY DEF Finish
<1>2. /\ L \in Nat /\ Len(events') = L + 1
      /\ \A k \in 1..L : events'[k] = events[k]
      /\ events'[L + 1] = [event |-> "finished", node |-> NoNode]
  BY <1>1, OneMore DEF IInv
<1>3. L >= 1
  <2>1. events # <<>> /\ events \in Seq(FlowEvent)
    BY <1>1 DEF EventsInv, Scoped, IInv, TypeOK, FlowEvent
  <2>2. QED
    BY <2>1, EmptySeq, LenProperties
<1>4. \A k \in 1..Len(events') : k \in 1..L \/ k = L + 1
  BY <1>2
<1>5. \A n : /\ events'[L + 1] \notin {NodeStarted(n), NodeFinished(n)}
  BY <1>2, EventShapes
<1>6. \A k \in 1..L : k \in 1..Len(events')
  BY <1>2
<1>7. ASSUME NEW k \in 1..Len(events')
      PROVE  \/ k = 1 /\ events'[k] = [event |-> "started", node |-> NoNode]
             \/ /\ k = Len(events') /\ k > 1 /\ phase' = "finished"
                /\ events'[k] = [event |-> "finished", node |-> NoNode]
             \/ /\ k > 1 /\ StepEvent(k)' /\ events'[k].node \in Included
                /\ \A u \in Upstream(flow, events'[k].node) :
                     EdgeAt(u).from \in Included =>
                       \E i \in 1..(k - 1) : events'[i] = NodeFinished(EdgeAt(u).from)
  <2>1. CASE k = L + 1
    BY <1>1, <1>2, <1>3, <2>1
  <2>2. CASE k \in 1..L
    <3>1. \A i \in 1..(k - 1) : events'[i] = events[i]
      BY <1>2, <2>2
    <3>2. events'[k] = events[k]
      BY <1>2, <2>2
    <3>3. \/ k = 1 /\ events[k] = [event |-> "started", node |-> NoNode]
          \/ /\ k > 1 /\ StepEvent(k) /\ events[k].node \in Included
             /\ \A u \in Upstream(flow, events[k].node) :
                  EdgeAt(u).from \in Included =>
                    \E i \in 1..(k - 1) : events[i] = NodeFinished(EdgeAt(u).from)
      BY <1>1, <2>2 DEF EventsInv
    <3>4. QED
      BY <3>1, <3>2, <3>3 DEF StepEvent
  <2>3. QED
    BY <1>4, <2>1, <2>2
<1>8. ASSUME NEW n \in Included
      PROVE  /\ (\E k \in 1..Len(events') : events'[k] = NodeFinished(n)) <=> Decided(n)'
             /\ (\E k \in 1..Len(events') : events'[k] = NodeStarted(n)) => Executed(n)'
             /\ \A i, k \in 1..Len(events') :
                  events'[i] = NodeFinished(n) /\ events'[k] = NodeStarted(n) => k < i
  <2>1. \A k \in 1..Len(events') : events'[k] \in {NodeStarted(n), NodeFinished(n)} =>
                                     k \in 1..L /\ events'[k] = events[k]
    BY <1>2, <1>4, <1>5
  <2>2. \A k \in 1..L : k \in 1..Len(events') /\ events'[k] = events[k]
    BY <1>2, <1>6
  <2>3. /\ Sent(NodeFinished(n)) <=> Decided(n)
        /\ Sent(NodeStarted(n)) => Executed(n)
        /\ \A i, k \in 1..L :
             events[i] = NodeFinished(n) /\ events[k] = NodeStarted(n) => k < i
    BY DEF EventsInv
  <2>4. Decided(n)' = Decided(n) /\ Executed(n)' = Executed(n)
    BY <1>1 DEF Decided, Executed
  <2>5. QED
    BY <2>1, <2>2, <2>3, <2>4 DEF Sent
<1>9. events' # <<>>
  BY <1>2, <1>3, EmptySeq
<1>10. QED
  BY <1>1, <1>7, <1>8, <1>9 DEF EventsInv, Sent, Refusable, Scoped

LEMMA ProgressTold ==
  ASSUME IInv, EventsInv, Progress
  PROVE  EventsInv'
<1>1. CASE Validate \/ \E n \in NodeId : PlaceNext(n)
  <2>1. /\ UNCHANGED <<run, result, events>> /\ phase' \in {"refused", "ordering"}
        /\ phase \in {"new", "ordering"}
    BY <1>1 DEF Validate, PlaceNext, Refuse, runVars
  <2>2. \A n \in Included : ~Decided(n)
    BY <2>1, RunTyped DEF IInv, ProgressInv, Refusable
  <2>3. QED
    BY <2>1, <2>2, NothingTold DEF EventsInv, Refusable, Scoped, Decided
<1>2. CASE \E n \in NodeId : Step(n)
  BY <1>2, SettleTold, SendTold DEF Step, SettlesAtOnce
<1>3. QED
  BY <1>1, <1>2, StartTold, FinishTold, AnswerTold DEF Progress

\* A step adds to the events, and what is decided stays.
LEMMA ProgressExtends ==
  ASSUME IInv, EventsInv, Progress
  PROVE  /\ UNCHANGED run
         /\ Len(events) \in Nat /\ Len(events') \in Nat /\ Len(events) <= Len(events')
         /\ \A k \in 1..Len(events) : events'[k] = events[k]
         /\ \A n \in NodeId : Decided(n) => result'[n] = result[n]
<1>1. TypeOK /\ OrderInv /\ ProgressInv
  BY DEF IInv
<1>2. Len(events) \in Nat
  BY <1>1, LenProperties DEF TypeOK
<1>3. CASE Validate \/ \E n \in NodeId : PlaceNext(n)
  BY <1>2, <1>3 DEF Validate, PlaceNext, Refuse, runVars
<1>4. CASE Start
  <2>1. UNCHANGED <<run, result>> /\ events = <<>> /\ Len(events') \in Nat
    BY <1>2, <1>4 DEF Start, Refuse, runVars, EventsInv
  <2>2. QED
    BY <2>1, EmptySeq
<1>5. CASE Finish
  BY <1>1, <1>5, OneMore DEF Finish
<1>6. CASE Answer
  <2>1. UNCHANGED run /\ current \in Included /\ ~Decided(current)
    BY <1>1, <1>6, AnswerSettles
  <2>2. PICK n \in Included : n = current
    BY <2>1
  <2>3. PICK r : Outcome(r) /\ Decide(n, r)
    BY <1>1, <1>6, <2>2, AnswerSettles
  <2>4. \A m \in NodeId : m # n => result'[m] = result[m]
    BY <1>1, <2>3, RunTyped, DecideOnly DEF Outcome
  <2>5. QED
    BY <1>1, <1>6, <2>1, <2>2, <2>4, OneMore DEF Answer
<1>7. CASE \E n \in NodeId : SettlesAtOnce(n)
  <2>1. PICK n \in NodeId : SettlesAtOnce(n)
    BY <1>7
  <2>2. UNCHANGED run /\ ~Decided(n)
    BY <1>1, <2>1, StepSettles, StepRuns
  <2>3. PICK r : Settled(n, r)
    BY <1>1, <2>1, StepSettles
  <2>4. \A m \in NodeId : m # n => result'[m] = result[m]
    BY <1>1, <2>3, DecideOnly DEF Settled
  <2>5. \/ events' = Append(events, NodeFinished(n))
        \/ events' = events \o <<NodeStarted(n), NodeFinished(n)>>
    BY <2>1 DEF SettlesAtOnce, SkipAfterFailure, SkipUntaken, RunLocal, FailBeforeSending
  <2>6. Len(events') \in Nat /\ Len(events) <= Len(events')
        /\ \A k \in 1..Len(events) : events'[k] = events[k]
    BY <1>1, <2>5, OneMore, TwoMore, NodeEvents
  <2>7. QED
    BY <1>2, <2>2, <2>4, <2>6
<1>8. CASE \E n \in NodeId : Send(n)
  <2>1. PICK n \in NodeId : Send(n)
    BY <1>8
  <2>2. UNCHANGED <<run, result>> /\ events' = Append(events, NodeStarted(n))
    BY <2>1 DEF Send
  <2>3. QED
    BY <1>1, <2>2, OneMore
<1>9. QED
  BY <1>3, <1>4, <1>5, <1>6, <1>7, <1>8 DEF Progress, Step, SettlesAtOnce

-----------------------------------------------------------------------------

(***************************************************************************)
(* What the tab hears.                                                     *)
(***************************************************************************)
\* A step of the run changes nothing the tab has heard of.
LEMMA RunnerLive ==
  ASSUME IInv, EventsInv, LiveInv, Progress, UNCHANGED tabVars
  PROVE  LiveInv'
<1>1. /\ UNCHANGED <<run, told, live>>
      /\ Len(events) \in Nat /\ Len(events') \in Nat /\ Len(events) <= Len(events')
      /\ \A k \in 1..Len(events) : events'[k] = events[k]
      /\ \A n \in NodeId : Decided(n) => result'[n] = result[n]
  BY ProgressExtends DEF tabVars
<1>2. told \in 0..Len(events)
  BY DEF LiveInv
<1>3. \A k \in 1..told : k \in 1..Len(events)
  BY <1>1, <1>2
<1>4. \A e : Heard(e)' <=> Heard(e)
  BY <1>1, <1>3 DEF Heard
<1>5. ASSUME NEW n \in NodeId
      PROVE  /\ Heard(NodeFinished(n))' => live'[n] = Shown(n)'
             /\ \/ live'[n] \in {Idle, Waiting}
                \/ live'[n] = Busy /\ Heard(NodeStarted(n))' /\ n \in Included
                \/ live'[n] = Shown(n)' /\ Heard(NodeFinished(n))' /\ n \in Included
  <2>1. /\ Heard(NodeFinished(n)) => live[n] = Shown(n)
        /\ \/ live[n] \in {Idle, Waiting}
           \/ live[n] = Busy /\ Heard(NodeStarted(n)) /\ n \in Included
           \/ live[n] = Shown(n) /\ Heard(NodeFinished(n)) /\ n \in Included
    BY DEF LiveInv
  <2>2. /\ Heard(NodeFinished(n))' <=> Heard(NodeFinished(n))
        /\ Heard(NodeStarted(n))' <=> Heard(NodeStarted(n))
    <3>1. NodeFinished(n)' = NodeFinished(n) /\ NodeStarted(n)' = NodeStarted(n)
      BY DEF NodeFinished, NodeStarted
    <3>2. QED
      BY <1>1, <1>3 DEF Heard
  <2>3. Heard(NodeFinished(n)) => Shown(n)' = Shown(n)
    <3>1. SUFFICES ASSUME Heard(NodeFinished(n)) PROVE Shown(n)' = Shown(n)
      OBVIOUS
    <3>2. PICK k \in 1..Len(events) : events[k] = NodeFinished(n)
      BY <1>3, <3>1 DEF Heard
    <3>3. events[k].node \in Included
      BY <3>2, EventShapes DEF EventsInv
    <3>4. n \in Included
      BY <3>2, <3>3, EventShapes
    <3>5. Decided(n)
      BY <3>2, <3>4 DEF EventsInv, Sent
    <3>6. QED
      BY <1>1, <3>5 DEF Shown
  <2>4. QED
    BY <1>1, <2>1, <2>2, <2>3
<1>6. told' \in 0..Len(events') /\ live' = [n \in NodeId |-> live'[n]]
  BY <1>1, <1>2 DEF LiveInv
<1>7. QED
  BY <1>1, <1>5, <1>6 DEF LiveInv, Idle, Waiting, Busy, Heard

\* What has been heard after one more event.
LEMMA HeardOneMore ==
  ASSUME told \in Nat, told' = told + 1, UNCHANGED events, NEW e
  PROVE  (\E i \in 1..told' : events'[i] = e) <=> Heard(e) \/ events[told + 1] = e
<1>1. \A i \in 1..told' : i \in 1..told \/ i = told + 1
  OBVIOUS
<1>2. told + 1 \in 1..told' /\ \A i \in 1..told : i \in 1..told'
  OBVIOUS
<1>3. QED
  BY <1>1, <1>2 DEF Heard

\* An event is news of the step it names alone; the last is news of every step.
LEMMA DeliverLive ==
  ASSUME WhyInv, EventsInv, LiveInv, Deliver
  PROVE  LiveInv'
<1>1. /\ told' = told + 1 /\ Apply(events[told + 1]) /\ UNCHANGED <<run, events, result>>
      /\ told < Len(events)
  BY DEF Deliver, vars, runVars
<1>2. /\ TypeOK /\ Formed /\ Len(events) \in Nat /\ told \in Nat
      /\ told + 1 \in 1..Len(events) /\ told' \in 0..Len(events)
      /\ Included \subseteq NodeId
  <2>1. TypeOK /\ Formed
    BY DEF WhyInv, IInv
  <2>2. Len(events) \in Nat
    BY <2>1, LenProperties DEF TypeOK
  <2>3. QED
    BY <1>1, <2>1, <2>2, RunTyped DEF LiveInv
<1> DEFINE ev  == events[told + 1]
           H(e) == \E i \in 1..told' : events'[i] = e
<1>3. \A e : H(e) <=> Heard(e) \/ ev = e
  BY <1>1, <1>2, HeardOneMore
<1>4. live = [n \in NodeId |-> live[n]]
  BY DEF LiveInv
<1>5. SUFFICES /\ live' = [n \in NodeId |-> live'[n]]
               /\ \A n \in NodeId :
                    /\ H(NodeFinished(n)) => live'[n] = Shown(n)
                    /\ \/ live'[n] \in {Idle, Waiting}
                       \/ live'[n] = Busy /\ H(NodeStarted(n)) /\ n \in Included
                       \/ live'[n] = Shown(n) /\ H(NodeFinished(n)) /\ n \in Included
  BY <1>1, <1>2 DEF LiveInv, Heard, Shown, Idle, Waiting, Busy, NodeFinished, NodeStarted
<1> HIDE DEF H
<1>6. CASE told = 0 /\ ev = [event |-> "started", node |-> NoNode]
  <2>1. live' = [n \in NodeId |-> IF n \in Included THEN Waiting ELSE Idle]
    <3>1. ev.event = "started"
      BY <1>6
    <3>2. QED
      BY <1>1, <3>1, Zenon DEF Apply
  <2>2. \A e : ~Heard(e)
    BY <1>6 DEF Heard
  <2>3. \A n : ~H(NodeFinished(n))
    BY <1>3, <1>6, <2>2, EventShapes
  <2>4. QED
    BY <2>1, <2>3
<1>7. CASE told + 1 = Len(events) /\ phase = "finished" /\ ev = [event |-> "finished", node |-> NoNode]
  <2>1. live' = [n \in NodeId |-> IF n \in Included THEN Shown(n) ELSE Idle]
    <3>1. ev.event = "finished"
      BY <1>7
    <3>2. QED
      BY <1>1, <3>1, Zenon DEF Apply
  <2>2. ASSUME NEW n \in Included PROVE H(NodeFinished(n))
    <3>1. Decided(n)
      BY <1>2, <1>7 DEF Formed, Left, Decided
    <3>2. PICK i \in 1..Len(events) : events[i] = NodeFinished(n)
      BY <3>1 DEF EventsInv, Sent
    <3>3. QED
      BY <1>1, <1>7, <3>2 DEF H
  <2>3. ASSUME NEW n \in NodeId, H(NodeFinished(n)) PROVE n \in Included
    <3>1. PICK i \in 1..told' : events'[i] = NodeFinished(n)
      BY <2>3 DEF H
    <3>2. i \in 1..Len(events) /\ events[i] = NodeFinished(n)
      BY <1>1, <1>7, <3>1
    <3>3. events[i].node \in Included
      BY <3>2, EventShapes DEF EventsInv
    <3>4. QED
      BY <3>2, <3>3, EventShapes
  <2>4. QED
    BY <2>1, <2>2, <2>3
<1>8. CASE StepEvent(told + 1) /\ ev.node \in Included
  <2>1. PICK m \in Included : m = ev.node
    BY <1>8
  <2>2. \A n \in NodeId \ {m} :
          /\ H(NodeFinished(n)) <=> Heard(NodeFinished(n))
          /\ H(NodeStarted(n)) <=> Heard(NodeStarted(n))
    BY <1>3, <1>8, <2>1, EventShapes DEF StepEvent
  <2>3. \A n \in NodeId :
         /\ Heard(NodeFinished(n)) => live[n] = Shown(n)
         /\ \/ live[n] \in {Idle, Waiting}
            \/ live[n] = Busy /\ Heard(NodeStarted(n)) /\ n \in Included
            \/ live[n] = Shown(n) /\ Heard(NodeFinished(n)) /\ n \in Included
    BY DEF LiveInv
  <2>4. CASE ev = NodeFinished(m)
    <3>1. live' = [live EXCEPT ![m] = Shown(m)]
      <4>1. ev.event = "node_finished" /\ ev.node = m
        BY <2>4, EventShapes
      <4>2. live' = [live EXCEPT ![ev.node] = Shown(ev.node)]
        BY <1>1, <4>1, Zenon DEF Apply
      <4>3. QED
        BY <4>1, <4>2
    <3>2. live' = [n \in NodeId |-> IF n = m THEN Shown(m) ELSE live[n]]
      BY <1>4, <3>1
    <3>3. H(NodeFinished(m))
      BY <1>3, <2>4
    <3>4. QED
      BY <2>2, <2>3, <3>2, <3>3
  <2>5. CASE ev = NodeStarted(m)
    <3>1. live' = [live EXCEPT ![m] = Busy]
      <4>1. ev.event = "node_started" /\ ev.node = m
        BY <2>5, EventShapes
      <4>2. live' = [live EXCEPT ![ev.node] = Busy]
        BY <1>1, <4>1, Zenon DEF Apply
      <4>3. QED
        BY <4>1, <4>2
    <3>2. live' = [n \in NodeId |-> IF n = m THEN Busy ELSE live[n]]
      BY <1>4, <3>1
    <3>3. H(NodeStarted(m))
      BY <1>3, <2>5
    <3>4. ~H(NodeFinished(m))
      <4>1. SUFFICES ASSUME H(NodeFinished(m)) PROVE FALSE
        OBVIOUS
      <4>2. PICK i \in 1..told' : events[i] = NodeFinished(m)
        BY <1>1, <4>1 DEF H
      <4>3. i \in 1..Len(events) /\ ~(told + 1 < i)
        BY <1>1, <1>2, <4>2
      <4>4. told + 1 < i
        BY <1>2, <2>5, <4>2, <4>3 DEF EventsInv
      <4>5. QED
        BY <4>3, <4>4
    <3>5. QED
      BY <2>2, <2>3, <3>2, <3>3, <3>4
  <2>6. QED
    BY <1>8, <2>1, <2>4, <2>5 DEF StepEvent
<1>9. QED
  BY <1>2, <1>6, <1>7, <1>8 DEF EventsInv

(***************************************************************************)
(* Which names a step had.                                                 *)
(***************************************************************************)
\* A card has every name it reads, in turn.
Enough(node, known) ==
  /\ node.reads \subseteq known
  /\ \A k \in Declared(node) : node.pairs[k].reads \subseteq known \union DefinedBy(node, k - 1)

\* What a step is at least given: it is what a run of the step alone is given.
Given == Environment \union run.seed

\* The outcome of a card that got past everything it reads.
SawItsNames(node, r) ==
  /\ r.status \in {"passed", "failed"} /\ r.why # "undefined"
  /\ r.why = "resolve" => node.kind # "variables"

NamesInv ==
  /\ current # NoNode => Card(flow, current).reads \subseteq Defined
  /\ \A n \in Included : SawItsNames(Card(flow, n), result[n]) => Enough(Card(flow, n), Defined)
  /\ \A n \in NodeId : result[n].why = "undefined" => ~Enough(Card(flow, n), Given)

LEMMA MoreIsEnough ==
  ASSUME NEW node, NEW S, NEW T, S \subseteq T, Enough(node, S)
  PROVE  Enough(node, T)
BY DEF Enough

LEMMA LocalKnows ==
  ASSUME NEW node \in Node, node.kind # "request", NEW r \in LocalOutcomes(node),
         SawItsNames(node, r)
  PROVE  Enough(node, Defined)
<1>1. CASE node.kind \in {"condition", "display"}
  <2>1. PICK passes \in SUBSET {Passed("true", {}), Passed("false", {}), Passed("none", {})} :
          r \in TextOutcomes(node, passes)
    BY <1>1, Zenon DEF LocalOutcomes
  <2>2. node.reads \subseteq Defined
    <3>1. SUFFICES ASSUME node.reads \ Defined # {} PROVE FALSE
      OBVIOUS
    <3>2. r = Failed("undefined", {})
      BY <2>1, <3>1 DEF TextOutcomes
    <3>3. r.why = "undefined"
      BY <3>2 DEF Failed, Pending
    <3>4. QED
      BY <3>3 DEF SawItsNames
  <2>3. Declared(node) = {}
    BY <1>1, CardShape, EmptySeq DEF Declared
  <2>4. QED
    BY <2>2, <2>3 DEF Enough
<1>2. CASE node.kind = "variables"
  <2>1. r \in DeclarationOutcomes(node)
    BY <1>2, Zenon DEF LocalOutcomes
  <2>2. Complied(node, r)
    BY <1>2, DeclarationSays
  <2>3. r.status = "passed"
    <3>1. \A names : /\ Failed("undefined", names).why = "undefined"
                     /\ Failed("resolve", names).why = "resolve"
      BY DEF Failed, Pending
    <3>2. r = Passed("none", Defines(node))
      BY <1>2, <2>1, <3>1 DEF DeclarationOutcomes, SawItsNames
    <3>3. QED
      BY <3>2 DEF Passed, Pending
  <2>4. QED
    BY <2>2, <2>3 DEF Complied, Enough, PairUndefined
<1>3. QED
  BY <1>1, <1>2, CardShape DEF Kinds

\* A request's extractions read nothing.
LEMMA RequestKnows ==
  ASSUME NEW node \in Node, node.kind = "request", node.reads \subseteq Defined
  PROVE  Enough(node, Defined)
BY CardShape DEF Enough

LEMMA StepKnows ==
  ASSUME TypeOK, NEW n \in NodeId, SettlesAtOnce(n)
  PROVE  \E r : /\ Decide(n, r) /\ r.status # "pending" /\ Lacking(Card(flow, n), r)
                /\ SawItsNames(Card(flow, n), r) => Enough(Card(flow, n), Defined)
<1>1. IsNext(n) /\ n \in Nodes /\ Card(flow, n) \in Node
  BY StepSettles, StepRuns, CardTyped
<1>2. PICK r : Decide(n, r) /\ r.status # "pending" /\ Lacking(Card(flow, n), r)
  BY StepSays
<1>3. result'[n] = r
  BY <1>2 DEF Decide, TypeOK
<1>4. ASSUME SawItsNames(Card(flow, n), r)
      PROVE  Enough(Card(flow, n), Defined)
  <2>1. MayRun(n)
    <3>1. PICK s : Settled(n, s) /\ (s.status \in {"passed", "failed"} => MayRun(n))
      BY StepFits
    <3>2. s = r
      BY <1>3, <3>1 DEF Settled, Decide, TypeOK
    <3>3. QED
      BY <1>4, <3>1, <3>2 DEF SawItsNames
  <2>2. RunLocal(n) \/ FailBeforeSending(n)
    BY <2>1 DEF SettlesAtOnce, SkipAfterFailure, SkipUntaken, MayRun
  <2>3. CASE RunLocal(n)
    <3>1. PICK s \in LocalOutcomes(Card(flow, n)) : Decide(n, s)
      BY <2>3 DEF RunLocal
    <3>2. s = r
      BY <1>3, <3>1 DEF Decide, TypeOK
    <3>3. Card(flow, n).kind # "request"
      BY <2>3 DEF RunLocal
    <3>4. QED
      BY <1>1, <1>4, <3>1, <3>2, <3>3, LocalKnows
  <2>4. CASE FailBeforeSending(n)
    <3>1. PICK why \in {"undefined", "resolve"} :
                 /\ why = "undefined" <=> Card(flow, n).reads \ Defined # {}
                 /\ Decide(n, Failed(why, {}))
      BY <2>4 DEF FailBeforeSending
    <3>2. r = Failed(why, {})
      BY <1>3, <3>1 DEF Decide, TypeOK
    <3>3. r.why = why
      BY <3>2 DEF Failed, Pending
    <3>4. Card(flow, n).reads \subseteq Defined
      BY <1>4, <3>1, <3>3 DEF SawItsNames
    <3>5. QED
      BY <1>1, <2>4, <3>4, RequestKnows DEF FailBeforeSending
  <2>5. QED
    BY <2>2, <2>3, <2>4
<1>5. QED
  BY <1>2, <1>4

\* The names in scope only grow.
LEMMA DecideDefines ==
  ASSUME NEW n \in NodeId, NEW r, Decide(n, r)
  PROVE  Defined \subseteq Defined'
BY ValuesAssumption DEF Decide, Defined

LEMMA DecideNames ==
  ASSUME TypeOK, NamesInv, UNCHANGED run, NEW n \in Included, ~Decided(n),
         NEW r, Decide(n, r), r.status # "pending", current' = NoNode,
         Given \subseteq Defined, Lacking(Card(flow, n), r),
         SawItsNames(Card(flow, n), r) => Enough(Card(flow, n), Defined)
  PROVE  NamesInv'
<1>1. Included \subseteq NodeId /\ n \in NodeId
  BY RunTyped
<1>2. /\ result'[n] = r
      /\ \A m \in NodeId : m # n => result'[m] = result[m]
  BY <1>1, DecideOnly
<1>3. Defined \subseteq Defined'
  BY <1>1, DecideDefines
<1>4. ASSUME NEW m \in Included, SawItsNames(Card(flow, m), result'[m])
      PROVE  Enough(Card(flow, m), Defined')
  <2>1. Enough(Card(flow, m), Defined)
    BY <1>1, <1>2, <1>4 DEF NamesInv
  <2>2. QED
    BY <1>3, <2>1 DEF Enough
<1>5. ASSUME NEW m \in NodeId, result'[m].why = "undefined"
      PROVE  ~Enough(Card(flow, m), Given)
  <2>1. CASE m = n
    BY <1>2, <1>5, <2>1 DEF Lacking, Enough
  <2>2. CASE m # n
    BY <1>2, <1>5, <2>2 DEF NamesInv
  <2>3. QED
    BY <2>1, <2>2
<1>6. flow' = flow /\ Included' = Included /\ Given' = Given
  BY DEF Given
<1>7. QED
  BY <1>4, <1>5, <1>6 DEF NamesInv, Enough, SawItsNames

LEMMA GivenIsDefined ==
  ASSUME TypeOK, ScopeIsWhatPassed, Scoped
  PROVE  Given \subseteq Defined
BY RunTyped DEF ScopeIsWhatPassed, Scoped, Given, Defined

\* Before a step has been taken up there is nothing to know.
LEMMA NoNames ==
  ASSUME TypeOK, current = NoNode, \A n \in NodeId : ~Decided(n)
  PROVE  NamesInv
<1>1. Included \subseteq NodeId
  BY RunTyped
<1>2. QED
  BY <1>1, PendingShape DEF NamesInv, SawItsNames, Decided

LEMMA QuietNames ==
  ASSUME NamesInv, UNCHANGED <<run, result, variables, current>>
  PROVE  NamesInv'
BY DEF NamesInv, Defined, Given, Enough, SawItsNames

LEMMA ProgressNames ==
  ASSUME IInv, IInv', Formed, ScopeIsWhatPassed, NamesInv, Progress
  PROVE  NamesInv'
<1>1. TypeOK /\ OrderInv /\ ProgressInv /\ ProgressInv' /\ TypeOK'
  BY DEF IInv
<1>2. CASE Validate \/ \E n \in NodeId : PlaceNext(n)
  BY <1>2, QuietNames DEF Validate, PlaceNext, Refuse, runVars
<1>3. CASE Start
  <2>1. current' = NoNode /\ \A n \in NodeId : ~Decided(n)'
    <3>1. UNCHANGED <<result, current>> /\ phase = "ordering"
      BY <1>3 DEF Start, Refuse, runVars
    <3>2. QED
      BY <1>1, <3>1 DEF ProgressInv, Decided
  <2>2. (TypeOK /\ current = NoNode /\ (\A n \in NodeId : ~Decided(n)) => NamesInv)'
    BY NoNames, PTL
  <2>3. QED
    BY <1>1, <2>1, <2>2
<1>4. CASE Finish
  BY <1>4, QuietNames DEF Finish
<1>5. CASE \E n \in NodeId : Send(n)
  <2>1. PICK n \in NodeId : Send(n)
    BY <1>5
  <2>2. /\ UNCHANGED <<run, result, variables>> /\ current' = n
        /\ Card(flow, n).reads \subseteq Defined
    BY <2>1 DEF Send
  <2>3. QED
    BY <2>2 DEF NamesInv, Defined, Given, Enough, SawItsNames
<1>6. CASE \E n \in NodeId : SettlesAtOnce(n)
  <2>1. PICK n \in NodeId : SettlesAtOnce(n)
    BY <1>6
  <2>2. /\ n \in Included /\ ~Decided(n) /\ phase = "running" /\ current = NoNode
        /\ UNCHANGED <<run, current>>
    BY <1>1, <2>1, StepSettles, StepRuns DEF ProgressInv
  <2>3. PICK r : /\ Decide(n, r) /\ r.status # "pending" /\ Lacking(Card(flow, n), r)
                 /\ SawItsNames(Card(flow, n), r) => Enough(Card(flow, n), Defined)
    BY <1>1, <2>1, StepKnows
  <2>4. Given \subseteq Defined
    BY <1>1, <2>2, GivenIsDefined DEF Scoped
  <2>5. QED
    BY <1>1, <2>2, <2>3, <2>4, DecideNames
<1>7. CASE Answer
  <2>1. /\ current \in Included /\ ~Decided(current) /\ phase = "sending"
        /\ current' = NoNode /\ UNCHANGED run
    BY <1>1, <1>7, AnswerSettles
  <2>2. PICK n \in Included : n = current
    BY <2>1
  <2>3. n \in Nodes /\ n # NoNode /\ Card(flow, n) \in Node /\ Card(flow, n).kind = "request"
    BY <1>1, <2>1, <2>2, RunTyped, CardTyped, ValuesAssumption DEF Formed
  <2>4. PICK r \in {Failed("transport", {})} \union AnswerOutcomes(Card(flow, n)) : Decide(n, r)
    BY <1>7, <2>2 DEF Answer
  <2>5. r.status # "pending" /\ r.why # "undefined"
    BY <2>3, <2>4, AnswerSays, AnswerOutcomesShape DEF Outcome
  <2>6. Enough(Card(flow, n), Defined)
    BY <2>2, <2>3, RequestKnows DEF NamesInv
  <2>7. Given \subseteq Defined
    BY <1>1, <2>1, GivenIsDefined DEF Scoped
  <2>8. QED
    BY <1>1, <2>1, <2>2, <2>4, <2>5, <2>6, <2>7, DecideNames DEF Lacking
<1>8. QED
  BY <1>2, <1>3, <1>4, <1>5, <1>6, <1>7 DEF Progress, Step, SettlesAtOnce

(***************************************************************************)
(* What runs again.                                                        *)
(***************************************************************************)
\* The names a run of a step alone is given besides the environment's.
Carried == IF running THEN run.seed ELSE lastRun

\* The cards that had their names are cards of a document that can run, and what
\* the tab carries is enough for them.
FitInv ==
  /\ fit \subseteq Nodes /\ lastRun \subseteq Name
  /\ fit # {} => StructureError(flow) = "none" /\ Cyclic = {}
  /\ \A n \in fit : Enough(Card(flow, n), Environment \union Carried)
  /\ ~running /\ phase = "finished" => lastRun = Variables

SessionInv ==
  /\ WhyInv /\ ScopeIsWhatPassed /\ RefusalInv /\ NamesInv
  /\ EventsInv /\ LiveInv
  /\ FitInv /\ RerunsFindTheirVariables

\* A run that is asked for again starts from nothing.
LEMMA FreshSession ==
  ASSUME Fresh
  PROVE  WhyInv /\ ScopeIsWhatPassed /\ RefusalInv /\ NamesInv /\ EventsInv
<1>1. WhyInv
  BY FreshWhy
<1>2. TypeOK
  BY <1>1 DEF WhyInv, IInv
<1>3. /\ phase = "new" /\ verdict = "none" /\ current = NoNode /\ events = <<>>
      /\ \A n \in NodeId : result[n] = Pending
  BY DEF Fresh
<1>4. Included \subseteq NodeId
  BY <1>2, RunTyped
<1>5. ScopeIsWhatPassed /\ RefusalInv
  BY <1>3 DEF ScopeIsWhatPassed, RefusalInv
<1>6. NamesInv
  <2>1. \A n \in NodeId : ~Decided(n)
    BY <1>3 DEF Decided
  <2>2. QED
    BY <1>2, <1>3, <2>1, NoNames
<1>7. \A k \in 1..Len(events) : FALSE
  BY <1>3, EmptySeq
<1>8. EventsInv
  BY <1>3, <1>4, <1>7 DEF EventsInv, Sent, Decided, Scoped
<1>9. QED
  BY <1>1, <1>5, <1>6, <1>8

AllIdle == live = [n \in NodeId |-> Idle]

LEMMA NothingHeard ==
  ASSUME TypeOK, told = 0, AllIdle
  PROVE  LiveInv
<1>1. Len(events) \in Nat
  BY LenProperties DEF TypeOK
<1>2. \A e : ~Heard(e)
  BY DEF Heard
<1>3. QED
  BY <1>1, <1>2 DEF LiveInv, AllIdle

LEMMA PressRunFresh ==
  ASSUME TypeOK, FitInv, NEW s, NEW n, PressRun(s, n)
  PROVE  Fresh'
<1>1. RunScope(flow, s, n) \subseteq NodeId
  <2>1. Ids(flow) \subseteq NodeId
    BY RunTyped
  <2>2. QED
    BY <2>1 DEF RunScope, Component
<1>2. run' \in RunAsked
  <2>1. run \in RunAsked
    BY DEF TypeOK
  <2>2. (IF s = "step" THEN lastRun ELSE {}) \subseteq Name
    BY DEF FitInv
  <2>3. run' = [run EXCEPT !.only = RunScope(flow, s, n),
                           !.seed = IF s = "step" THEN lastRun ELSE {}]
    BY DEF PressRun
  <2>4. QED
    BY <1>1, <2>1, <2>2, <2>3 DEF RunAsked
<1>3. QED
  BY <1>2 DEF PressRun, Fresh

LEMMA PressRunSession ==
  ASSUME SessionInv, NEW s, NEW n, PressRun(s, n)
  PROVE  SessionInv'
<1>1. TypeOK /\ FitInv
  BY DEF SessionInv, WhyInv, IInv
<1>2. Fresh'
  BY <1>1, PressRunFresh
<1>3. (WhyInv /\ ScopeIsWhatPassed /\ RefusalInv /\ NamesInv /\ EventsInv)'
  <2>1. (Fresh => WhyInv /\ ScopeIsWhatPassed /\ RefusalInv /\ NamesInv /\ EventsInv)'
    BY FreshSession, PTL
  <2>2. QED
    BY <1>2, <2>1
<1>4. LiveInv'
  <2>1. TypeOK'
    BY <1>3 DEF WhyInv, IInv
  <2>2. told' = 0 /\ AllIdle'
    BY DEF PressRun, AllIdle, Idle, Pending
  <2>3. (TypeOK /\ told = 0 /\ AllIdle => LiveInv)'
    BY NothingHeard, PTL
  <2>4. QED
    BY <2>1, <2>2, <2>3
<1>5. /\ flow' = flow /\ run'.seed = IF s = "step" THEN lastRun ELSE {}
  <2>1. run \in RunAsked
    BY <1>1 DEF TypeOK
  <2>2. QED
    BY <2>1 DEF PressRun, RunAsked
<1>6. /\ ~running /\ running' = TRUE /\ lastRun' = {}
      /\ fit' = IF s = "step" THEN fit ELSE {}
      /\ \A m \in NodeId : result'[m] = Pending
  BY DEF PressRun
<1>7. FitInv'
  <2>1. Nodes' = Nodes /\ Cyclic' = Cyclic
    BY <1>5 DEF Cyclic, Beyond, DependsOn
  <2>2. fit' \subseteq fit /\ \A m \in fit' : Carried' = Carried
    BY <1>5, <1>6 DEF Carried
  <2>3. \A m \in fit : Enough(Card(flow, m), Environment \union Carried)
    BY <1>1 DEF FitInv
  <2>4. \A m \in fit' : Enough(Card(flow, m), Environment \union Carried')
    BY <2>2, <2>3
  <2>5. \A m \in fit' : Enough(Card(flow, m), Environment \union Carried)'
    BY <1>5, <2>4 DEF Enough
  <2>6. fit' \subseteq Nodes' /\ lastRun' \subseteq Name
    BY <1>1, <1>5, <1>6, <2>2 DEF FitInv
  <2>7. fit' # {} => StructureError(flow)' = "none" /\ Cyclic' = {}
    BY <1>1, <1>5, <2>1, <2>2 DEF FitInv
  <2>8. ~running' /\ phase' = "finished" => lastRun' = Variables'
    BY <1>6
  <2>9. QED
    BY <2>5, <2>6, <2>7, <2>8, Zenon DEF FitInv
<1>8. RerunsFindTheirVariables'
  <2>1. fit' \subseteq NodeId
    BY <1>1, <1>6, RunTyped DEF FitInv
  <2>2. QED
    BY <1>6, <2>1, PendingShape DEF RerunsFindTheirVariables
<1>9. QED
  BY <1>3, <1>4, <1>7, <1>8 DEF SessionInv

\* While a run lasts no card that had its names is found short of one.
LEMMA FitIsServed ==
  ASSUME TypeOK, NamesInv, FitInv, running
  PROVE  RerunsFindTheirVariables
BY RunTyped DEF RerunsFindTheirVariables, NamesInv, FitInv, Carried, Given

LEMMA RunnerSession ==
  ASSUME SessionInv, Runner
  PROVE  SessionInv'
<1>1. /\ WhyInv /\ IInv /\ Formed /\ ScopeIsWhatPassed /\ RefusalInv /\ NamesInv
      /\ EventsInv /\ LiveInv /\ FitInv
  BY DEF SessionInv, WhyInv
<1>2. Progress /\ UNCHANGED tabVars /\ running /\ [Next]_vars
  BY DEF Runner, Next
<1>3. WhyInv' /\ IInv' /\ ScopeIsWhatPassed' /\ RefusalInv'
  BY <1>1, <1>2, NextWhy, NextScope, NextRefusal DEF WhyInv
<1>4. NamesInv' /\ EventsInv' /\ LiveInv'
  BY <1>1, <1>2, <1>3, ProgressNames, ProgressTold, RunnerLive
<1>5. FitInv'
  <2>1. UNCHANGED <<run, running, lastRun, fit>>
    BY <1>1, <1>2, ProgressExtends DEF tabVars
  <2>2. Cyclic' = Cyclic
    BY <2>1 DEF Cyclic, Beyond, DependsOn
  <2>3. QED
    BY <1>1, <1>2, <2>1, <2>2 DEF FitInv, Carried, Enough
<1>6. RerunsFindTheirVariables'
  <2>1. TypeOK' /\ running'
    BY <1>2, <1>3 DEF IInv, tabVars
  <2>2. (TypeOK /\ NamesInv /\ FitInv /\ running => RerunsFindTheirVariables)'
    BY FitIsServed, PTL
  <2>3. QED
    BY <1>4, <1>5, <2>1, <2>2
<1>7. QED
  BY <1>3, <1>4, <1>5, <1>6 DEF SessionInv

LEMMA LiveKept ==
  ASSUME LiveInv, UNCHANGED <<vars, told, live>>
  PROVE  LiveInv'
<1>1. UNCHANGED <<run, result, events, told, live>>
  BY DEF vars, runVars
<1>2. QED
  BY <1>1
  DEF LiveInv, Heard, Shown, Idle, Waiting, Busy, NodeFinished, NodeStarted

\* What the tab does leaves the run alone.
LEMMA RunnerKept ==
  ASSUME WhyInv, ScopeIsWhatPassed, RefusalInv, NamesInv, EventsInv, UNCHANGED vars
  PROVE  (WhyInv /\ ScopeIsWhatPassed /\ RefusalInv /\ NamesInv /\ EventsInv)'
<1>1. WhyInv' /\ ScopeIsWhatPassed' /\ RefusalInv'
  BY NextWhy, NextScope, NextRefusal DEF WhyInv
<1>2. UNCHANGED <<run, phase, result, variables, current, events>>
  BY DEF vars, runVars
<1>3. NamesInv'
  BY <1>2, QuietNames
<1>4. EventsInv'
  BY <1>2 DEF EventsInv, Sent, StepEvent, Refusable, Scoped, Decided, Executed
<1>5. QED
  BY <1>1, <1>3, <1>4

LEMMA DeliverSession ==
  ASSUME SessionInv, Deliver
  PROVE  SessionInv'
<1>1. /\ WhyInv /\ ScopeIsWhatPassed /\ RefusalInv /\ NamesInv
      /\ EventsInv /\ LiveInv /\ FitInv /\ RerunsFindTheirVariables
  BY DEF SessionInv
<1>2. UNCHANGED <<vars, running, scope, fit>>
  BY DEF Deliver
<1>3. (WhyInv /\ ScopeIsWhatPassed /\ RefusalInv /\ NamesInv /\ EventsInv)'
  BY <1>1, <1>2, RunnerKept
<1>4. LiveInv'
  BY <1>1, DeliverLive
<1>5. UNCHANGED <<run, result>>
  BY <1>2 DEF vars, runVars
<1>6. FitInv'
  <2>1. Cyclic' = Cyclic
    BY <1>5 DEF Cyclic, Beyond, DependsOn
  <2>2. lastRun' \subseteq Name
    BY <1>1 DEF Deliver, Variables, FitInv
  <2>3. lastRun' # lastRun => phase = "finished" /\ lastRun' = Variables
    <3>1. SUFFICES ASSUME lastRun' # lastRun
                   PROVE  phase = "finished" /\ lastRun' = Variables
      OBVIOUS
    <3>2. told + 1 \in 1..Len(events)
      <4>1. told < Len(events) /\ told \in 0..Len(events)
        BY <1>1 DEF Deliver, LiveInv
      <4>2. Len(events) \in Nat
        BY <1>1, LenProperties DEF WhyInv, IInv, TypeOK
      <4>3. QED
        BY <4>1, <4>2
    <3>3. events[told + 1].event = "finished" /\ lastRun' = Variables
      BY <3>1 DEF Deliver
    <3>4. ~StepEvent(told + 1)
      BY <3>3, EventShapes DEF StepEvent
    <3>5. events[told + 1] # [event |-> "started", node |-> NoNode]
      BY <3>3
    <3>6. phase = "finished"
      BY <1>1, <3>2, <3>4, <3>5 DEF EventsInv
    <3>7. QED
      BY <3>3, <3>6
  <2>4. Variables' = Variables /\ phase' = phase
    BY <1>2 DEF Variables, vars, runVars
  <2>5. Carried' = Carried /\ (~running' /\ phase' = "finished" => lastRun' = Variables')
    BY <1>1, <1>2, <1>5, <2>3, <2>4 DEF FitInv, Carried
  <2>6. QED
    BY <1>1, <1>2, <1>5, <2>1, <2>2, <2>5 DEF FitInv, Enough
<1>7. RerunsFindTheirVariables'
  BY <1>1, <1>2, <1>5 DEF RerunsFindTheirVariables
<1>8. QED
  BY <1>3, <1>4, <1>6, <1>7 DEF SessionInv

\* The variables of a run are enough for what its seed was enough for, and for
\* every card of it that had its names.
LEMMA ResolveFit ==
  ASSUME SessionInv, Resolve
  PROVE  FitInv' /\ RerunsFindTheirVariables'
<1>1. /\ TypeOK /\ OrderInv /\ ProgressInv /\ IInv /\ Formed
      /\ ScopeIsWhatPassed /\ RefusalInv /\ NamesInv /\ FitInv /\ RerunsFindTheirVariables
  BY DEF SessionInv, WhyInv, IInv
<1>2. /\ running /\ running' = FALSE /\ phase \in {"finished", "refused"}
      /\ lastRun' = IF phase = "finished" THEN Variables ELSE {}
      /\ fit' = fit \union {n \in Included : HadItsNames(n)}
      /\ UNCHANGED <<run, phase, result, variables, scope>>
  BY DEF Resolve, vars, runVars
<1>3. Included \subseteq Nodes /\ Nodes \subseteq NodeId /\ NoNode \notin NodeId
  BY <1>1, RunTyped, ValuesAssumption
<1>4. Cyclic' = Cyclic
  BY <1>2 DEF Cyclic, Beyond, DependsOn
<1>5. CASE phase = "refused"
  <2>1. current = NoNode /\ \A n \in NodeId : result[n] = Pending
    BY <1>1, <1>5 DEF ProgressInv, Refusable, Decided
  <2>2. {n \in Included : HadItsNames(n)} = {}
    BY <1>3, <2>1, PendingShape DEF HadItsNames, Executed
  <2>3. fit = {}
    BY <1>1, <1>5 DEF RefusalInv, FitInv
  <2>4. fit' = {} /\ lastRun' = {}
    BY <1>2, <1>5, <2>2, <2>3
  <2>5. QED
    BY <1>2, <1>5, <2>4 DEF FitInv, RerunsFindTheirVariables
<1>6. CASE phase = "finished"
  <2>1. StructureError(flow) = "none" /\ Cyclic = {}
    BY <1>1, <1>6, RefusedUnrunnable DEF OrderInv, Refusable, RefusedExactlyIfUnrunnable, Unrunnable
  <2>2. /\ lastRun' = Variables /\ Variables' = Variables
        /\ Environment \union Variables = Defined
    BY <1>2, <1>6 DEF Variables, Defined
  <2>3. Given \subseteq Defined
    BY <1>1, <1>6, GivenIsDefined DEF Scoped
  <2>4. ASSUME NEW n \in fit PROVE Enough(Card(flow, n), Defined)
    BY <1>1, <1>2, <2>3 DEF FitInv, Carried, Given, Enough
  <2>5. ASSUME NEW n \in Included, HadItsNames(n)
        PROVE  Enough(Card(flow, n), Defined) /\ result[n].why # "undefined"
    <3>1. current = NoNode
      BY <1>1, <1>6 DEF ProgressInv
    <3>2. result[n].status \in {"passed", "failed"}
      BY <1>3, <2>5, <3>1 DEF HadItsNames, Executed
    <3>3. SawItsNames(Card(flow, n), result[n])
      BY <2>5, <3>2 DEF HadItsNames, SawItsNames
    <3>4. QED
      BY <1>1, <2>5, <3>3 DEF NamesInv, HadItsNames
  <2>6. \A n \in fit' : Enough(Card(flow, n), Environment \union Carried')
    BY <1>2, <2>2, <2>4, <2>5 DEF Carried
  <2>7. lastRun' \subseteq Name /\ fit' \subseteq Nodes
    BY <1>1, <1>2, <1>3, <2>2 DEF Variables, FitInv
  <2>8. FitInv'
    BY <1>2, <1>4, <2>1, <2>2, <2>6, <2>7 DEF FitInv, Enough
  <2>9. RerunsFindTheirVariables'
    BY <1>1, <1>2, <2>5 DEF RerunsFindTheirVariables
  <2>10. QED
    BY <2>8, <2>9
<1>7. QED
  BY <1>2, <1>5, <1>6

LEMMA ResolveSession ==
  ASSUME SessionInv, Resolve
  PROVE  SessionInv'
<1>1. WhyInv /\ ScopeIsWhatPassed /\ RefusalInv /\ NamesInv /\ EventsInv /\ LiveInv
  BY DEF SessionInv
<1>2. UNCHANGED <<vars, told, live>>
  BY DEF Resolve
<1>3. (WhyInv /\ ScopeIsWhatPassed /\ RefusalInv /\ NamesInv /\ EventsInv)'
  BY <1>1, <1>2, RunnerKept
<1>4. LiveInv'
  BY <1>1, <1>2, LiveKept
<1>5. QED
  BY <1>3, <1>4, ResolveFit DEF SessionInv

LEMMA NextSession ==
  ASSUME SessionInv, [SessionNext]_sessionVars
  PROVE  SessionInv'
<1>1. CASE Runner
  BY <1>1, RunnerSession
<1>2. CASE Tab
  BY <1>2, DeliverSession, ResolveSession DEF Tab
<1>3. CASE \E s \in {"all", "connected", "step"} : \E n \in Nodes \union {NoNode} : PressRun(s, n)
  BY <1>3, PressRunSession
<1>4. CASE UNCHANGED sessionVars
  <2>1. UNCHANGED <<vars, running, scope, told, live, lastRun, fit>>
    BY <1>4 DEF sessionVars, tabVars
  <2>2. (WhyInv /\ ScopeIsWhatPassed /\ RefusalInv /\ NamesInv /\ EventsInv)'
    BY <2>1, RunnerKept DEF SessionInv
  <2>3. LiveInv'
    BY <2>1, LiveKept DEF SessionInv
  <2>4. UNCHANGED <<run, phase, result>> /\ Variables' = Variables
    BY <2>1 DEF vars, runVars, Variables
  <2>5. Cyclic' = Cyclic
    BY <2>4 DEF Cyclic, Beyond, DependsOn
  <2>6. FitInv' /\ RerunsFindTheirVariables'
    BY <2>1, <2>4, <2>5 DEF SessionInv, FitInv, Carried, Enough, RerunsFindTheirVariables
  <2>7. QED
    BY <2>2, <2>3, <2>6 DEF SessionInv
<1>5. QED
  BY <1>1, <1>2, <1>3, <1>4 DEF SessionNext

LEMMA SessionStarts == SessionInit => SessionInv
<1>1. SUFFICES ASSUME SessionInit PROVE SessionInv
  OBVIOUS
<1>2. /\ Init /\ ~running /\ told = 0 /\ live = [n \in NodeId |-> Idle]
      /\ lastRun = {} /\ fit = {} /\ phase = "new"
  BY <1>1 DEF SessionInit, Init
<1>3. WhyInv /\ ScopeIsWhatPassed /\ RefusalInv /\ NamesInv /\ EventsInv
  BY <1>2, InitFresh, FreshSession
<1>4. LiveInv
  BY <1>2, <1>3, NothingHeard DEF AllIdle, WhyInv, IInv
<1>5. FitInv /\ RerunsFindTheirVariables
  BY <1>2 DEF FitInv, RerunsFindTheirVariables
<1>6. QED
  BY <1>3, <1>4, <1>5 DEF SessionInv

\* However often the tab runs its document, and whatever part of it, what the
\* runner keeps of one run it keeps of each, the events say how each step ended
\* after all that feeds it, and the tab shows what the events it heard say.
THEOREM SessionInvariance == SessionSpec => []SessionInv
<1>1. SessionInv /\ [SessionNext]_sessionVars => SessionInv'
  BY NextSession
<1>2. QED
  BY <1>1, SessionStarts, PTL DEF SessionSpec

\* The canvas explains the cards it shows, at every moment of every run and
\* however far the events lag behind it.
THEOREM CanvasIsRight == SessionSpec => []CanvasExplainsTheGate
<1>1. SessionInv => CanvasExplainsTheGate
  BY PictureExplains DEF SessionInv
<1>2. QED
  BY <1>1, SessionInvariance, PTL

\* A step run again on its own is not short of a name it had in the runs whose
\* variables the tab carries.
THEOREM RerunsAreServed == SessionSpec => []RerunsFindTheirVariables
<1>1. SessionInv => RerunsFindTheirVariables
  BY DEF SessionInv
<1>2. QED
  BY <1>1, SessionInvariance, PTL

=============================================================================
