---------------------------- MODULE FlowSession ----------------------------
(***************************************************************************)
(* A flow tab running its document again and again (App.tsx, runFlow;      *)
(* flow.ts, runScope, applyEvent, edgeState): what each run covers, the    *)
(* variables it borrows from the one before, and the picture the canvas    *)
(* draws from the events of the run as they come in.                       *)
(*                                                                         *)
(* The run itself is FlowRunner; its events reach the tab over a channel   *)
(* that keeps their order, some time after they are sent.  The answer of   *)
(* the command takes another way and may overtake any of them.             *)
(***************************************************************************)
EXTENDS FlowRunner

CONSTANTS MaxRuns     \* Bound: how many runs a behaviour starts

VARIABLES
  running,    \* FlowTab.running
  scope,      \* "all", "connected" or "step"
  told,       \* How many of the run's events the tab has applied
  live,       \* FlowTab.live: what each card shows, Idle when not in it
  lastRun,    \* Names the last finished run has values for (FlowTab.run)
  fit,        \* Cards that had every name they read in the runs lastRun carries
              \* the variables of
  started     \* Runs started

tabVars     == <<running, scope, told, live, lastRun, fit, started>>
sessionVars == <<vars, tabVars>>

Idle    == [status |-> "idle", result |-> Pending]
Waiting == [status |-> "pending", result |-> Pending]
Busy    == [status |-> "running", result |-> Pending]
Shown(n) == [status |-> result[n].status, result |-> result[n]]

(***************************************************************************)
(* runScope.  A narrowed run always includes the input blocks.             *)
(***************************************************************************)
\* Every card wired to `n`, directly or through others, in either direction.
Component(f, n) ==
  {m \in Ids(f) : \A S \in SUBSET Ids(f) :
     /\ n \in S
     /\ \A k \in DOMAIN f.edges : f.edges[k].from \in S <=> f.edges[k].to \in S
     => m \in S}

RunScope(f, s, selected) ==
  IF s = "all" \/ selected \notin Ids(f) THEN NodeId
  ELSE {n \in Ids(f) : IsInputBlock(f, n)}
       \union (IF s = "step" THEN {selected} ELSE Component(f, selected))

\* Assumed of the page, which does not wait for it: between the answer of a run
\* and the next press of the button the events of that run have come in.
EventsAreIn == told = Len(events)

\* Press run: the tab forgets its last run and what the cards showed.
PressRun(s, selected) ==
  /\ ~running /\ EventsAreIn /\ started < MaxRuns
  /\ flow.nodes # <<>>
  /\ running' = TRUE
  /\ scope' = s
  /\ run' = [run EXCEPT !.only = RunScope(flow, s, selected),
                        !.seed = IF s = "step" THEN lastRun ELSE {}]
  /\ fit' = IF s = "step" THEN fit ELSE {}
  /\ told' = 0
  /\ live' = [n \in NodeId |-> Idle]
  /\ lastRun' = {}
  /\ started' = started + 1
  /\ phase' = "new" /\ verdict' = "none"
  /\ indegree' = [n \in {} |-> 0] /\ ready' = {} /\ order' = <<>>
  /\ result' = [n \in NodeId |-> Pending]
  /\ variables' = [x \in Name |-> Unset]
  /\ current' = NoNode
  /\ events' = <<>> /\ sent' = <<>> /\ history' = <<>>

\* Mutation: only what the run itself extracted.
Extracted == {x \in Name : variables[x] \in NodeId}

\* FlowRun.variables: every name with a value when the run ended, the seed's
\* included.
Variables == {x \in Name : variables[x] # Unset}

\* applyEvent: fold one event of the run into what the cards show.
Apply(e) ==
  live' = CASE e.event = "started"       -> [n \in NodeId |->
                                               IF n \in Included THEN Waiting ELSE Idle]
            [] e.event = "node_started"  -> [live EXCEPT ![e.node] = Busy]
            [] e.event = "node_finished" -> [live EXCEPT ![e.node] = Shown(e.node)]
            [] e.event = "finished"      -> [n \in NodeId |->
                                               IF n \in Included THEN Shown(n) ELSE Idle]

\* onEvent goes on applying events when the command has already answered.
Deliver ==
  /\ told < Len(events)
  /\ told' = told + 1
  /\ Apply(events[told + 1])
  /\ lastRun' = IF events[told + 1].event = "finished" THEN Variables ELSE lastRun
  /\ UNCHANGED <<vars, running, scope, fit, started>>

\* A block stops at the first declaration that fails: what the rest read is not
\* known then.
HadItsNames(n) ==
  /\ Executed(n) /\ result[n].why # "undefined"
  /\ result[n].why = "resolve" => Card(flow, n).kind # "variables"

\* Mutation: a refused run is never taken off the screen.
ResolveRun ==
  /\ running
  /\ phase = "finished"
  /\ running' = FALSE
  /\ lastRun' = Variables
  /\ fit' = fit \union {n \in Included : HadItsNames(n)}
  /\ UNCHANGED <<vars, scope, told, live, started>>

\* The command returns: the whole run, or the error that refused it.
Resolve ==
  /\ running
  /\ phase \in {"finished", "refused"}
  /\ running' = FALSE
  /\ lastRun' = IF phase = "finished" THEN Variables ELSE {}
  /\ fit' = fit \union {n \in Included : HadItsNames(n)}
  /\ UNCHANGED <<vars, scope, told, live, started>>

SessionInit ==
  /\ Init
  /\ running = FALSE /\ scope = "all" /\ told = 0
  /\ live = [n \in NodeId |-> Idle]
  /\ lastRun = {} /\ fit = {} /\ started = 0

Runner == running /\ Progress /\ UNCHANGED tabVars

Tab == Deliver \/ Resolve

SessionNext ==
  \/ Runner
  \/ Tab
  \/ \E s \in {"all", "connected", "step"} : \E n \in Nodes \union {NoNode} : PressRun(s, n)

\* A run is a task the runtime polls until it is done, and every send in it ends
\* by the engine's timeout; the tab's events and the command's answer are handed
\* out by the page's event loop.  Nobody has to press run.
SessionSpec ==
  /\ SessionInit /\ [][SessionNext]_sessionVars
  /\ WF_sessionVars(Runner) /\ WF_sessionVars(Tab)

----------------------------------------------------------------------------
\* Mutation: every skipped step counts as a branch not taken.
DrawnByStatus(e) ==
  LET source == live[e.from].result IN
    CASE source.status = "pending" -> "idle"
      [] source.status = "failed"  -> "dead"
      [] source.status = "skipped" -> "inactive"
      [] source.status = "passed"  ->
           IF source.branch # "none" /\ e.handle # "none" /\ source.branch # e.handle
             THEN "inactive" ELSE "taken"

\* flow.ts, edgeState: how the canvas draws an edge.
Drawn(e) ==
  LET source == live[e.from].result IN
    CASE source.status = "pending" -> "idle"
      [] source.status = "failed"  -> "dead"
      [] source.status = "skipped" ->
           IF source.why = "upstream_failed" THEN "dead" ELSE "inactive"
      [] source.status = "passed"  ->
           IF source.branch # "none" /\ e.handle # "none" /\ source.branch # e.handle
             THEN "inactive" ELSE "taken"

\* However far the events lag, the canvas explains the cards it shows: a card
\* shown as run has an edge drawn taken (or idle, from outside the run) and none
\* dead; one shown skipped for a failure has a dead edge; one shown skipped by
\* a branch has only inactive edges.
CanvasExplainsTheGate ==
  \A n \in Nodes :
    LET edges == {Drawn(EdgeAt(k)) : k \in Upstream(flow, n)} IN
      CASE live[n].status \in {"running", "passed", "failed"} ->
             "dead" \notin edges /\ (edges = {} \/ {"taken", "idle"} \intersect edges # {})
        [] live[n].status = "skipped" /\ live[n].result.why = "upstream_failed" ->
             "dead" \in edges
        [] live[n].status = "skipped" /\ live[n].result.why = "branch_not_taken" ->
             edges = {"inactive"}
        [] OTHER -> TRUE

\* A lone step re-run with the last run's variables, itself perhaps such a
\* re-run, is not short of a name it had then.
RerunsFindTheirVariables ==
  \A n \in fit : scope = "step" => result[n].why # "undefined"

\* Once pressed, a run comes to rest with every card showing what became of it.
RunsSettle ==
  running ~> /\ ~running
             /\ \A n \in Included : phase = "finished" => live[n] = Shown(n)

=============================================================================
