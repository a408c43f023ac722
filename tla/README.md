# A TLA+ model of RouteLogic

RouteLogic finds the HTTP endpoints of a project in its source, sends requests to them, and runs
*flows*: multi-step API tests drawn on a canvas. This directory holds a TLA+ development beside that
code: modules that model it, TLC configurations that check them on small instances, and proofs that
TLAPS checks for every instance.

- [What RouteLogic is made of](#what-routelogic-is-made-of): the inventory
- [What is modelled](#what-is-modelled): modules, and how they correspond to the code
- [What the runs check](#what-the-runs-check): properties, bounds, fairness, mutations
- [What is proved](#what-is-proved)
- [Where the code and its documentation differ](#where-the-code-and-its-documentation-differ)
- [What is not modelled](#what-is-not-modelled), and [the plan](#the-plan)

Paths below are relative to the repository's root. Run `tlc -workers 2 -config X.cfg M` for a
configuration `X` of a module `M`, and `tlapm M.tla` for a module of proofs.

## What RouteLogic is made of

The Rust workspace under `crates/` is the program; `src-tauri/` wraps it in a desktop shell,
`ui/` is the React front end, and `crates/rl-mcp` offers the same operations to an agent as a
second process over the same files.

| Component | State it keeps | Operations | What is hard | What makes it correct |
|---|---|---|---|---|
| **Flow document** `rl-model/src/flow.rs` | cards, edges | validate, order, add, lay out | hand- and agent-written documents; duplicate edges; input blocks that jump the queue | refuses exactly what cannot run; one order per document, respecting every dependency |
| **Flow runner** `rl-flow/src/run.rs` | results, variables, position in the order | gate a step, run it, commit what it extracted, report it | failures and branches spreading through skipped steps; narrowed runs that borrow variables; answers that fail half way | nothing runs behind a failure; scope is what passed; every step has one outcome |
| **Lint** `rl-flow/src/lint.rs` | none | warn about undefined names | a static reading against narrowed, seeded, branched runs | no false alarm, and a clean flow lacks only what did not pass |
| **Variable resolver** `rl-model/src/vars.rs` | four layers of names | look up, expand | values that refer to values: depth, cycles | precedence; expansion ends with the right error |
| **HTTP engine** `rl-http/src/engine.rs` | client cache | send, follow redirects | limit, method downgrade, headers across origins, a guard at every hop, timeout | nothing reaches a host the guard refused; every send ends |
| **Workspace files** `rl-workspace/src/workspace.rs` | manifest, collections, environments, flows as YAML | load, save (temporary file and rename), delete, migrate | several processes on the same files, crashes between two steps, stale manifest | a reader sees a whole document; nobody's edit is lost unseen |
| **Watcher** `rl-workspace/src/watch.rs` | what this process wrote last, per path | settle a burst, classify, tell own changes apart | content compared late; debounce without a bound | every foreign change is announced, no own one |
| **History** `rl-workspace/src/history.rs` | SQLite rows | record, list, clear | two writers, busy timeout | one row per request that went out |
| **Secrets** `rl-workspace/src/secrets.rs` | one JSON file | read, set, delete | read-modify-write by two processes, not atomic | no secret is lost |
| **Application state** `rl-core/src/lib.rs` | workspace, active environment, last scan, last enrichment | open, create, close, scan, enrich, environments, collections, flows, send, `prepare_flow` | partial failure between memory and disk; fields that outlive the workspace they came from | the fields describe the open workspace |
| **Agent policy** `rl-core/src/agent.rs` | policy from the manifest | check, gate a send, mask | checked first and at each redirect, read once | an agent reaches only what is allowed and sees no secret |
| **MCP server** `rl-mcp/src/lib.rs` | the application under one lock | tools, one at a time | a check and a write with another process in between | `save_flow` replaces only what it was told to |
| **Desktop shell** `src-tauri/src/lib.rs` | application lock, watcher handle | one command per operation | which lock is held across which await | the watcher belongs to the open workspace; a slow send does not stop the app |
| **Flow tab** `ui/src/App.tsx`, `ui/src/flow.ts` | document, undo history, `dirty`, `external`, run, live picture | edit, undo, run, save, reload after a watcher event | events, answers and edits that arrive during an await | the picture is the run's; edits are never lost; other people's changes are never overwritten unseen |
| **Discovery** `rl-discovery` | parsed-file cache, router graph | scan, resolve mounts, enrich with a helper process | mount cycles, stale cache entries, helper timeout | each endpoint once, with its full path |
| **Importers** `rl-import` | none | text to request | string parsing | round trips |

How they interact. The UI calls the shell's commands (`ui/src/api.ts`); a command locks the
application and calls it. Running a flow is the exception: `run_flow` (`src-tauri/src/lib.rs:261`)
holds the lock only while `prepare_flow` copies the document, the variables and a history
connection, and then runs without it. The run sends its events over a channel to the tab while it
goes on, and its result with the command's response. The files under `.routelogic/` are shared by
the desktop app, the MCP server and the user's editor and version control; the watcher tells the
UI of other people's changes. History is one SQLite file written by both processes.

The behaviours that are hard to test are listed, each at its line, under `hazards` in
`PROJECT.json`, with the properties that would notice them going wrong.

## What is modelled

```
Flows          FlowGraph      documents: cards, edges, input blocks, what validate refuses
                  |
               FlowRunner     one run: order, gate, scope, sends, history   ---implements---> FlowPromise
                  |        \
               FlowLint     FlowSession
                warnings     a tab that runs its document again and again
               UndoHistory    an open flow's undo history
               SharedFlow     an open flow whose file other processes change

Files          Watch          flow files, the steps of the commands that write them, the watcher
               Stores         secrets, collections and a flow, written by several processes

Sending        Sending        a request on its way out: checks, redirects, history

Application    Application    the open workspace, its environments, the shell's lock and watcher

Discovery      Facts          what an adapter emits: routers, routes, mounts, imports, exports
               SourceText     files as statements: PythonSource (FastApi, Flask, Django),
                  |           JsSource (Express, NextJs), GoSource (GoRouters, Go)
               Detection      which frameworks a project uses, and which files are read
                  |
               Registration   routers, mounts and the walk from the application's roots
                  |      \
               Sources    \    a scan: every adapter reads the files, the walk lists what is served
                           \
               Enrichment   \  the source's endpoints merged with the running application's
                        \    \
                        Discovery   scanning and enriching, again and again
```

Each module with a run has an `MC` module that extends it, and configurations named after that:
`MCFlowRunner` (which extends `FlowLint`), `MCFlowSession`, `MCWatch`, `MCSharedFlow`,
`MCStores`, `MCSending`, `MCApplication`, `MCDiscovery`, `MCSources` (which extends `MCGo`);
`UndoHistory` needs none. Modules named `_proofs` hold the theorems about the module they are named after
(`FlowRunner_proofs` also those about `FlowLint` and `FlowSession`, `Stores_proofs` those about `UndoHistory`).

**FlowGraph** (`flow.rs`). A card is a record whatever its kind. Templates are abstracted to the
names they refer to (`reads`, `expects`), because a name being in scope is all that decides whether
a card can run; `pairs` is what the card puts in scope, in order: a request's extractions or a
block's declarations, one of which may have a blank name (`NoName`). A run reads the names of what an
assertion is compared with (`Compared`: not of a unary one) and of the pairs that declare something
(`Declared`). `StructureError` is `Flow::validate` with its order of checks;
`IsInputBlock`, `Upstream`, `Before`, `Outgoing` and `Place` are the lookups of the code. Ids may
repeat and edges may point nowhere: `validate` is what refuses such documents.

**FlowRunner** (`run.rs`, `topological_order` in `flow.rs`, `PreparedFlow::run` in
`rl-core/src/lib.rs`). A run is a record `[flow, only, seed]`: the document, the cards it is narrowed
to (`RunOptions::only`, all ids when it is not) and the names an earlier run left values for.

| Variable | In the code |
|---|---|
| `phase`, `verdict` | where `run_with` is; the `FlowError` it returned |
| `indegree`, `ready`, `order` | the locals of `topological_order` |
| `result` | `results`, one `NodeResult` per finished step |
| `variables` | `variables`; a value is abstracted to *who set it* (a card, the seed, nobody) |
| `current` | the request awaited in `run_request` |
| `events` | what `on_event` was called with |
| `sent`, `history` | requests given to the `Sender`; rows `History::record` kept |

| Action | In the code |
|---|---|
| `Validate` | `Flow::validate`, then the counters of `topological_order` |
| `PlaceNext(n)` | one turn of its loop |
| `Start` | the cycle check, then `run_with` up to its loop |
| `SkipAfterFailure(n)`, `SkipUntaken(n)` | the loop's body when `gate` skips |
| `RunLocal(n)` | the body for a condition, a variables block, a display block |
| `FailBeforeSending(n)` | a request that reads an undefined name or cannot be expanded |
| `Send(n)`, `Answer` | a request up to its await, and from its answer (or timeout) on, with the history row |
| `Finish` | the end of the loop |
| `Quit` | the application exits: the future is dropped where it waits |

The body of the loop is one action when nothing in it awaits, two for a request: other code can only
see the state at an await. A step's outcome is the environment's choice among those the code can
reach from the names in scope: an undefined name always fails; a template whose names are all
defined may still fail to expand (a value can refer to an undefined name or to itself); an answer may
miss an extraction, fail an assertion or pass. `Rank` is `execution_order`: the place in the order,
with the input blocks moved to the front, and the loop takes the least-ranked step left.

**FlowPromise** is the contract in the module documentation of `run.rs`, with neither order, nor
variables, nor events: dead, inactive and live edges, and what they mean for a step. Steps that do
not wait for each other may run at once. `FlowRunner` implements it under the mapping at its end.

**FlowLint** (`lint.rs`) reads the document of a run
statically and is compared with what the run does. **FlowSession** (`runFlow` in `ui/src/App.tsx`;
`runScope`, `applyEvent`, `edgeState` in `flow.ts`) composes the runner with a tab: `PressRun` resets
the runner and the tab's picture, the runner's steps append events, `Deliver` folds one into the
picture, `Resolve` is the command's response. `fit` is a history variable: the cards that had every
name they read in the runs the borrowed variables come from. A block that failed because a value would not
expand is not one of them: it stops at its first failing declaration, and what the rest reads is not known.
The document is not edited between
the runs of a session. Events may still be on their way when the command's response resolves; that they have
all come in before the button is pressed again is the one assumption made of the page (`EventsAreIn`). The
code does not wait for it, and does not tag events with their run, so it relies on that too.

**UndoHistory** (`record`, `undo`, `redo` in `ui/src/flow.ts`; `editFlow`, `undoFlow`, `redoFlow` in
`ui/src/App.tsx`). A document is a `shape` (cards, places, connections: what `sameShape` compares) and
a `text` (the rest). `history` is `History`; its `stamp` is abstracted to `fresh`, whether the last
step is less than `COALESCE_MS` old, and `Pause` is that time going by.

**Watch** (`watch.rs`, `write_file` and `delete_flow` in `workspace.rs`, `rename_flow` in `rl-core`).
A command is the list of its steps that another thread or process can come in front of; `todo` holds
those that are left, and the application's lock keeps commands from overlapping. The watcher's thread
is a state machine with the loop's own steps.

| Variable | In the code |
|---|---|
| `disk` | what each flow's file holds: a body, something that does not load, or nothing |
| `remembered` | `written()`: the fingerprint of what this process last wrote, `0` for a delete |
| `todo` | where the command that holds the lock is |
| `raised` | paths in the channel to `settle` |
| `watcher` | `settle`: waiting, collecting a burst, looking at each file (`looking`, `there` lie between `classify` and `change_is_ours`), and the changes to report |
| `announced` | what `on_change` was called with |

| Action | In the code |
|---|---|
| `Save`, `Delete`, `Rename` | the start of `save_flow`, `delete_flow`, `rename_flow` with its checks |
| `Remember`, `Place` | `write_file`: write the temporary file and `remember_write`; rename it over the target |
| `Find`, `Forget`, `Remove` | `Workspace::delete_flow`: `is_file`, `remember_delete`, `remove_file` |
| `Meddle` | another process replaces or removes a file |
| `Collect`, `Settle` | `recv` and `recv_timeout` |
| `Look`, `Judge` | `classify`; `change_is_ours` |
| `Report`, `Rest` | `on_change`; back to `recv` |
| `Restart` | the application is stopped anywhere and started again: `written()` is empty |

`known`, `carried` and `faulty` are history variables: what the application last wrote to or was told
of a file, the body a rename moves, the files it failed to change. Names are taken as distinct files
(`layout.flow_file`); the other kinds of documents take the same path through `write_file` and
`classify`.

**SharedFlow** (`saveFlow`, `reloadFlowTab` and the effect on `workspace-changed` in `ui/src/App.tsx`;
`onWorkspaceChanged` in `ui/src/api.ts`; `Flows.tsx`). A call to the core does its work at one moment
between its start and its answer; what `Watch` does in several steps is one step here (`Look`), because
what matters is when the tab hears of it. `calls` are the awaits under way, `listener` the subscription
with the tab it was made with (`Rerender`, `Listen`), `news` the events emitted and not yet delivered
(`Deliver`). The subscription may lag behind the tab for as long as it likes: an effect that a dragged card
or an answer brings about runs after the paint and subscribes asynchronously. The model does not bound the
delay, so it has more behaviours than the program; what it says never happens does not, and the run
`reloaded_edits` asks only about edits made after a load began from a tab without any (`clean` of a call).
`mishaps` is a history variable: which of the seven things the tab is not built for have
happened. They are what `InformedOrOnItsWay` excepts, by name, and nothing else is excepted.

**Stores** (`secrets.rs`; `save_request`, `rename_collection` in `rl-core`; `migrate_collections` in
`workspace.rs`; `save_flow` in `rl-mcp`). A process does one call at a time, under its lock; a call is
the steps another process can come in between, and `calls` says at which of them it is, with what it
read there.

| Action | In the code |
|---|---|
| `SetSecret`, `ReadSecrets`, `EmptySecrets`, `FillSecrets` | `set` or `delete`: read the file, then `std::fs::write`, which empties it and fills it |
| `SaveRequest`, `LoadForSave`, `PlaceSaved` | `save_request`: load, or start anew when that fails; replace by id, then by name; write |
| `RenameCollection`, `LoadForRename`, `LookForRename`, `PlaceRenamed`, `RemoveCollection` | `rename_collection` with its two loads, its write and its removal |
| `Migrate`, `LookForMigration`, `Move` | one file of `migrate_collections` |
| `SaveFlow`, `PlaceFlow` | the application's save |
| `SaveFlowForAgent`, `LookForFlow`, `LoadBefore`, `PlaceForAgent` | the agent's: whether it exists, the places it keeps, the write |
| `Stop`, `Meddle` | a process ends or fails at any step; a collection is edited into something that does not load |

`intended`, `contested` and `torn` are history variables: what each secret was last set to, which
secrets were set while another call held a copy of the file, and whether the file was met between the
two steps of a write.

**Sending** (`RouteLogic::send`, `send_for_agent`, `run_flow_for_agent` in `rl-core`, the policy in
`agent.rs`, `execute_guarded` in `rl-http/src/engine.rs`). An origin is a scheme, host and port; an
allow list is the methods it allows at each. `Prepare` is the engine up to its loop with its checks in
order, `Transmit` one turn's request, `Redirect` what it does with a 3xx (method, body, credentials,
limit, guard, in that order), `Fail`, `Finish` and `BadRedirect` the other answers, `Conclude` the
history row and, in an agent's flow, the next request. `EditAllow` is the allow list edited by hand while
calls run.

**Application** (`rl-core/src/lib.rs`, `src-tauri/src/lib.rs`, `enrich/mod.rs`). A command holds the
application lock from its first read to its answer, so it is one step, except for `CloseWorkspace`, which
drops the watcher after the lock (`DropWatcher`), and `RunEnrich`, which holds it while the project's own
code runs (`HelperExits`, `LeftoverEnds`, `TimeOut`, `ReadHelper`). `cached` is the manifest as it was
read when the workspace was opened; `Save` writes all of it. `astray`, `halfOpen` and `made` are history
variables that name the exceptions the properties make.

**Registration** (`rl-discovery/src/graph.rs`). The facts adapters found are records in the order of the
source; a path is a sequence of segments. `Resolve` and `Canonical` are what a name stands for through
imports and exports, `Index` the two maps `build` and `resolve` make, and the walk is a state machine
with its call stack in `stack`: `Start` at a root, `Descend` into a mount, `Return`; then `Sweep` and
`StartOrphan` for what no root reached. **Enrichment** (`enrich/merge.rs`) is the passes of `merge`, one
endpoint a step; `ById` is the map the answer is put in first, of whose endpoints with one id the last one
stays (`merge.rs:78`; which one is last is not modelled, so it may be any). **Discovery** composes the two with
`Scan` and `RunEnrich`.

**Facts** (`facts.rs`) is what passes from an adapter to the graph. **SourceText** is a file as adapters
see it: its statements in the order a walk of the syntax tree meets them, an expression being a literal, a
name, an attribute, a string put together from parts, a list, a call or something else. Nothing is
evaluated: `Folded` is `Constants::collect`, which binds names to strings in two passes, and `PathValue`
puts a gap for what it does not know. On it stand **PythonSource** (`adapters/python.rs`) with **FastApi**,
**Flask** and **Django**, **JsSource** (`adapters/js.rs`) with **Express** and **NextJs**, and **GoSource**
(`adapters/go.rs`) with **GoRouters** and **Go**. Each of these defines one operator of its own name from a
file to facts, which is the adapter's `extract`, and one operator per function it calls.

In Go a router is handed on rather than named: to a function, as a method's argument, in a field, as what a
function returns. The adapter reads a file with a scope (`RouterExpr`, `Extractor`) that says what each local
stands for, and turns a router that is handed to a function into a mount on a router named after that
function. `GoSource` is what it reads of imports, types and handlers, `GoRouters` the scope and what is
emitted of a router, `Go` the walk over statements and calls.

| Operator | In the code |
|---|---|
| `FastApiRouters`, `FastApiCall`, `FastApiDecorated`, `WithSignature` | `extract_declaration`, `extract_call`, `extract_decorated`, `extract_signature` |
| `FlaskRouters`, `FlaskCall`, `RegisterView`, `FlaskDecorated`, `ViewClass`, `Alias` | `declaration`, `call`, `register_view`, `decorated`, `emit_view_classes`, `view_aliases` |
| `FunctionView`, `ClassView`, `ViewSetRoutes`, `DjangoAssignment`, `Pattern`, `DjangoCall` | `function_view`, `class_view`, `viewset_routes`, `assignment` with `root_urlconf`, `pattern`, `call` |
| `ExpressRouters`, `Unwind`, `PathArgument`, `ExpressRoute`, `ExpressMount`, `Inspected` | `declaration`, `unwind`, `is_path_argument`, `route`, `mount` with `mount_child`, `inspect_handler` |
| `PathAt`, `MethodExports`, `AppRoute`, `PagesRoute` | `locate`, `method_exports`, `apply_handler_usage`, the pages half of `extract` |
| `Declare`, `BindGroup`, `BindCall`, `Visit` | `declare`, `bind`, the walk over statements and calls of `go.rs` |

**Detection** (`project.rs`, `detect` and `candidate_files` of each adapter) decides from manifests, imports
and file names which adapters run and which files each is given.

**Sources** (`scan.rs`) is the scan: `ReadFiles` runs the next adapter over the files and hands what it
found to `Registration`, `Collect` adds what the walk listed and what handlers declared apart from their
routes add to it (`handlers.rs`), `PassOver` is a framework that is not detected. Its constant `Projects` pairs files with what such an application serves, which `MCSources`
composes by the rules of the framework and not from the adapters: an application is a choice of prefix,
mount, guard, handler and spelling, its files are written from the choice, and so is, separately, what it
serves.

## What the runs check

Every property has a comment that says what it is about. Beyond the type invariant:

| Run | Question | Properties |
|---|---|---|
| `runner` | What is refused, in which order does the rest run, what is run, skipped, blamed, committed and recorded, does it keep its documented contract, and do lint's warnings hold of it? | `StepsFollowWhatFeedsThem`, `NothingRunsBehindAFailure`, `SkipsNameTheirCause`, `RanExactlyWhatItReached`, `ScopeIsWhatPassed`, `HistoryIsWhatWasSent`, `KeepsThePromise`, `RefusedExactlyIfUnrunnable`, `OrderIsTheDocuments`, `CleanFlowsLackOnlyWhatDidNotPass`, `WarnedStepsNeverPass` |
| `session` | Does the tab show the run, borrow the right values, and come to rest? | `CanvasExplainsTheGate`, `RerunsFindTheirVariables`, `RunsSettle` |
| `undo` | Does undo lead back and forth through what was there, within its limit? | `HistoryIsBounded`, `UndoAndRedoKeepTheTimeline` |
| `watch` | What does the watcher drop, what survives a rename, does the application catch up? | `DropsOnlyItsOwnContent`, `RenamesKeepTheFlow`, `ComesToKnowEveryFile` |
| `shared_flow` | Does an open flow follow its file, or say that it does not? | `InformedOrOnItsWay`, `TabCatchesUp` |
| `stores` | What may overlapping calls of two processes lose? | `SecretsAreWhatWasSet`, `SavedWorkIsKept` |
| `sending` | Where may a request and what it carries end up, and is every attempt on record? | `AgentsReachOnlyAllowedHosts`, `CredentialsStayAtTheirOrigin`, `BodiesKeepTheirMethod`, `HistoryShowsWhatWasTried`, `CallsAreAnswered` |
| `application` | Does what is in memory agree with what is on disk and what is open? | `ChoicesAreOnDisk`, `WatchesWhatIsOpen`, `ScansAreOfTheOpenProject`, `EnrichEndsUnlessHeld` |
| `discovery` | Is every way to a route listed once, and what do scanning and asking the application again and again keep, link and mark? | `EveryWayIsListed`, `ReportedRatherThanDropped`, `NothingIsForgotten`, `MatchesAreSound` |
| `sources` | Is what is listed what is served, however the application is written? | `PythonIsReadAsServed`, `JsIsReadAsServed`, `GoIsReadAsServed` |
| `reloaded_edits`, `hand_edits` | [Do two statements of the documentation hold?](#where-the-code-and-its-documentation-differ) | one each, violated |

Several properties restate the code's result by a different route, so that they can disagree with
it. `RanExactlyWhatItReached` computes the steps a finished run should have run as a least fixed
point over the results, with no order and no gate. `OrderIsTheDocuments` compares the order with the
least of *all* the orders that respect the dependencies. `Cyclic` and `Beyond` find cycles by closed
sets, not by counters. `WarnedStepsNeverPass` and `CleanFlowsLackOnlyWhatDidNotPass` bound lint from
both sides. `EveryWayIsListed` enumerates the paths of the mount graph and folds over each what its
mounts say; the walk keeps a stack and hands values down.

**Bounds.** `MCFlowRunner` has documents of three or four cards, one per shape that matters: a chain of
values, arms that rejoin, arms that meet a plain edge, nested conditions, input blocks with a wired
variables block and an edge drawn twice, three roots that can fail together, and the empty document,
each run whole and narrowed, with and without a seed; every document of three cards (each a variables
block or not) and at most three edges, so every cycle, self-loop, duplicate edge and order on three
cards; a family of malformed ones; and documents in which cards read and set two names in every
arrangement, for lint. Four cards are enough for a failure or a branch to pass through a skipped step
and meet another edge behind it, which is the longest chain the gate's rules distinguish: what a skipped
step hands on is the same at every further step. `MCFlowSession` presses run up to `MaxRuns = 3` times: a
run, a lone step that borrows from it, a lone step that borrows from that; its four documents have an input
block, a condition with two arms, a cycle, and a block that can fail at its first declaration or its second.
`UndoHistory.cfg` has two shapes, two texts and a limit of three, so that edits of both kinds fill the history, overflow it and are
undone past each other. `MCWatch` has two files, two bodies, two commands or restarts, every failing step
included, and a change by others, which comes before, between or after the steps of either and of the watcher:
two bodies so that a file can go back to one it held before. `MCSharedFlow` has two
names and bodies, two calls under way at once, one edit and one foreign change: each of the seven mishaps
takes at most that. `MCStores` has two processes and three calls between them, so that two overlap and a
third finds what they left. `MCSending` has three origins, one of them this machine, chains longer than
`max_redirects = 2`, one call, of a flow of up to two requests, and an edit of the allow list while it runs. `MCApplication` has two roots,
two environments, two writes by other hands and one failing write. `MCDiscovery` has every graph of three
routers and up to three mounts, routers reached through imports and exports in every combination, chains
deeper than `MaxDepth = 3` and routes whose application is asked twice. `MCSources` has 5603 projects
of one to four files, in families, one or more for each framework; within a family the choices that touch
each other meet in every combination. Two files are what a prefix or a guard needs to be lost between, three
what a Go package needs to be declared beside its use. Further families vary the evidence (a manifest, an
import, a file's name, and tests, declaration files and configuration beside the application that must not
be read) and put two languages in one project. They are applications the adapters claim to read: what they
are known to misread is [listed below](#where-the-code-and-its-documentation-differ) and left out.

**Fairness.** `SessionSpec` has weak fairness of the runner (the command awaits the run to its end, the
runtime polls it, and every send ends because the engine gives each request a timeout,
`crates/rl-http/src/engine.rs:55`) and of the tab, whose event loop delivers what is queued; pressing run
and quitting are never fair. `WatchFair` has weak fairness of the command that holds the lock and of the
watcher's thread, which nothing blocks; commands, other processes and restarts are never fair.
`SharedFair` is fair to the core's answers and to the window and its watcher, never to the user or to
others. `SendingSpec` is fair to the engine: the client's timeout answers for a server that does not.
`ApplicationSpec` is fair to the helper's timeout and to the thread that reads its output, and not to the
helper itself.

`CHECK_DEADLOCK FALSE` is set because a run, a scan or a call ends and what has used up its bounds may
stay at rest.

**Mutations.** Definitions preceded by a comment `Mutation:` are not part of the model. Each is one
plausible mistake in the definition after it (a condition dropped, a counter over the wrong set, a
value kept from a failed step), paired in `PROJECT.json` with a property that notices it.

## What is proved

All of the safety properties above but the three of `MCSources` are proved with TLAPS: for every set of
ids, names and values, documents of any size and wiring, any number of runs, calls, processes and restarts,
any routers and mounts, and every limit. What is assumed of the constants is stated by name where they are declared (`RunsAssumption`,
`ValuesAssumption`, `StartsAssumption`, ...) and evaluated by the runs: documents and starting files are
records of the declared shape, special values differ from ids, limits are numbers. `FoundAssumption` says of
what adapters emit that every name is one of a file, a route is for some method, and outside of Go only files
are imported; `RuntimesAssumption` says of what an application answers that it is finite and its paths have no
gaps.

| Module | Theorem | Statement |
|---|---|---|
| `FlowRunner_proofs` | `TypeCorrect`, `Invariance` | `Spec => []TypeOK`, `Spec => []IInv` |
| | `FedFirst` | `Spec => []StepsFollowWhatFeedsThem` |
| | `NothingRuns` | `Spec => []NothingRunsBehindAFailure` |
| | `HistoryTold`, `ScopeTold` | `Spec => []HistoryIsWhatWasSent`, `Spec => []ScopeIsWhatPassed` |
| | `RefusesExactlyTheUnrunnable` | `Spec => []RefusedExactlyIfUnrunnable` |
| | `OrderIsDecided` | `Spec => []OrderIsTheDocuments` |
| | `ReasonsStand`, `CausesShown` | `Spec => []WhyInv`, `Spec => []SkipsNameTheirCause` |
| | `ReachedIsRan` | `Spec => []RanExactlyWhatItReached` |
| | `PromiseKept` | `Spec => KeepsThePromise`, the refinement of `FlowPromise` |
| | `LintInvariance`, `CleanFlowsLack` | `Spec => []LintInv`, `Spec => []CleanFlowsLackOnlyWhatDidNotPass` |
| | `WarningsHold` | `Spec => []WarnedStepsNeverPass` |
| | `SessionInvariance`, `CanvasIsRight` | `SessionSpec => []SessionInv`, `SessionSpec => []CanvasExplainsTheGate` |
| | `RerunsAreServed` | `SessionSpec => []RerunsFindTheirVariables` |
| `Watch_proofs` | `WatchInvariance`, `OnlyItsOwnIsDropped` | `WatchSpec => [](WatchInv /\ RenameInv)`, `WatchSpec => []DropsOnlyItsOwnContent` |
| | `RenamesKeepFlows` | `WatchSpec => []RenamesKeepTheFlow` |
| `SharedFlow_proofs` | `SharedInvariance`, `NoSilentStaleCopy` | `SharedSpec => []SharedInv`, `SharedSpec => []InformedOrOnItsWay` |
| `Stores_proofs` | `StoresInvariance`, `SecretsLast` | `StoresSpec => []StoresInv`, `StoresSpec => []SecretsAreWhatWasSet` |
| | `WorkIsKept` | `StoresSpec => SavedWorkIsKept` |
| | `Bound`, `Timeless` | `UndoSpec => []HistoryIsBounded`, `UndoSpec => UndoAndRedoKeepTheTimeline` |
| `Sending_proofs` | `SendingTypeCorrect`, `ChainsEnd` | the types; no chain is longer than `max_redirects` |
| | `AgentsAreHeld`, `CredentialsAreHeld`, `BodiesAreHeld` | `SendingSpec => []AgentsReachOnlyAllowedHosts`, `...CredentialsStayAtTheirOrigin`, `...BodiesKeepTheirMethod` |
| | `TriesAreTold` | `SendingSpec => []HistoryShowsWhatWasTried` |
| `Application_proofs` | `ApplicationInvariance`, `ChoicesAreKept` | `ApplicationSpec => []ApplicationInv`, `ApplicationSpec => []ChoicesAreOnDisk` |
| | `WatchingWhatIsOpen`, `ScansAreKept` | `ApplicationSpec => []WatchesWhatIsOpen`, `ApplicationSpec => []ScansAreOfTheOpenProject` |
| `Registration_proofs` | `WalkingPaths` | `RegistrationSpec => []WalksArePaths` |
| | `RegistrationInvariance` | `RegistrationSpec => [](WalkTyped /\ Course)` |
| | `EveryWayIsAlwaysListed` | `RegistrationSpec => []EveryWayIsListed` |
| | `AlwaysReportedRatherThanDropped` | `RegistrationSpec => []ReportedRatherThanDropped` |
| `Discovery_proofs` | `DiscoveryIsAWalk`, `DiscoveryInvariance` | `DiscoverySpec => RegistrationSpec`, `DiscoverySpec => [](WalkTyped /\ EnrichInv)` |
| | `NothingIsEverForgotten`, `MatchesAreAlwaysSound` | `DiscoverySpec => []NothingIsForgotten`, `DiscoverySpec => []MatchesAreSound` |

Few of the properties are inductive as they stand. What each proof adds, and why:

**A run.** `NothingRunsBehindAFailure` speaks of paths: it does not say why a skipped step passes the
failure on, nor that the step behind it has not been taken up already. `IInv` replaces it with facts about
single edges. `OrderInv` is Kahn's loop: a counter is the number of distinct dependencies not yet placed, so
a card whose counter reaches zero has everything placed before it, and when the loop ends without leftovers
every card is placed after what feeds it. Moving input blocks to the front keeps that, because nothing feeds
an input block (`RankRespectsEdges`). Since the loop takes the least-ranked step left,
`StepsFollowWhatFeedsThem` follows at each step, and with it the gate never sees an edge without an outcome;
hence `DeadEdgesStop`: a dead edge between two steps of the run leads to a step that has not been taken up or
is skipped for a failure. A step skipped for a failure makes its own edges dead, so the steps that are dead
or untouched are a set closed under edges, and `Behind` is the least such set (`FailureStops`).

*Refusals.* A document that got through the order has a rank every edge increases, so no card is beyond itself
(`CompleteIsAcyclic`). If cards are left over, each waits for another of them. Were none
beyond itself, take the left-over card that the fewest left-over cards lead to: what it waits for is led to
by fewer still (`StuckIsCyclic`). The converse, that what was not refused has no repeated id and no bad edge,
is what `Validate` let through; a repeated id is told by counting (`NoIdTwice`). *The order.*
`GreedyInv` says that each card placed was the first in the document of those that could be; any other order
that respects the dependencies differs from it at a first place, where it has a card that could have been
placed then and was not the first (`LeastOrder`).

*Reasons.* `WhyInv` adds to `IInv` what every result looks like (`Formed`) and that what the gate decided of a
step still holds of its edges (`Gated`): what feeds a step is decided before it and never changes. From it
`RanExactlyWhatItReached` follows by two inclusions. A step that ran has a live edge from a step that ran, so
the first step that ran outside a set closed under `leads` cannot exist (`RunIsReached`). Conversely the steps
that ran are such a closed set (`ReachedIsRun`). For the **refinement**, the mapping's values are worked out
from `Formed` (`PromisedAs`, `PromisedEdges`), and each action of the runner is then a step of `FlowPromise`
or changes nothing it speaks of.

*Lint.* `LintInv` ties a static reading to a run: every name in scope that lint does not know of comes from
the seed, and every name lint relies on that is not in scope has a step that sets it, comes before, and did
not pass or was left out. `WarnedStepsNeverPass` speaks of the warnings about text a run resolves; lint reads
[more than that](#where-the-code-and-its-documentation-differ).

*A session.* `SessionInv` is about four things at once. The runner's invariants hold of each run, because
`PressRun` leaves what a fresh run starts from (`Fresh`). `EventsInv`: an event of a step comes after the last
events of all that feeds it. `LiveInv`: a card shows what the last event the tab heard of it says. Together
with `WhyInv` they give the picture: a card that shows anything is drawn over edges whose sources have been
heard of, and the gate's verdict on those has not changed (`PictureExplains`). `NamesInv`: a step that got
past what it reads has those names in scope, and one that failed for an undefined name is short of one
whatever the run before left it with. `FitInv` carries that from run to run: what the tab keeps is enough for
every card in `fit`. The attempt to prove it showed that `fit` used to hold blocks that had failed to expand
a value; of these the property was false. `Session4` in `MCFlowSession` is the document that shows it.

**Files.** `WatchInv` accounts for every file and every body it may hold: either the application knows it, or
the watcher remembers it as its own, or a raised path, a pending look or a command's remaining steps will
come to it (`AllAccounted`), and what the watcher found between two looks is right for what it will decide
(`LookedRightly`). `DropsOnlyItsOwnContent` only speaks of moments when nothing is pending, which is why it
says nothing about how such a moment is reached. `SharedInv` is the same for a tab: short of the mishaps at
most one call about the open file is under way, the subscription is for the tab that is shown, and every
difference between tab and file has its news, its answer or its notice. `StoresInv` says for secrets that at
most one call has emptied the file and that each copy a call holds is right but for contested secrets; for
collections that no file holds a request twice and that what a call read is what it will put back, unless
someone came in between and the property excepts that.

**Requests and the application.** `SendingInv` adds to the properties `Chain`: the hop about to be sent
passed the guard (`GuardedHop`), hops are counted (`CountedHops`), credentials still on the request mean the
chain never left its origin (`HomeOnly`), a body still to be sent means the method never changed
(`SameMethod`); the properties speak of what is on the wire and say nothing of the next request. `RowsInv`
adds that a caller's rows are as many as its requests that reached a server or were refused, less the one
whose row is still to come. `ApplicationInv` says that the manifest in memory holds the choices, the one on
disk is the one in memory short of a failed save or another hand's write, and a run was started on what was
agreed to.

**The walk of the registration graph.** `WalkingPaths`: the stack holds no router twice and is never longer
than `MaxDepth`, so cycles end. `EveryWayIsListed` speaks only of a finished walk, and counts; `Course` says
what is true on the way there. The stack is a *trail*: each frame was entered over the mount its parent
crossed last, and has the prefix, methods, auth and group that the way leading to it gives (`OnTrail`). Of the
ways from the root being walked, those that leave the trail over a mount still to be crossed are ahead
(`AheadOn`); with all ways of the roots to come they are what is left (`Ahead`). Entering a router
leaves one way less ahead (`PushedAhead`); turning back leaves the same (`BackAhead`), and so does stopping
at a cycle or at the limit (`StoppedAhead`), since a way visits no router twice and is within the limit:
the walk stops exactly where no way goes on. `Tally` has the reachable rows be those of the trips along ways
that are no longer ahead, each once, in some order, and a step that leaves a way behind adds the rows of its
trips (`TallyGrows`). When nothing is ahead, that is `EveryWayIsListed` (`EachWayListed`). It pairs rows
with trips rather than comparing sets, because two ways can give one row. For `ReportedRatherThanDropped`,
`Course` adds that the ends of the ways behind were reached (`ReachesAll`); that what was reached is reachable
or, in the sweep, behind a router that was warned about, and listed as orphaned (`Reaches`); that no reachable
router is warned about; and that what is known and was not reached is still to be swept up (`Warns`). The
property is about each method of a route by itself: a method is left out only if every way to the route, from
the roots or, without any, from the routers warned about, has a mount that leaves it out. So a step that crosses
a mount has to be followed for the methods it lets through (`NoneDropped`).

**The merge.** The passes take endpoints from one another's lists, and the properties speak of the list at
the end. Of a merge under way, `EnrichInv` says (`IsMerge`) that what the passes have yet to look at and what
is merged are together the scan, by place and method (`Accounted`), and that each endpoint of the answer is
in the list or still unclaimed (`Answered`). Of each merged endpoint it says how it came there (`IsMerged`):
by identity or loosely, through the one route that closes its gap, or not at all, in which case nothing still
unclaimed would have matched it. Later steps only claim more, so that lasts (`StillMerged`). Between two
merges (`IsList`) each endpoint of the source is as scanned but for a gap that was closed, and what closes a
gap of a path that was itself matched closes it of the path as scanned: a second merge, which starts from the
list and not from the scan, keeps what the first one kept. `DiscoveryIsAWalk` carries over what is proved
of the walk, because scanning and merging leave the graph as it is.

Both rest on sets put in turn: `InTurn` is the one sequence of a finite set in which the order agrees with
a relation, by ranks and not by recursion, and it has each element once (`RanksDiffer`).

**The rest.** `HistoryIsBounded` counts the undone documents too: a redo appends to the past without a cut, and
stays within the limit because the document comes out of the future. Its proof is in `Stores_proofs`, with
the rest of what is kept of a user's work.

The library's induction theorems take a predicate as a parameter, which the provers cannot instantiate.
Where an argument is by induction, a proof takes the least counterexample instead (`MinIsAMember`, and
`WFMin` of the library), as in `RunIsReached` and `StuckIsCyclic`.

Only model-checked:

- everything temporal (`RunsSettle`, `ComesToKnowEveryFile`, `TabCatchesUp`, `CallsAreAnswered`,
  `EnrichEndsUnlessHeld`): liveness under fairness and `ENABLED` are beyond the prover;
- `PythonIsReadAsServed`, `JsIsReadAsServed`, `GoIsReadAsServed`: the adapters read expressions recursively
  (`RECURSIVE`, which the prover does not take), and what an application serves is enumerated by `MCSources`.

## Where the code and its documentation differ

Each of the first two is a run that TLC ends with a counterexample.

1. `reloaded_edits`. "Nothing is reloaded over the edits; the tab says so and asks"
   (`ui/src/App.tsx:79`). `reloadFlowTab` (`:223`) awaits the document and then replaces the tab's
   whatever it holds by then: an edit made meanwhile is gone.
2. `hand_edits`. The agent allow list "is edited by hand while an agent is connected", and a change "has
   to apply to the next request" (`crates/rl-workspace/src/workspace.rs:237`). `save` (`:250`) writes the
   manifest as it was read when the workspace was opened: the next switch of environment, or change of the
   consent, puts the old list back.

The following were met while modelling; no run is kept for them.

- `ui/src/flow.ts:283` offers, for a card, "the variable names a node can rely on". A card behind two
  rejoining arms runs when either was taken, and the name the other arm sets is then undefined.
- Lint reads "every template a node resolves" (`crates/rl-flow/src/lint.rs:114`), and two that none does: what a
  unary assertion expects (`:126`; `run.rs:537` passes it over) and the value of a pair whose name is blank
  (`:132`; `run.rs:618`). A step with an undefined name there is warned about and passes. That is why
  `WarnedStepsNeverPass` is about the warnings on text that is resolved (`UnknownResolved`).
- A warning says to "add an edge from `later` to `id`" (`crates/rl-flow/src/lint.rs:70`), which closes a
  cycle when `later` is itself wired behind `id`.
- An edge means that "`to` runs after `from`, and only if `from` passed" (`crates/rl-model/src/flow.rs:317`). Where
  arms rejoin, `to` also runs if `from` was skipped by a branch; the module documentation of `run.rs`, which
  `FlowPromise` states, says so.
- "Dropping credentials when the origin changes" (`crates/rl-http/src/engine.rs:159`) is done for `Authorization`,
  and for cookies only beside it. `CredentialsStayAtTheirOrigin` is about `Authorization`.
- "Each request node that reached the network is recorded in history" (`crates/rl-core/src/lib.rs:1109`):
  the result of `History::record` is dropped (`:1125`), so a busy store loses the row.
- "Adding, removing or wiring a card is always its own step" (`ui/src/flow.ts:321`): a card added within
  400 ms of a keystroke is one step with it, because `record` compares the last recorded document with the
  one being changed and not with what it becomes.
- The watcher "must not tell the app its own save happened elsewhere"
  (`crates/rl-workspace/src/watch.rs:9`): between `remember_write` and the rename the file holds the save
  before, which is no longer remembered, and if the watcher has just settled on that one it announces it.
- `write_file` says that "a reader must never see half a file" (`crates/rl-workspace/src/workspace.rs:454`);
  the secrets file is emptied and then written in place (`secrets.rs:67`), so a call of another process that
  meets it in between takes it for empty and writes that back. The file is also
  read and written back whole (`secrets.rs:96`), so a secret that is set while another call, about this secret
  or any other, holds what it read is lost when that call writes. `SecretsAreWhatWasSet` says that these two are the
  only ways secrets are lost: one that is set while no other call is between its reading and its writing stays.
- `save_request` takes a collection that does not load for one that is not there, and writes over it
  (`crates/rl-core/src/lib.rs:494`). `SavedWorkIsKept` excepts it by name.
- A flow run by an agent reads the allow list once, for all its requests. A failed save of the default
  environment is not tried again when the same one is chosen again. A failed open leaves the watcher on the
  workspace before it. `create_workspace` over an open one keeps its scan.
- A router is warned about as never mounted when it is mounted by another orphan that sorts after it
  (`graph.rs:430`). Enriching twice without a scan in between marks what only the application lists as
  found by both (`merge.rs:9`).
- "Two settings files naming the same `ROOT_URLCONF` ... would otherwise walk the child twice and list every
  route under it twice" (`crates/rl-discovery/src/graph.rs:175`). The key mounts are told apart by includes
  the parent, and each settings file is a parent of its own, so they are listed twice.
- The adapters promise a gap rather than a confidently wrong path (`adapters/python.rs:112`,
  `adapters/js.rs:98`). In Python a name that is assigned twice, anywhere in the file, has the last value
  everywhere (`python.rs:27`), so a prefix that is reassigned after its use is wrong. In JavaScript only
  declarations are read (`js.rs:31`), so one that is reassigned before its use is wrong: it is listed under its
  first value. `MCSources` gives no name a second value. In Express, `app.use(PREFIX, router)` with a prefix that does not fold
  is taken for two routers (`express.rs:542`), and the router is listed without a prefix.
- FastAPI: a parameter of a prefix is listed as a query parameter too. A project in which Flask is detected
  as well has its FastAPI routes listed again, as orphans.
- Go: `r.PathPrefix("/api").Subrouter().HandleFunc(...)` in one expression is said to be read
  (`adapters/go.rs:2261`); the catch-all that stands for the rest of a path prefix (`:2231`) stays in the
  middle of the path. Auth from `Use(...)` is said to hold "for the routes after it"
  (`docs/discovery/frameworks.md:352`); it is kept by the router's exact name, so groups, closures and
  functions that are handed the router afterwards do not inherit it.
- Flask: a class is taken for guarded when the text of its route decorator looks like a guard, as in
  `@ns.route("/login")` (`flask.rs:661`). A RESTX namespace without `path` is listed without the default.
- Django: a class that defines some methods itself is listed with those alone (`adapters/django.rs:701`), though
  it still serves the others of its generic base: a `RetrieveUpdateDestroyAPIView` with a `get` of its own also
  answers PUT, PATCH and DELETE. A class with neither is listed with GET, and so is a function that looks at
  no method, though the one serves nothing and the other anything. `MCSources` says of classes what they
  serve, and has none of the two kinds that are misread; of functions it takes the documentation's word
  (`docs/discovery/frameworks.md:246`, `:275`: GET). `http_method_names` is not applied to viewsets; `urlpatterns = router.urls` is not followed.
- Express: a guard that is a function of the same file is not noticed, and a guard given to `router.use`
  guards routes and not mounts.

`DropsOnlyItsOwnContent` says precisely what the watcher may drop: a change after which the file is as
the application last wrote it. That includes another process putting the application's version back
after something else, which was announced: the application then keeps showing the something else.

## What is not modelled

- *Handlers that serve files*, which the Go adapter passes over (`go.rs:2058`), and, in **Discovery**, that a Go
  handler may restrict the methods of a route registered without any (`scan.rs:158`, `handlers.rs:70`), so that
  a row is left out of the list; **Sources** has that.
- *The variable resolver* (`vars.rs`): layers, expansion and the masking of secrets. Whether a template
  expands is a choice of the runner's environment.
- *Template text, response bodies, comparison operators, JSON paths* (`vars.rs`, `extract.rs`,
  `compare.rs`). Outcomes are chosen nondeterministically among those the code can reach; what text or
  number leads to which is data.
- *The request model* (`draft.rs`, `path.rs` beyond the shape of a path): records and their text.
- *Of the discovery adapters*: types, models and body schemas; summaries; groups taken from file, function
  and path names; trailing slashes; optional and regular-expression path syntax; how strong the evidence for
  a framework is; of Go, pointers, the types of a struct's fields and returns from within closures. *Of the
  scan*: the cache of parsed files, the order of the list, and what `models.rs` adds to an endpoint.
- *Importers*: readers of request formats without state.
- *The history store's SQLite file*: locking and its busy timeout are SQLite's. Whether a row is kept is a
  choice of the environment (`Recordings`).
- *Views*: rendering, formatting, code generation; of the collections panel, saving a whole collection as
  the panel shows it.
- *Elapsed time*: the watcher's debounce has no upper bound under steady writes; the model only claims what
  happens once they stop.

## The plan

Done: flows; the shared workspace; sending; the application; stores; discovery from a project's files to its
list, with all six adapters; and the proofs of all safety properties but those of the adapters, which are
recursive. Left, in this order:

1. `Vars`: expansion against a reference definition, and what masking a secret leaves of it where secrets
   contain each other; `lay_out`.
2. Bodies: `schema.rs` and `models.rs`, with models that refer to each other.
3. The tabs of the window beyond an open flow (`ui/src/App.tsx`).
