------------------------------- MODULE Watch -------------------------------
(***************************************************************************)
(* The flow files of a workspace that several processes write, and the     *)
(* watcher that tells the application of changes it did not make           *)
(* (rl-workspace: workspace.rs, watch.rs; rl-core: rename_flow).           *)
(*                                                                         *)
(* A file holds a flow, something that does not load as one, or is gone.   *)
(* The title in a flow is the name of its file, so a flow is its body.     *)
(* The application's commands run one after the other under its lock, step *)
(* by step between what other processes and the watcher's thread do.       *)
(* A write becomes visible whole, when the temporary file is renamed over  *)
(* the target.                                                             *)
(***************************************************************************)
EXTENDS Naturals, Sequences, FiniteSets

CONSTANTS
  FlowName, Body,
  NoName,         \* "No flow"
  Broken,         \* What does not load
  Gone,           \* A file that is not there; also what is remembered of it
  Unwritten,      \* What is remembered of a file this process never wrote
  MaxForeign,     \* Bound: changes other processes make
  MaxCommands,    \* Bound: commands the application is given
  Faults          \* Whether writing, renaming and removing a file can fail: subset of {TRUE, FALSE}

ASSUME FilesAssumption ==
  /\ NoName \notin FlowName
  /\ Cardinality({Broken, Gone, Unwritten}) = 3 /\ Body \intersect {Broken, Gone, Unwritten} = {}

VARIABLES
  disk,        \* What each flow's file holds
  remembered,  \* watch.rs `written`: what this process last wrote to it
  todo,        \* The steps left of the command that holds the lock
  raised,      \* Files with an event the watcher has not received yet
  watcher,     \* The thread in `settle`
  announced,   \* Changes emitted to the front end
  known,       \* The content the application last wrote or was told of
  carried,     \* The body the rename under way moves
  faulty,      \* Files a rename or removal of which failed since the start
  meddled, commanded   \* How much the bounds have used up

fileVars    == <<disk, remembered, todo, known, carried, faulty>>
watcherVars == <<raised, watcher, announced>>
watchVars   == <<fileVars, watcherVars, meddled, commanded>>

Content == Body \union {Broken, Gone}
Change  == [name: FlowName, removed: BOOLEAN]

Resting == [phase |-> "idle", burst |-> {}, looking |-> NoName, there |-> FALSE, judged |-> {}]

(***************************************************************************)
(* Commands.  Each is the steps of its function, one per call that another *)
(* thread or process can come in front of.                                 *)
(***************************************************************************)
Step(do, n, text) == [do |-> do, name |-> n, text |-> text]

\* Workspace::save_flow, write_file
SaveSteps(n, text) == <<Step("remember", n, text), Step("place", n, text)>>

\* Workspace::delete_flow
DeleteSteps(n) == <<Step("find", n, Gone), Step("forget", n, Gone), Step("remove", n, Gone)>>

\* Mutation: the old file goes first.
DeleteBeforeSaving(from, to) ==
  DeleteSteps(from) \o SaveSteps(to, disk[from])

\* RouteLogic::rename_flow, once `from` is loaded and nothing loads as `to`
RenameSteps(from, to) ==
  SaveSteps(to, disk[from]) \o (IF from = to THEN <<>> ELSE DeleteSteps(from))

Idle == todo = <<>>

Left == Tail(todo)

Target == Head(todo).name

Now(do) == ~Idle /\ Head(todo).do = do

Done ==
  /\ todo' = Left
  /\ carried' = IF Left = <<>> THEN Gone ELSE carried

Fails == todo' = <<>> /\ carried' = Gone

Save(n, text) ==
  /\ Idle
  /\ todo' = SaveSteps(n, text)
  /\ UNCHANGED <<disk, remembered, known, carried, faulty>>

Delete(n) ==
  /\ Idle
  /\ todo' = DeleteSteps(n)
  /\ UNCHANGED <<disk, remembered, known, carried, faulty>>

Rename(from, to) ==
  /\ Idle
  /\ IF disk[from] \notin Body \/ (from # to /\ disk[to] \in Body)
       THEN Fails
       ELSE todo' = RenameSteps(from, to) /\ carried' = disk[from]
  /\ UNCHANGED <<disk, remembered, known, faulty>>

\* The temporary file is written, and then what it holds remembered, before it
\* is renamed into place.
Remember ==
  /\ Now("remember")
  /\ \/ Done /\ remembered' = [remembered EXCEPT ![Target] = Head(todo).text]
     \/ TRUE \in Faults /\ Fails /\ UNCHANGED remembered
  /\ UNCHANGED <<disk, known, faulty, watcherVars>>

Place ==
  /\ Now("place")
  /\ \/ /\ Done
        /\ disk' = [disk EXCEPT ![Target] = Head(todo).text]
        /\ known' = [known EXCEPT ![Target] = Head(todo).text]
        /\ raised' = raised \union {Target}
        /\ UNCHANGED faulty
     \/ /\ TRUE \in Faults /\ Fails
        /\ faulty' = faulty \union {Target}
        /\ UNCHANGED <<disk, known, raised>>
  /\ UNCHANGED <<remembered, watcher, announced>>

\* Is there a file to delete?
Find ==
  /\ Now("find")
  /\ \/ disk[Target] # Gone /\ Done /\ UNCHANGED known
     \/ disk[Target] = Gone /\ Fails /\ known' = [known EXCEPT ![Target] = Gone]
  /\ UNCHANGED <<disk, remembered, faulty, watcherVars>>

\* remember_delete, before the file is removed
Forget ==
  /\ Now("forget")
  /\ remembered' = [remembered EXCEPT ![Target] = Gone]
  /\ Done
  /\ UNCHANGED <<disk, known, faulty, watcherVars>>

Remove ==
  /\ Now("remove")
  /\ \/ /\ disk[Target] # Gone /\ Done
        /\ disk' = [disk EXCEPT ![Target] = Gone]
        /\ raised' = raised \union {Target}
        /\ known' = [known EXCEPT ![Target] = Gone]
        /\ UNCHANGED faulty
     \/ /\ disk[Target] = Gone /\ Fails
        /\ known' = [known EXCEPT ![Target] = Gone]
        /\ UNCHANGED <<disk, raised, faulty>>
     \/ /\ disk[Target] # Gone /\ TRUE \in Faults /\ Fails
        /\ faulty' = faulty \union {Target}
        /\ UNCHANGED <<disk, raised, known>>
  /\ UNCHANGED <<remembered, watcher, announced>>

Work == Remember \/ Place \/ Find \/ Forget \/ Remove

\* Another process writes, replaces or removes a flow: an agent's server, a
\* branch switch, an editor.
Meddle(n, content) ==
  /\ meddled < MaxForeign
  /\ disk[n] # content
  /\ disk' = [disk EXCEPT ![n] = content]
  /\ raised' = raised \union {n}
  /\ meddled' = meddled + 1
  /\ UNCHANGED <<remembered, todo, known, carried, faulty, watcher, announced, commanded>>

(***************************************************************************)
(* The watcher's thread: collect a burst of events until none comes for a  *)
(* while, look at each file, drop the changes that are ours, report.       *)
(***************************************************************************)

Collect(n) ==
  /\ watcher.phase \in {"idle", "collecting"}
  /\ n \in raised
  /\ raised' = raised \ {n}
  /\ watcher' = [watcher EXCEPT !.phase = "collecting", !.burst = @ \union {n}]
  /\ UNCHANGED <<fileVars, announced>>

Settle ==
  /\ watcher.phase = "collecting"
  /\ watcher' = [watcher EXCEPT !.phase = "judging"]
  /\ UNCHANGED <<fileVars, raised, announced>>

\* classify: is the file there?
Look(n) ==
  /\ watcher.phase = "judging"
  /\ watcher.looking = NoName
  /\ n \in watcher.burst
  /\ watcher' = [watcher EXCEPT !.looking = n, !.there = disk[n] # Gone]
  /\ UNCHANGED <<fileVars, raised, announced>>

\* Mutation: removing a file this process wrote is taken for its own doing.
OursIfWritten(n, removed) ==
  remembered[n] # Unwritten /\ (removed \/ remembered[n] = disk[n])

\* change_is_ours: the file is as this process last left it.
Ours(n, removed) ==
  IF removed THEN remembered[n] = Gone
  ELSE remembered[n] \notin {Gone, Unwritten} /\ remembered[n] = disk[n]

Judge ==
  /\ watcher.looking # NoName
  /\ LET n == watcher.looking
         removed == ~watcher.there
     IN /\ watcher' = [watcher EXCEPT
             !.looking = NoName, !.there = FALSE, !.burst = @ \ {n},
             !.judged = IF Ours(n, removed) THEN @
                        ELSE @ \union {[name |-> n, removed |-> removed]}]
        /\ known' = IF Ours(n, removed) THEN known ELSE [known EXCEPT ![n] = disk[n]]
  /\ UNCHANGED <<disk, remembered, todo, carried, faulty, raised, announced>>

Looked == watcher.phase = "judging" /\ watcher.looking = NoName /\ watcher.burst = {}

Report(change) ==
  /\ Looked
  /\ change \in watcher.judged
  /\ announced' = announced \union {change}
  /\ watcher' = [watcher EXCEPT !.judged = @ \ {change}]
  /\ UNCHANGED <<fileVars, raised>>

\* Mutation: a burst with nothing to report never ends.
RestAfterReporting ==
  /\ Looked
  /\ watcher.judged = {}
  /\ announced # {}
  /\ watcher' = Resting
  /\ UNCHANGED <<fileVars, raised, announced>>

Rest ==
  /\ Looked
  /\ watcher.judged = {}
  /\ watcher' = Resting
  /\ UNCHANGED <<fileVars, raised, announced>>

Notice ==
  \/ (\E n \in FlowName : Collect(n) \/ Look(n))
  \/ Settle \/ Judge \/ Rest
  \/ \E change \in Change : Report(change)

----------------------------------------------------------------------------
WatchInit ==
  /\ disk \in [FlowName -> Content]
  /\ remembered = [n \in FlowName |-> Unwritten]
  /\ todo = <<>>
  /\ raised = {} /\ watcher = Resting /\ announced = {}
  /\ known = disk /\ carried = Gone /\ faulty = {}
  /\ meddled = 0 /\ commanded = 0

Command ==
  /\ commanded < MaxCommands
  /\ commanded' = commanded + 1
  /\ \/ \E n \in FlowName, text \in Body : Save(n, text)
     \/ \E n \in FlowName : Delete(n)
     \/ \E from, to \in FlowName : Rename(from, to)
  /\ UNCHANGED <<watcherVars, meddled>>

Others == \E n \in FlowName : \E content \in Content : Meddle(n, content)

Watching == Notice /\ UNCHANGED <<meddled, commanded>>
Working  == Work /\ UNCHANGED <<meddled, commanded>>

\* The application stops wherever it is and is started again.
Restart ==
  /\ commanded < MaxCommands
  /\ commanded' = commanded + 1
  /\ remembered' = [n \in FlowName |-> Unwritten]
  /\ todo' = <<>>
  /\ raised' = {} /\ watcher' = Resting /\ announced' = {}
  /\ known' = disk /\ carried' = Gone /\ faulty' = {}
  /\ UNCHANGED <<disk, meddled>>

WatchNext == Command \/ Working \/ Others \/ Watching \/ Restart

WatchSpec == WatchInit /\ [][WatchNext]_watchVars

\* The lock is released and the watcher's thread runs.
WatchFair == WF_watchVars(Working) /\ WF_watchVars(Watching)

WatchFairSpec == WatchSpec /\ WatchFair

----------------------------------------------------------------------------
Quiet == Idle /\ raised = {} /\ watcher = Resting

\* A change the application was not told of leaves the file exactly as the
\* application last wrote it: whatever the watcher reads late, in bursts or
\* between two steps of a command, nothing else is dropped.  (A rename into
\* place or a removal that fails is remembered although the file is as before.)
DropsOnlyItsOwnContent ==
  Quiet => \A n \in FlowName \ faulty : known[n] = disk[n] \/ remembered[n] = disk[n]

\* A rename is at no step without its flow on disk, when nobody else writes: it
\* may fail or be stopped anywhere, at worst under both names.
RenamesKeepTheFlow ==
  meddled = 0 /\ carried # Gone => \E n \in FlowName : disk[n] = carried

\* Once nobody writes any more, the application comes to know every file, short
\* of one it failed to change or one put back to what it last wrote itself.
ComesToKnowEveryFile ==
  <>[](\A n \in FlowName \ faulty : known[n] = disk[n] \/ remembered[n] = disk[n])

=============================================================================
