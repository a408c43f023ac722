----------------------------- MODULE SharedFlow -----------------------------
(***************************************************************************)
(* An open flow whose file other processes change: editing with undo,      *)
(* saving, reloading, and the subscription that tells the tab of changes   *)
(* (App.tsx: saveFlow, reloadFlowTab and the effect on workspace-changed;  *)
(* api.ts: onWorkspaceChanged; Flows.tsx).                                 *)
(*                                                                         *)
(* A call to the core does its work at one moment between its start and    *)
(* its answer; Watch has the steps of that work and of the watcher.  A     *)
(* document is a title and a body, and a file holds the body: the name of  *)
(* the file is the title.  Undo and redo put a document back as an edit    *)
(* does (UndoHistory has which), so they are edits here.                   *)
(***************************************************************************)
EXTENDS Naturals, Sequences, FiniteSets

CONSTANTS
  FlowName, Body,
  NoName, Gone,
  Slot,          \* Bound: calls under way at once
  MaxEdits, MaxForeign, MaxCalls   \* Bounds: edits, changes by others, calls

ASSUME SharedAssumption == NoName \notin FlowName /\ Gone \notin Body

VARIABLES
  disk,      \* What each flow's file holds
  ours,      \* watch.rs `written`
  raised,    \* Files the watcher has yet to look at
  news,      \* Changes emitted and not yet delivered
  doc,       \* FlowTab: the document as edited
  tab,       \* FlowTab: saved, savedName, external
  listener,  \* The subscription, with the tab it was made with
  calls,     \* Slot -> the call under way
  told,      \* The tab has shown that its file is not what it saved or loaded
  mishaps,   \* What has happened that the tab is not built for
  edited, meddled, called   \* How much the bounds have used up

diskVars   == <<disk, ours, raised>>
boundVars  == <<edited, meddled, called>>
sharedVars == <<doc, diskVars, news, tab, listener, calls, told, mishaps, boundVars>>

Content  == Body \union {Gone}
Change   == [name: FlowName, removed: BOOLEAN]
Mishap   == {"gap", "stale", "overlap", "list", "half", "dropped", "late"}
Doc      == [title: FlowName, body: Body]
NoDoc    == CHOOSE d \in Doc : TRUE

\* `clean` is history: a load nobody pressed for, begun when the tab had no
\* unsaved edits.
NoCall == [kind |-> "none", step |-> "none", from |-> NoName, name |-> NoName,
           doc |-> NoDoc, clean |-> FALSE]
Call   == [kind: {"none", "save", "load"}, step: {"none", "move", "work", "answer", "failed"},
           from: FlowName \union {NoName}, name: FlowName \union {NoName}, doc: Doc,
           clean: BOOLEAN]

Busy == {s \in Slot : calls[s] # NoCall}

Overlapping == IF Busy # {} THEN {"overlap"} ELSE {}

Asked == called < MaxCalls /\ called' = called + 1

Begin(s, call) ==
  /\ calls[s] = NoCall
  /\ calls' = [calls EXCEPT ![s] = call]

isDirty == tab.saved # doc

LoadOf(n, clean) ==
  [NoCall EXCEPT !.kind = "load", !.step = "work", !.name = n, !.clean = clean]

Snapshot == [on |-> TRUE, savedName |-> tab.savedName, dirty |-> isDirty]

(***************************************************************************)
(* The user.                                                               *)
(***************************************************************************)
editFlow(d) ==
  /\ edited < MaxEdits
  /\ d # doc /\ doc' = d
  /\ edited' = edited + 1
  /\ mishaps' = mishaps \union Overlapping
  /\ UNCHANGED <<diskVars, news, tab, listener, calls, told, meddled, called>>

\* "Keep mine" and "Dismiss"
KeepMine ==
  /\ tab.external # "none"
  /\ tab' = [tab EXCEPT !.external = "none"]
  /\ UNCHANGED <<doc, diskVars, news, listener, calls, told, mishaps, boundVars>>

\* saveFlow up to its first call, for a flow that has a file
saveFlow(s) ==
  /\ Asked
  /\ Begin(s, [kind |-> "save", name |-> doc.title, doc |-> doc, from |-> tab.savedName,
               clean |-> FALSE, step |-> IF tab.savedName = doc.title THEN "work" ELSE "move"])
  /\ mishaps' = mishaps \union Overlapping
  /\ UNCHANGED <<doc, diskVars, news, tab, listener, told, edited, meddled>>

ReloadExternal(s) ==
  /\ tab.external = "changed"
  /\ Asked
  /\ Begin(s, LoadOf(tab.savedName, FALSE))
  /\ mishaps' = mishaps \union Overlapping
  /\ UNCHANGED <<doc, diskVars, news, tab, listener, told, edited, meddled>>

\* The list of flows deletes or renames a file, whichever tab shows it.
Listed(n, to) ==
  /\ Asked
  /\ disk[n] # Gone
  /\ to # NoName => disk[to] = Gone
  /\ disk' = [m \in FlowName |->
                IF m = n THEN Gone ELSE IF m = to THEN disk[n] ELSE disk[m]]
  /\ ours' = [m \in FlowName |-> IF m \in {n, to} THEN disk'[m] ELSE ours[m]]
  /\ raised' = raised \union ({n, to} \ {NoName})
  /\ mishaps' = mishaps \union (IF tab.savedName \in {n, to} THEN {"list"} ELSE {})
  /\ UNCHANGED <<doc, news, tab, listener, calls, told, edited, meddled>>

(***************************************************************************)
(* The core, one call at a time under its lock.                            *)
(***************************************************************************)
Advance(s, step) == calls' = [calls EXCEPT ![s].step = step]

Unanswered == <<doc, news, tab, listener, told, boundVars>>

\* rename_flow: what is on disk moves, not what the tab shows.
Move(s) ==
  LET from == calls[s].from
      to   == calls[s].name IN
  /\ calls[s].step = "move"
  /\ IF disk[from] = Gone \/ disk[to] # Gone
       THEN Advance(s, "failed") /\ UNCHANGED diskVars
       ELSE /\ Advance(s, "work")
            /\ disk' = [disk EXCEPT ![to] = disk[from], ![from] = Gone]
            /\ ours' = [ours EXCEPT ![to] = disk[from], ![from] = Gone]
            /\ raised' = raised \union {from, to}
  /\ UNCHANGED <<Unanswered, mishaps>>

\* save_flow, which can fail
Write(s) ==
  /\ calls[s].kind = "save" /\ calls[s].step = "work"
  /\ \/ /\ Advance(s, "answer")
        /\ disk' = [disk EXCEPT ![calls[s].name] = calls[s].doc.body]
        /\ ours' = [ours EXCEPT ![calls[s].name] = calls[s].doc.body]
        /\ raised' = raised \union {calls[s].name}
        /\ UNCHANGED mishaps
     \/ /\ Advance(s, "failed")
        /\ mishaps' = mishaps \union
             (IF calls[s].from = calls[s].name THEN {} ELSE {"half"})
        /\ UNCHANGED diskVars
  /\ UNCHANGED Unanswered

\* load_flow
Read(s) ==
  /\ calls[s].kind = "load" /\ calls[s].step = "work"
  /\ \/ /\ disk[calls[s].name] = Gone
        /\ Advance(s, "failed")
     \/ /\ disk[calls[s].name] # Gone
        /\ calls' = [calls EXCEPT ![s].step = "answer",
                       ![s].doc = [title |-> calls[s].name, body |-> disk[calls[s].name]]]
  /\ UNCHANGED <<Unanswered, diskVars, mishaps>>

(***************************************************************************)
(* Answers.                                                                *)
(***************************************************************************)
Free(s) == calls' = [calls EXCEPT ![s] = NoCall]

\* The document saved becomes the tab's, whatever has been edited meanwhile.
Saved(s) ==
  LET call == calls[s] IN
  /\ call.kind = "save" /\ call.step = "answer"
  /\ doc' = call.doc
  /\ tab' = [saved |-> call.doc, savedName |-> call.name, external |-> "none"]
  /\ told' = FALSE
  /\ mishaps' = mishaps \union (IF disk[call.name] # call.doc.body THEN {"late"} ELSE {})
  /\ Free(s)
  /\ UNCHANGED <<diskVars, news, listener, boundVars>>

\* Mutation: the tab still counts as holding what it held before.
ReloadedOnly(s) ==
  LET call == calls[s] IN
  /\ call.kind = "load" /\ call.step = "answer"
  /\ doc' = call.doc
  /\ tab' = [tab EXCEPT !.external = "none"]
  /\ told' = FALSE
  /\ mishaps' = mishaps \union (IF disk[call.name] # call.doc.body THEN {"late"} ELSE {})
  /\ Free(s)
  /\ UNCHANGED <<diskVars, news, listener, boundVars>>

Reloaded(s) ==
  LET call == calls[s] IN
  /\ call.kind = "load" /\ call.step = "answer"
  /\ doc' = call.doc
  /\ tab' = [tab EXCEPT !.saved = call.doc, !.external = "none"]
  /\ told' = FALSE
  /\ mishaps' = mishaps \union (IF disk[call.name] # call.doc.body THEN {"late"} ELSE {})
  /\ Free(s)
  /\ UNCHANGED <<diskVars, news, listener, boundVars>>

Failed(s) ==
  /\ calls[s].step = "failed"
  /\ told' = TRUE
  /\ Free(s)
  /\ UNCHANGED <<doc, diskVars, news, tab, listener, mishaps, boundVars>>

(***************************************************************************)
(* Other processes, the watcher and the subscription.                      *)
(***************************************************************************)
Meddle(n, content) ==
  /\ meddled < MaxForeign
  /\ disk[n] # content
  /\ disk' = [disk EXCEPT ![n] = content]
  /\ raised' = raised \union {n}
  /\ meddled' = meddled + 1
  /\ UNCHANGED <<doc, ours, news, tab, listener, calls, told, mishaps, edited, called>>

\* Whatever is as the application last wrote it is dropped.
Look(n) ==
  /\ n \in raised
  /\ raised' = raised \ {n}
  /\ IF disk[n] = ours[n]
       THEN /\ mishaps' = mishaps \union
                 (IF n = tab.savedName /\ disk[n] # tab.saved.body /\ Busy = {} THEN {"dropped"}
                  ELSE {})
            /\ UNCHANGED news
       ELSE /\ news' = Append(news, [name |-> n, removed |-> disk[n] = Gone])
            /\ UNCHANGED mishaps
  /\ UNCHANGED <<doc, disk, ours, tab, listener, calls, told, boundVars>>

\* The tabs changed: the old subscription is dropped and a new one asked for.
Rerender ==
  /\ listener.on
  /\ listener # Snapshot
  /\ listener' = [Snapshot EXCEPT !.on = FALSE]
  /\ UNCHANGED <<doc, diskVars, news, tab, calls, told, mishaps, boundVars>>

Listen ==
  /\ ~listener.on
  /\ listener' = [listener EXCEPT !.on = TRUE]
  /\ UNCHANGED <<doc, diskVars, news, tab, calls, told, mishaps, boundVars>>

\* Mutation: a tab with edits is left alone.
DeliverToClean ==
  LET change == Head(news) IN
  /\ news # <<>>
  /\ news' = Tail(news)
  /\ IF ~listener.on \/ listener.savedName # change.name \/ listener.dirty
       THEN /\ mishaps' = mishaps \union
                 (IF change.name # tab.savedName \/ listener.dirty THEN {} ELSE IF listener.on THEN {"stale"} ELSE {"gap"})
            /\ UNCHANGED <<tab, calls, told>>
       ELSE /\ \E s \in Slot : Begin(s, LoadOf(change.name, ~isDirty))
            /\ UNCHANGED <<tab, told, mishaps>>
  /\ UNCHANGED <<doc, diskVars, listener, boundVars>>

\* A change reaches the window.  Nobody may be listening, and who listens goes by
\* the tab as it was when the subscription was made.
Deliver ==
  LET change == Head(news) IN
  /\ news # <<>>
  /\ news' = Tail(news)
  /\ IF ~listener.on \/ listener.savedName # change.name
       THEN /\ mishaps' = mishaps \union
                 (IF change.name # tab.savedName THEN {} ELSE IF listener.on THEN {"stale"} ELSE {"gap"})
            /\ UNCHANGED <<tab, calls, told>>
       ELSE IF change.removed \/ listener.dirty
       THEN /\ tab' = [tab EXCEPT !.external = IF change.removed THEN "removed" ELSE "changed"]
            /\ told' = TRUE
            /\ UNCHANGED <<calls, mishaps>>
       ELSE /\ \E s \in Slot : Begin(s, LoadOf(change.name, ~isDirty))
            /\ mishaps' = mishaps \union Overlapping
                 \union (IF listener.savedName # tab.savedName THEN {"stale"} ELSE {})
            /\ UNCHANGED <<tab, told>>
  /\ UNCHANGED <<doc, diskVars, listener, boundVars>>

----------------------------------------------------------------------------
SharedInit ==
  /\ disk \in [FlowName -> Content]
  /\ \E n \in FlowName :
       /\ disk[n] # Gone
       /\ doc = [title |-> n, body |-> disk[n]]
       /\ tab = [saved |-> doc, savedName |-> n, external |-> "none"]
  /\ ours = [n \in FlowName |-> NoName]
  /\ raised = {} /\ news = <<>>
  /\ listener = Snapshot
  /\ calls = [s \in Slot |-> NoCall]
  /\ told = FALSE /\ mishaps = {}
  /\ edited = 0 /\ meddled = 0 /\ called = 0

User ==
  \/ (\E d \in Doc : editFlow(d)) \/ KeepMine
  \/ (\E s \in Slot : saveFlow(s) \/ ReloadExternal(s))
  \/ (\E n \in FlowName, to \in FlowName \union {NoName} : Listed(n, to))

Core == \E s \in Slot : Move(s) \/ Write(s) \/ Read(s) \/ Saved(s) \/ Reloaded(s) \/ Failed(s)

Others == \E n \in FlowName, content \in Content : Meddle(n, content)

Window == (\E n \in FlowName : Look(n)) \/ Rerender \/ Listen \/ Deliver

SharedNext == User \/ Core \/ Others \/ Window

\* The core answers, the watcher looks, the window renders and takes events.
SharedFair == WF_sharedVars(Core) /\ WF_sharedVars(Window)

SharedSpec == SharedInit /\ [][SharedNext]_sharedVars /\ SharedFair

----------------------------------------------------------------------------

Informed == told \/ disk[tab.savedName] = tab.saved.body

\* Something that will show the tab what its file holds is under way.
OnItsWay ==
  \/ tab.savedName \in raised \/ Busy # {}
  \/ \E i \in DOMAIN news : news[i].name = tab.savedName

\* "...rather than silently keeping a stale copy": the tab goes on from a copy
\* its file has moved away from only once it has said so, or while something
\* that makes it say so is under way.  That fails in the seven ways `mishaps`
\* lists and in no other: a change delivered while no subscription, or one made
\* with an earlier tab, is there to take it; a call or an edit made while a call
\* is under way; a rename or delete in the list; a rename followed by a save
\* that fails; a file put back, unannounced, to what the application wrote; and
\* a change between a call's work and its answer.
InformedOrOnItsWay == Informed \/ OnItsWay \/ mishaps # {}

\* Whatever others do to the file, the tab comes to know, short of those seven.
TabCatchesUp == []<>(Informed \/ mishaps # {})

\* "An open flow follows its file when it has no unsaved edits", and "nothing is
\* reloaded over the edits": a reload nobody pressed for, begun over a document
\* without edits, does not replace edits when its answer comes, those made while
\* it was under way among them.
EditsAreNotReloadedOver ==
  [][\A s \in Slot : Reloaded(s) /\ calls[s].clean => ~isDirty]_sharedVars

=============================================================================
