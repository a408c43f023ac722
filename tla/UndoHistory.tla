---------------------------- MODULE UndoHistory ----------------------------
(***************************************************************************)
(* The undo history of an open flow (flow.ts: record, undo, redo; App.tsx: *)
(* editFlow, undoFlow, redoFlow).                                          *)
(*                                                                         *)
(* A document is its text, what it would be saved as, and its shape: which *)
(* cards it has, where they stand and how they are wired.  Positions are   *)
(* compared by identity, so equal texts can differ in shape.               *)
(***************************************************************************)
EXTENDS Naturals, Sequences, SequencesExt

CONSTANTS
  Shape,          \* Arrangements of cards and connections
  Text,           \* What a document is saved as
  HISTORY_LIMIT   \* How many documents undo goes back

ASSUME LimitAssumption == HISTORY_LIMIT \in Nat

VARIABLES
  doc,       \* FlowTab.flow
  history    \* FlowTab.history; `fresh` while the last step is less than
             \* COALESCE_MS old

undoVars == <<doc, history>>

Doc     == [shape: Shape, text: Text]
History == [past: Seq(Doc), future: Seq(Doc), fresh: BOOLEAN]

\* Mutation: no limit.
Unbounded(s) == s

\* slice(-HISTORY_LIMIT)
Bounded(s) ==
  SubSeq(s, IF Len(s) > HISTORY_LIMIT THEN Len(s) - HISTORY_LIMIT + 1 ELSE 1, Len(s))

SameShape(d, e) == d.shape = e.shape

\* The document about to change is a keystroke past the last one remembered.
Merges(h, before) ==
  h.past # <<>> /\ h.fresh /\ SameShape(Last(h.past), before)

\* The document is about to change from `before`.
Record(h, before) ==
  [past   |-> IF Merges(h, before) THEN h.past ELSE Bounded(Append(h.past, before)),
   future |-> <<>>,
   fresh  |-> TRUE]

Edit(d) ==
  /\ doc' = d
  /\ history' = Record(history, doc)

\* Mutation: what is undone cannot be brought back.
UndoForgetting ==
  /\ history.past # <<>>
  /\ doc' = Last(history.past)
  /\ history' = [past   |-> SubSeq(history.past, 1, Len(history.past) - 1),
                 future |-> history.future,
                 fresh  |-> FALSE]

Undo ==
  /\ history.past # <<>>
  /\ doc' = Last(history.past)
  /\ history' = [past   |-> SubSeq(history.past, 1, Len(history.past) - 1),
                 future |-> <<doc>> \o history.future,
                 fresh  |-> FALSE]

Redo ==
  /\ history.future # <<>>
  /\ doc' = Head(history.future)
  /\ history' = [past   |-> Append(history.past, doc),
                 future |-> Tail(history.future),
                 fresh  |-> FALSE]

\* COALESCE_MS go by.
Pause ==
  /\ history.fresh
  /\ history' = [history EXCEPT !.fresh = FALSE]
  /\ UNCHANGED doc

UndoInit ==
  /\ doc \in Doc
  /\ history = [past |-> <<>>, future |-> <<>>, fresh |-> FALSE]

UndoNext == (\E d \in Doc : Edit(d)) \/ Undo \/ Redo \/ Pause

UndoSpec == UndoInit /\ [][UndoNext]_undoVars

----------------------------------------------------------------------------
\* The documents undo and redo move along.
Timeline == history.past \o <<doc>> \o history.future

\* Undo and redo lead back and forth along the same documents, whatever was
\* edited, merged or dropped before.
UndoAndRedoKeepTheTimeline == [][Undo \/ Redo => Timeline' = Timeline]_undoVars

\* However edits, undo and redo follow each other, the history holds no more
\* documents than its limit, the undone ones included.
HistoryIsBounded ==
  /\ doc \in Doc /\ history \in History
  /\ Len(history.past) + Len(history.future) <= HISTORY_LIMIT

=============================================================================
