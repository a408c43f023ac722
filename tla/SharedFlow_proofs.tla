--------------------------- MODULE SharedFlow_proofs ---------------------------
(***************************************************************************)
(* An open tab never goes on from a stale copy in silence, but in the ways *)
(* `mishaps` lists: for any flows and bodies, any number of calls under    *)
(* way, of edits and of changes by others.                                 *)
(***************************************************************************)
EXTENDS SharedFlow, SequenceTheorems, TLAPS

SharedTypeOK ==
  /\ disk \in [FlowName -> Content]
  /\ news \in Seq(Change)
  /\ doc \in Doc /\ NoDoc \in Doc
  /\ tab \in [saved: Doc, savedName: FlowName, external: {"none", "changed", "removed"}]
  /\ listener \in [on: BOOLEAN, savedName: FlowName, dirty: BOOLEAN]
  /\ calls \in [Slot -> Call]

\* A call under way is a save or a load, of some flow.
CallsAreOfFlows ==
  \A s \in Slot : calls[s] # NoCall =>
    /\ calls[s].kind \in {"save", "load"} /\ calls[s].step # "none" /\ calls[s].name \in FlowName
    /\ calls[s].step = "move" => calls[s].from \in FlowName

\* Short of the mishaps, one call at a time, and a load is of the tab's file.
OneAtATime   == \A s, t \in Slot : calls[s] # NoCall /\ calls[t] # NoCall => s = t
LoadsTheTab  == \A s \in Slot : calls[s] # NoCall /\ calls[s].kind = "load" => calls[s].name = tab.savedName
AsBuilt      == mishaps = {} => OneAtATime /\ LoadsTheTab

SharedInv == SharedTypeOK /\ CallsAreOfFlows /\ AsBuilt /\ InformedOrOnItsWay

(***************************************************************************)
(* Calls.                                                                  *)
(***************************************************************************)
LEMMA NoCallIsACall == NoDoc \in Doc => NoCall \in Call
BY DEF NoCall, Call

\* A call that is begun.
LEMMA Begun ==
  ASSUME SharedTypeOK, CallsAreOfFlows, NEW s \in Slot, NEW call \in Call, Begin(s, call),
         call.kind \in {"save", "load"}, call.step # "none", call.name \in FlowName,
         call.step = "move" => call.from \in FlowName
  PROVE  /\ calls' \in [Slot -> Call] /\ CallsAreOfFlows' /\ Busy' # {}
         /\ AsBuilt /\ mishaps' = {} /\ mishaps = {} /\ Busy = {} /\ tab' = tab
              /\ (call.kind = "load" => call.name = tab.savedName) => OneAtATime' /\ LoadsTheTab'
<1>1. calls' \in [Slot -> Call] /\ calls'[s] = call
      /\ \A t \in Slot : t # s => calls'[t] = calls[t]
  BY DEF Begin, SharedTypeOK
<1>2. call # NoCall
  BY DEF NoCall
<1>3. Busy' # {}
  BY <1>1, <1>2 DEF Busy
<1>4. CallsAreOfFlows'
  BY <1>1 DEF CallsAreOfFlows
<1> QED
  BY <1>1, <1>3, <1>4 DEF AsBuilt, OneAtATime, LoadsTheTab, Busy

\* A call that gets on.
LEMMA Advanced ==
  ASSUME SharedTypeOK, CallsAreOfFlows, NEW s \in Slot, NEW step \in {"work", "answer", "failed"},
         calls[s].step # "none", Advance(s, step)
  PROVE  /\ calls' \in [Slot -> Call] /\ CallsAreOfFlows' /\ Busy' # {}
         /\ OneAtATime => OneAtATime'
         /\ LoadsTheTab /\ tab' = tab => LoadsTheTab'
<1>1. calls[s] # NoCall /\ calls[s] \in Call
  BY DEF NoCall, SharedTypeOK
<1> DEFINE call == [calls[s] EXCEPT !.step = step]
<1>2. call \in Call /\ call.kind = calls[s].kind /\ call.name = calls[s].name /\ call.step = step
  BY <1>1 DEF Call
<1>3. calls' \in [Slot -> Call] /\ calls'[s] = call
      /\ \A t \in Slot : t # s => calls'[t] = calls[t]
  BY <1>2 DEF Advance, SharedTypeOK
<1>4. call # NoCall
  BY <1>2 DEF NoCall
<1> HIDE DEF call
<1>5. Busy' # {}
  BY <1>3, <1>4 DEF Busy
<1>6. CallsAreOfFlows'
  BY <1>1, <1>2, <1>3 DEF CallsAreOfFlows
<1>7. OneAtATime => OneAtATime'
  BY <1>1, <1>3 DEF OneAtATime
<1>8. LoadsTheTab /\ tab' = tab => LoadsTheTab'
  BY <1>1, <1>2, <1>3 DEF LoadsTheTab
<1> QED
  BY <1>3, <1>5, <1>6, <1>7, <1>8

\* A call that is answered.
LEMMA Freed ==
  ASSUME SharedTypeOK, CallsAreOfFlows, NEW s \in Slot, calls[s] # NoCall, Free(s)
  PROVE  /\ calls' \in [Slot -> Call] /\ CallsAreOfFlows'
         /\ OneAtATime => OneAtATime' /\ Busy' = {} /\ LoadsTheTab'
<1>1. calls' \in [Slot -> Call] /\ calls'[s] = NoCall
      /\ \A t \in Slot : t # s => calls'[t] = calls[t]
  BY NoCallIsACall DEF Free, SharedTypeOK
<1>2. CallsAreOfFlows'
  BY <1>1 DEF CallsAreOfFlows
<1>3. OneAtATime => \A t \in Slot : calls'[t] = NoCall
  BY <1>1 DEF OneAtATime
<1> QED
  BY <1>1, <1>2, <1>3 DEF OneAtATime, LoadsTheTab, Busy

\* What changes only what others see.
LEMMA CallsUntouched ==
  ASSUME SharedTypeOK, CallsAreOfFlows, UNCHANGED calls
  PROVE  /\ calls' \in [Slot -> Call] /\ CallsAreOfFlows' /\ Busy' = Busy
         /\ OneAtATime => OneAtATime'
         /\ LoadsTheTab /\ tab'.savedName = tab.savedName => LoadsTheTab'
BY DEF SharedTypeOK, CallsAreOfFlows, Busy, OneAtATime, LoadsTheTab

(***************************************************************************)
(* The user.                                                               *)
(***************************************************************************)
LEMMA EditKeeps == ASSUME SharedInv, NEW d \in Doc, editFlow(d) PROVE SharedInv'
<1>1. SharedTypeOK' /\ CallsAreOfFlows' /\ Busy' = Busy
  BY CallsUntouched DEF SharedInv, SharedTypeOK, editFlow, diskVars
<1>2. AsBuilt' /\ InformedOrOnItsWay'
  BY <1>1, CallsUntouched DEF SharedInv, AsBuilt, InformedOrOnItsWay, Informed, OnItsWay, editFlow, diskVars
<1> QED
  BY <1>1, <1>2 DEF SharedInv

LEMMA KeepMineKeeps == ASSUME SharedInv, KeepMine PROVE SharedInv'
<1>1. SharedTypeOK' /\ tab'.savedName = tab.savedName /\ tab'.saved = tab.saved
  BY DEF SharedInv, SharedTypeOK, KeepMine, diskVars
<1>2. CallsAreOfFlows' /\ Busy' = Busy
  BY CallsUntouched DEF SharedInv, KeepMine
<1>3. AsBuilt' /\ InformedOrOnItsWay'
  BY <1>1, <1>2, CallsUntouched
     DEF SharedInv, AsBuilt, InformedOrOnItsWay, Informed, OnItsWay, KeepMine, diskVars
<1> QED
  BY <1>1, <1>2, <1>3 DEF SharedInv

\* A call the user begins is a mishap when another is under way.
LEMMA BegunKeeps ==
  ASSUME SharedInv, NEW s \in Slot, NEW call \in Call, Begin(s, call),
         call.kind \in {"save", "load"}, call.step # "none", call.name \in FlowName,
         call.step = "move" => call.from \in FlowName,
         call.kind = "load" => call.name = tab.savedName,
         Overlapping \subseteq mishaps', mishaps \subseteq mishaps',
         UNCHANGED <<doc, disk, news, tab, listener>>
  PROVE  SharedInv'
<1>1. SharedTypeOK' /\ CallsAreOfFlows' /\ Busy' # {}
  BY Begun DEF SharedInv, SharedTypeOK
<1>2. mishaps' = {} => Busy = {} /\ mishaps = {}
  BY DEF Overlapping
<1>3. AsBuilt'
  BY <1>2, Begun DEF SharedInv, AsBuilt
<1> QED
  BY <1>1, <1>3 DEF SharedInv, InformedOrOnItsWay, OnItsWay

LEMMA SaveKeeps == ASSUME SharedInv, NEW s \in Slot, saveFlow(s) PROVE SharedInv'
<1> DEFINE call == [kind |-> "save", name |-> doc.title, doc |-> doc, from |-> tab.savedName,
                    clean |-> FALSE, step |-> IF tab.savedName = doc.title THEN "work" ELSE "move"]
<1>1. call \in Call /\ call.kind = "save" /\ call.step # "none" /\ call.name \in FlowName
      /\ call.from \in FlowName
  BY DEF SharedInv, SharedTypeOK, Call, Doc
<1>2. Begin(s, call) /\ mishaps' = mishaps \union Overlapping /\ UNCHANGED <<doc, disk, news, tab, listener>>
  BY DEF saveFlow, diskVars
<1> HIDE DEF call
<1> QED
  BY <1>1, <1>2, BegunKeeps

\* The call a load of a flow is.
LEMMA ALoad ==
  ASSUME SharedTypeOK, NEW n \in FlowName, NEW clean \in BOOLEAN
  PROVE  /\ LoadOf(n, clean) \in Call
         /\ LoadOf(n, clean).kind = "load" /\ LoadOf(n, clean).step = "work"
         /\ LoadOf(n, clean).name = n
BY DEF LoadOf, NoCall, Call, SharedTypeOK

LEMMA ReloadKeeps == ASSUME SharedInv, NEW s \in Slot, ReloadExternal(s) PROVE SharedInv'
<1>1. tab.savedName \in FlowName
  BY DEF SharedInv, SharedTypeOK
<1>2. Begin(s, LoadOf(tab.savedName, FALSE)) /\ mishaps' = mishaps \union Overlapping
      /\ UNCHANGED <<doc, disk, news, tab, listener>>
  BY DEF ReloadExternal, diskVars
<1>3. /\ LoadOf(tab.savedName, FALSE) \in Call /\ LoadOf(tab.savedName, FALSE).kind = "load"
      /\ LoadOf(tab.savedName, FALSE).step = "work"
      /\ LoadOf(tab.savedName, FALSE).name = tab.savedName
  BY <1>1, ALoad DEF SharedInv
<1> QED
  BY <1>1, <1>2, <1>3, BegunKeeps

LEMMA ListedKeeps ==
  ASSUME SharedInv, NEW n \in FlowName, NEW to \in FlowName \union {NoName}, Listed(n, to)
  PROVE  SharedInv'
<1>1. disk' \in [FlowName -> Content]
  BY DEF SharedInv, SharedTypeOK, Listed, Content
<1>2. SharedTypeOK' /\ CallsAreOfFlows' /\ Busy' = Busy
  BY <1>1, CallsUntouched DEF SharedInv, SharedTypeOK, Listed
<1>3. AsBuilt'
  BY CallsUntouched DEF SharedInv, AsBuilt, Listed
<1>4. mishaps' = {} => mishaps = {} /\ tab.savedName \notin {n, to}
  BY DEF Listed
<1>5. tab.savedName \notin {n, to} => disk'[tab.savedName] = disk[tab.savedName]
  BY DEF SharedInv, SharedTypeOK, Listed
<1>6. InformedOrOnItsWay'
  BY <1>2, <1>4, <1>5 DEF SharedInv, InformedOrOnItsWay, Informed, OnItsWay, Listed
<1> QED
  BY <1>2, <1>3, <1>6 DEF SharedInv

(***************************************************************************)
(* The core: whatever it does, the call is still to be answered.           *)
(***************************************************************************)
LEMMA CoreKeeps ==
  ASSUME SharedInv, NEW s \in Slot, NEW step \in {"work", "answer", "failed"},
         calls[s].step # "none", Advance(s, step), disk' \in [FlowName -> Content],
         mishaps \subseteq mishaps', Unanswered' = Unanswered
  PROVE  SharedInv'
<1>1. UNCHANGED <<doc, news, tab, listener, told>>
  BY DEF Unanswered
<1>2. calls' \in [Slot -> Call] /\ CallsAreOfFlows' /\ Busy' # {}
      /\ (OneAtATime => OneAtATime') /\ (LoadsTheTab => LoadsTheTab')
  BY <1>1, Advanced DEF SharedInv
<1>3. SharedTypeOK' /\ AsBuilt'
  BY <1>1, <1>2 DEF SharedInv, SharedTypeOK, AsBuilt
<1> QED
  BY <1>2, <1>3 DEF SharedInv, InformedOrOnItsWay, OnItsWay

LEMMA MoveKeeps == ASSUME SharedInv, NEW s \in Slot, Move(s) PROVE SharedInv'
<1> DEFINE from == calls[s].from
           to   == calls[s].name
<1>1. calls[s].step = "move" /\ UNCHANGED <<Unanswered, mishaps>>
  BY DEF Move
<1>2. from \in FlowName /\ to \in FlowName
  BY <1>1 DEF SharedInv, CallsAreOfFlows, NoCall
<1>3. CASE disk[from] = Gone \/ disk[to] # Gone
  <2>1. Advance(s, "failed") /\ UNCHANGED disk
    BY <1>3 DEF Move, diskVars
  <2> QED
    BY <1>1, <2>1, CoreKeeps DEF SharedInv, SharedTypeOK
<1>4. CASE ~(disk[from] = Gone \/ disk[to] # Gone)
  <2>1. Advance(s, "work") /\ disk' = [disk EXCEPT ![to] = disk[from], ![from] = Gone]
    BY <1>4 DEF Move
  <2>2. disk' \in [FlowName -> Content]
    BY <1>2, <2>1 DEF SharedInv, SharedTypeOK, Content
  <2> QED
    BY <1>1, <2>1, <2>2, CoreKeeps
<1> QED
  BY <1>3, <1>4

LEMMA WriteKeeps == ASSUME SharedInv, NEW s \in Slot, Write(s) PROVE SharedInv'
<1>1. calls[s].step = "work" /\ Unanswered' = Unanswered /\ mishaps \subseteq mishaps'
  BY DEF Write
<1>2. calls[s].name \in FlowName /\ calls[s].doc.body \in Content
  BY <1>1 DEF SharedInv, CallsAreOfFlows, SharedTypeOK, NoCall, Call, Doc, Content
<1>3. disk' \in [FlowName -> Content] /\ (Advance(s, "answer") \/ Advance(s, "failed"))
  BY <1>2 DEF Write, SharedInv, SharedTypeOK, diskVars
<1> QED
  BY <1>1, <1>3, CoreKeeps

LEMMA ReadKeeps == ASSUME SharedInv, NEW s \in Slot, Read(s) PROVE SharedInv'
<1>1. calls[s].kind = "load" /\ calls[s].step = "work" /\ calls[s] # NoCall /\ calls[s] \in Call
      /\ calls[s].name \in FlowName /\ UNCHANGED <<Unanswered, disk, mishaps>>
  BY DEF SharedInv, SharedTypeOK, CallsAreOfFlows, Read, NoCall, diskVars
<1>2. CASE Advance(s, "failed")
  BY <1>1, <1>2, CoreKeeps DEF SharedInv, SharedTypeOK
<1> DEFINE found == [title |-> calls[s].name, body |-> disk[calls[s].name]]
           call  == [calls[s] EXCEPT !.step = "answer", !.doc = found]
<1>3. CASE disk[calls[s].name] # Gone /\ calls' = [calls EXCEPT ![s].step = "answer", ![s].doc = found]
  <2>1. found \in Doc
    BY <1>1, <1>3 DEF SharedInv, SharedTypeOK, Content, Doc
  <2>2. call \in Call /\ call.kind = "load" /\ call.name = calls[s].name /\ call.step = "answer"
    BY <1>1, <2>1 DEF Call
  <2>3. calls' \in [Slot -> Call] /\ calls'[s] = call
        /\ \A t \in Slot : t # s => calls'[t] = calls[t]
    BY <1>3, <2>2 DEF SharedInv, SharedTypeOK
  <2>4. call # NoCall
    BY <2>2 DEF NoCall
  <2> HIDE DEF call
  <2>5. SharedTypeOK' /\ CallsAreOfFlows' /\ Busy' # {}
    BY <1>1, <2>2, <2>3, <2>4 DEF SharedInv, SharedTypeOK, CallsAreOfFlows, Busy, Unanswered
  <2>6. AsBuilt'
    BY <1>1, <2>2, <2>3 DEF SharedInv, AsBuilt, OneAtATime, LoadsTheTab, Unanswered
  <2> QED
    BY <2>5, <2>6 DEF SharedInv, InformedOrOnItsWay, OnItsWay
<1> QED
  BY <1>2, <1>3 DEF Read

(***************************************************************************)
(* Answers.                                                                *)
(***************************************************************************)
\* What is answered: the tab goes by the answer, which the file agrees with
\* unless it has changed since.
LEMMA AnswerKeeps ==
  ASSUME SharedInv, NEW s \in Slot, calls[s] # NoCall, Free(s), doc' \in Doc, UNCHANGED <<disk, news, listener>>,
         tab' \in [saved: Doc, savedName: FlowName, external: {"none", "changed", "removed"}],
         mishaps \subseteq mishaps',
         mishaps' = {} => Informed'
  PROVE  SharedInv'
<1>1. calls' \in [Slot -> Call] /\ CallsAreOfFlows'
      /\ (OneAtATime => OneAtATime' /\ LoadsTheTab')
  BY Freed DEF SharedInv
<1>2. SharedTypeOK' /\ AsBuilt'
  BY <1>1 DEF SharedInv, SharedTypeOK, AsBuilt
<1> QED
  BY <1>1, <1>2 DEF SharedInv, InformedOrOnItsWay

LEMMA SavedKeeps == ASSUME SharedInv, NEW s \in Slot, Saved(s) PROVE SharedInv'
<1>1. calls[s] # NoCall /\ calls[s] \in Call /\ calls[s].name \in FlowName /\ calls[s].doc \in Doc
  BY DEF Saved, SharedInv, SharedTypeOK, CallsAreOfFlows, NoCall, Call
<1>2. Free(s) /\ doc' = calls[s].doc /\ UNCHANGED <<disk, news, listener>>
      /\ tab' = [saved |-> calls[s].doc, savedName |-> calls[s].name, external |-> "none"]
      /\ mishaps' = mishaps \union (IF disk[calls[s].name] # calls[s].doc.body THEN {"late"} ELSE {})
  BY DEF Saved, diskVars
<1>3. mishaps' = {} => Informed'
  BY <1>2 DEF Informed
<1> QED
  BY <1>1, <1>2, <1>3, AnswerKeeps

LEMMA ReloadedKeeps == ASSUME SharedInv, NEW s \in Slot, Reloaded(s) PROVE SharedInv'
<1>1. calls[s] # NoCall /\ calls[s].kind = "load" /\ calls[s] \in Call /\ calls[s].doc \in Doc
  BY DEF Reloaded, SharedInv, SharedTypeOK, NoCall, Call
<1>2. Free(s) /\ doc' = calls[s].doc /\ UNCHANGED <<disk, news, listener>>
      /\ tab' = [tab EXCEPT !.saved = calls[s].doc, !.external = "none"]
      /\ mishaps' = mishaps \union (IF disk[calls[s].name] # calls[s].doc.body THEN {"late"} ELSE {})
  BY DEF Reloaded, diskVars
<1>3. tab' \in [saved: Doc, savedName: FlowName, external: {"none", "changed", "removed"}]
      /\ tab'.savedName = tab.savedName /\ tab'.saved = calls[s].doc
  BY <1>1, <1>2 DEF SharedInv, SharedTypeOK
<1>4. mishaps' = {} => Informed'
  BY <1>1, <1>2, <1>3 DEF Informed, SharedInv, AsBuilt, LoadsTheTab
<1> QED
  BY <1>1, <1>2, <1>3, <1>4, AnswerKeeps

LEMMA FailedKeeps == ASSUME SharedInv, NEW s \in Slot, Failed(s) PROVE SharedInv'
<1>1. calls[s] # NoCall
  BY DEF Failed, NoCall
<1>2. Free(s) /\ UNCHANGED <<doc, disk, news, listener, tab, mishaps>> /\ Informed'
  BY DEF Failed, diskVars, Informed
<1> QED
  BY <1>1, <1>2, AnswerKeeps DEF SharedInv, SharedTypeOK

(***************************************************************************)
(* Other processes, the watcher and the subscription.                      *)
(***************************************************************************)
LEMMA MeddleKeeps ==
  ASSUME SharedInv, NEW n \in FlowName, NEW content \in Content, Meddle(n, content)
  PROVE  SharedInv'
<1>1. SharedTypeOK' /\ CallsAreOfFlows' /\ Busy' = Busy /\ AsBuilt'
  BY CallsUntouched DEF SharedInv, SharedTypeOK, AsBuilt, Meddle
<1>2. tab.savedName # n => disk'[tab.savedName] = disk[tab.savedName]
  BY DEF SharedInv, SharedTypeOK, Meddle
<1>3. InformedOrOnItsWay'
  BY <1>1, <1>2 DEF SharedInv, InformedOrOnItsWay, Informed, OnItsWay, Meddle
<1> QED
  BY <1>1, <1>3 DEF SharedInv

LEMMA RerenderKeeps == ASSUME SharedInv, Rerender \/ Listen PROVE SharedInv'
<1>1. UNCHANGED <<doc, disk, raised, news, tab, calls, told, mishaps>>
      /\ listener' \in [on: BOOLEAN, savedName: FlowName, dirty: BOOLEAN]
  BY DEF SharedInv, SharedTypeOK, Rerender, Listen, Snapshot, isDirty, diskVars
<1>2. SharedTypeOK' /\ CallsAreOfFlows' /\ Busy' = Busy /\ AsBuilt'
  BY <1>1, CallsUntouched DEF SharedInv, SharedTypeOK, AsBuilt
<1> QED
  BY <1>1, <1>2 DEF SharedInv, InformedOrOnItsWay, Informed, OnItsWay

LEMMA LookKeeps == ASSUME SharedInv, NEW n \in FlowName, Look(n) PROVE SharedInv'
<1> DEFINE change == [name |-> n, removed |-> disk[n] = Gone]
<1>1. UNCHANGED <<doc, disk, tab, listener, calls, told>> /\ raised' = raised \ {n} /\ mishaps \subseteq mishaps'
  BY DEF Look
<1>2. CASE disk[n] = ours[n]
  <2>1. UNCHANGED news
        /\ (n = tab.savedName /\ disk[n] # tab.saved.body /\ Busy = {} => mishaps' # {})
    BY <1>2 DEF Look
  <2>2. SharedTypeOK' /\ CallsAreOfFlows' /\ Busy' = Busy /\ AsBuilt'
    BY <1>1, <2>1, CallsUntouched DEF SharedInv, SharedTypeOK, AsBuilt
  <2>3. InformedOrOnItsWay'
    BY <1>1, <2>1, <2>2 DEF SharedInv, InformedOrOnItsWay, Informed, OnItsWay
  <2> QED
    BY <2>2, <2>3 DEF SharedInv
<1>3. CASE disk[n] # ours[n]
  <2>1. news' = Append(news, change) /\ change \in Change /\ news \in Seq(Change)
    BY <1>3 DEF Look, Change, SharedInv, SharedTypeOK
  <2>2. news' \in Seq(Change) /\ Len(news') = Len(news) + 1 /\ news'[Len(news) + 1] = change
        /\ \A i \in 1..Len(news) : news'[i] = news[i]
    BY <2>1
  <2>3. DOMAIN news = 1..Len(news) /\ DOMAIN news' = 1..(Len(news) + 1) /\ Len(news) \in Nat
    BY <2>1, <2>2
  <2>4. SharedTypeOK' /\ CallsAreOfFlows' /\ Busy' = Busy /\ AsBuilt'
    BY <1>1, <2>2, CallsUntouched DEF SharedInv, SharedTypeOK, AsBuilt
  <2>5. (\E i \in DOMAIN news : news[i].name = tab.savedName)
        => \E i \in DOMAIN news' : news'[i].name = tab.savedName
    BY <2>2, <2>3
  <2>6. n = tab.savedName => \E i \in DOMAIN news' : news'[i].name = tab.savedName
    <3>1. Len(news) + 1 \in DOMAIN news'
      BY <2>3
    <3> QED
      BY <2>2, <3>1
  <2>7. InformedOrOnItsWay'
    BY <1>1, <2>4, <2>5, <2>6 DEF SharedInv, InformedOrOnItsWay, Informed, OnItsWay
  <2> QED
    BY <2>4, <2>7 DEF SharedInv
<1> QED
  BY <1>2, <1>3

\* What is announced behind the head is announced still.
LEMMA AnnouncedBehind ==
  ASSUME news \in Seq(Change), news # <<>>, news' = Tail(news), NEW n,
         \E i \in DOMAIN news : news[i].name = n, Head(news).name # n
  PROVE  \E i \in DOMAIN news' : news'[i].name = n
<1>1. PICK i \in 1..Len(news) : news[i].name = n
  OBVIOUS
<1>2. i # 1
  BY <1>1
<1>3. i - 1 \in 1..Len(news') /\ news'[i - 1] = news[i] /\ DOMAIN news' = 1..Len(news')
  BY <1>1, <1>2
<1> QED
  BY <1>1, <1>3

LEMMA DeliverKeeps == ASSUME SharedInv, Deliver PROVE SharedInv'
<1> DEFINE change == Head(news)
<1>1. news # <<>> /\ news' = Tail(news) /\ news \in Seq(Change) /\ UNCHANGED <<doc, disk, raised, listener>>
  BY DEF Deliver, SharedInv, SharedTypeOK, diskVars
<1>2. change \in Change /\ news' \in Seq(Change) /\ change.name \in FlowName
  <2>1. change \in Change /\ news' \in Seq(Change)
    BY ONLY <1>1
  <2> QED
    BY <2>1 DEF Change
<1>3. CASE ~listener.on \/ listener.savedName # change.name
  <2>1. UNCHANGED <<tab, calls, told>> /\ mishaps \subseteq mishaps'
        /\ (change.name = tab.savedName => mishaps' # {})
    BY <1>3 DEF Deliver
  <2>2. SharedTypeOK' /\ CallsAreOfFlows' /\ Busy' = Busy /\ AsBuilt'
    BY <1>1, <1>2, <2>1, CallsUntouched DEF SharedInv, SharedTypeOK, AsBuilt
  <2>3. change.name # tab.savedName /\ (\E i \in DOMAIN news : news[i].name = tab.savedName)
        => \E i \in DOMAIN news' : news'[i].name = tab.savedName
    BY <1>1, AnnouncedBehind
  <2>4. InformedOrOnItsWay'
    BY <1>1, <2>1, <2>2, <2>3 DEF SharedInv, InformedOrOnItsWay, Informed, OnItsWay
  <2> QED
    BY <2>2, <2>4 DEF SharedInv
<1>4. CASE listener.on /\ listener.savedName = change.name /\ (change.removed \/ listener.dirty)
  <2>1. tab' = [tab EXCEPT !.external = IF change.removed THEN "removed" ELSE "changed"]
        /\ told' = TRUE /\ UNCHANGED <<calls, mishaps>>
    BY <1>4 DEF Deliver
  <2>2. tab' \in [saved: Doc, savedName: FlowName, external: {"none", "changed", "removed"}]
        /\ tab'.savedName = tab.savedName
    BY <2>1 DEF SharedInv, SharedTypeOK
  <2>3. SharedTypeOK' /\ CallsAreOfFlows' /\ AsBuilt'
    BY <1>1, <1>2, <2>1, <2>2, CallsUntouched DEF SharedInv, SharedTypeOK, AsBuilt
  <2> QED
    BY <2>1, <2>3 DEF SharedInv, InformedOrOnItsWay, Informed
<1>5. CASE listener.on /\ listener.savedName = change.name /\ ~(change.removed \/ listener.dirty)
  <2>1. PICK s \in Slot : Begin(s, LoadOf(change.name, ~isDirty))
    BY <1>5 DEF Deliver
  <2>2. mishaps' = mishaps \union Overlapping
                 \union (IF listener.savedName # tab.savedName THEN {"stale"} ELSE {})
        /\ UNCHANGED <<tab, told>>
    BY <1>5 DEF Deliver
  <2> DEFINE call == LoadOf(change.name, ~isDirty)
  <2>3. call \in Call /\ call.kind = "load" /\ call.step = "work" /\ call.name = change.name
    BY <1>2, ALoad DEF SharedInv
  <2>4. mishaps' = {} => mishaps = {} /\ Busy = {} /\ call.name = tab.savedName
    BY <1>5, <2>2, <2>3 DEF Overlapping
  <2> HIDE DEF call
  <2>5. Begin(s, call)
    BY <2>1 DEF call
  <2>6. calls' \in [Slot -> Call] /\ CallsAreOfFlows' /\ Busy' # {}
        /\ (AsBuilt /\ mishaps' = {} /\ mishaps = {} /\ Busy = {} /\ tab' = tab
              /\ (call.kind = "load" => call.name = tab.savedName) => OneAtATime' /\ LoadsTheTab')
    BY <1>2, <2>3, <2>5, Begun DEF SharedInv
  <2>7. SharedTypeOK' /\ AsBuilt'
    BY <1>1, <1>2, <2>2, <2>4, <2>6 DEF SharedInv, SharedTypeOK, AsBuilt
  <2> QED
    BY <2>6, <2>7 DEF SharedInv, InformedOrOnItsWay, OnItsWay
<1> QED
  BY <1>3, <1>4, <1>5

----------------------------------------------------------------------------
LEMMA SharedInvStarts == SharedInit => SharedInv
<1> SUFFICES ASSUME SharedInit PROVE SharedInv
  OBVIOUS
<1>1. PICK n \in FlowName : /\ disk[n] # Gone
                           /\ doc = [title |-> n, body |-> disk[n]]
                           /\ tab = [saved |-> doc, savedName |-> n, external |-> "none"]
  BY DEF SharedInit
<1>2. disk \in [FlowName -> Content] /\ news = <<>> /\ listener = Snapshot
      /\ calls = [s \in Slot |-> NoCall]
  BY DEF SharedInit
<1>3. doc \in Doc
  BY <1>1, <1>2 DEF Doc, Content
<1>4. NoDoc \in Doc
  BY <1>3 DEF NoDoc
<1>5. SharedTypeOK
  BY <1>1, <1>2, <1>3, <1>4, NoCallIsACall DEF SharedTypeOK, Snapshot, isDirty
<1>6. CallsAreOfFlows /\ AsBuilt
  BY <1>2 DEF CallsAreOfFlows, AsBuilt, OneAtATime, LoadsTheTab
<1>7. InformedOrOnItsWay
  BY <1>1 DEF InformedOrOnItsWay, Informed
<1> QED
  BY <1>5, <1>6, <1>7 DEF SharedInv

LEMMA SharedInvIsKept == SharedInv /\ [SharedNext]_sharedVars => SharedInv'
<1> SUFFICES ASSUME SharedInv, [SharedNext]_sharedVars PROVE SharedInv'
  OBVIOUS
<1>1. CASE User
  BY <1>1, EditKeeps, KeepMineKeeps, SaveKeeps, ReloadKeeps, ListedKeeps DEF User
<1>2. CASE Core
  BY <1>2, MoveKeeps, WriteKeeps, ReadKeeps, SavedKeeps, ReloadedKeeps, FailedKeeps DEF Core
<1>3. CASE Others
  BY <1>3, MeddleKeeps DEF Others
<1>4. CASE Window
  BY <1>4, LookKeeps, RerenderKeeps, DeliverKeeps DEF Window
<1>5. CASE UNCHANGED sharedVars
  BY <1>5 DEF sharedVars, diskVars, SharedInv, SharedTypeOK, CallsAreOfFlows, AsBuilt, OneAtATime,
              LoadsTheTab, InformedOrOnItsWay, Informed, OnItsWay, Busy
<1> QED
  BY <1>1, <1>2, <1>3, <1>4, <1>5 DEF SharedNext

\* Whatever the user, other processes, the watcher and the core do, in whatever
\* order: short of the mishaps, the core is asked one thing at a time of the file
\* the tab shows, and the tab knows what that file holds, or is being told.
THEOREM SharedInvariance == SharedSpec => []SharedInv
BY SharedInvStarts, SharedInvIsKept, PTL DEF SharedSpec

\* A tab never goes on from a copy its file has moved away from without having
\* said so or being about to (App.tsx: saveFlow, reloadFlowTab, the effect on
\* workspace-changed), but in the seven ways `mishaps` lists.
THEOREM NoSilentStaleCopy == SharedSpec => []InformedOrOnItsWay
<1>1. SharedInv => InformedOrOnItsWay
  BY DEF SharedInv
<1> QED
  BY <1>1, SharedInvariance, PTL

=============================================================================
