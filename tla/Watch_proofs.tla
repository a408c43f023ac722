----------------------------- MODULE Watch_proofs -----------------------------
(***************************************************************************)
(* Nothing another process does to a flow's file is dropped, and a rename  *)
(* keeps its flow: for any flows and bodies, any number of commands and    *)
(* changes, and wherever the application stops.                            *)
(*                                                                         *)
(* Both rest on what may still stand in a command's list of steps: what is *)
(* remembered is placed or removed next, and nothing is removed that was   *)
(* placed before.                                                          *)
(***************************************************************************)
EXTENDS Watch, SequenceTheorems, TLAPS

Steps == [do: {"remember", "place", "find", "forget", "remove"}, name: FlowName, text: Content]

\* The steps left of a command.
Orderly(s) ==
  /\ \A k \in 1..Len(s) : s[k].do = "remember" =>
       k < Len(s) /\ s[k + 1].do = "place" /\ s[k + 1].name = s[k].name
  /\ \A k \in 1..Len(s) : s[k].do = "forget" =>
       k < Len(s) /\ s[k + 1].do = "remove" /\ s[k + 1].name = s[k].name
  /\ \A j, k \in 1..Len(s) : j < k /\ s[k].do = "place" => s[j].do = "remember"
  /\ \A j, k \in 1..Len(s) : j < k /\ s[j].do = "place" /\ s[k].do = "remove" =>
       s[j].name # s[k].name

WatcherType ==
  [phase: {"idle", "collecting", "judging"}, burst: SUBSET FlowName,
   looking: FlowName \union {NoName}, there: BOOLEAN, judged: SUBSET Change]

FilesTypeOK ==
  /\ disk \in [FlowName -> Content] /\ known \in [FlowName -> Content]
  /\ remembered \in [FlowName -> Content \union {Unwritten}]
  /\ todo \in Seq(Steps) /\ Orderly(todo)
  /\ carried \in Content /\ meddled \in Nat
  /\ raised \in SUBSET FlowName /\ watcher \in WatcherType

\* A file whose events have all been dealt with is as it was told or written,
\* short of the one step that has been remembered and not yet done.
Accounted(n) ==
  \/ known[n] = disk[n] \/ remembered[n] = disk[n]
  \/ n \in raised \union watcher.burst
  \/ todo # <<>> /\ Head(todo).do \in {"place", "remove"} /\ Head(todo).name = n

AllAccounted == \A n \in FlowName \ faulty : Accounted(n)

\* Whether a file was there is still so when it is judged, or it has a new event.
LookedRightly ==
  watcher.looking # NoName =>
    /\ watcher.phase = "judging"
    /\ watcher.there = (disk[watcher.looking] # Gone) \/ watcher.looking \in raised

WatchInv == FilesTypeOK /\ AllAccounted /\ LookedRightly

\* The body a rename moves is where nothing left to do removes it, or is yet to
\* be placed.
Moving ==
  /\ todo # <<>>
  /\ \A k \in 1..Len(todo) : todo[k].do = "place" => todo[k].text = carried
  /\ \E n \in FlowName :
       /\ disk[n] = carried
       /\ \/ \E k \in 1..Len(todo) : todo[k].do = "place"
          \/ \A k \in 1..Len(todo) : todo[k].do = "remove" => todo[k].name # n

RenameInv == carried # Gone => todo # <<>> /\ (meddled = 0 => Moving)

(***************************************************************************)
(* Lists of steps.                                                         *)
(***************************************************************************)
LEMMA StepIsAStep ==
  ASSUME NEW do \in {"remember", "place", "find", "forget", "remove"}, NEW n \in FlowName,
         NEW text \in Content
  PROVE  /\ Step(do, n, text) \in Steps
         /\ Step(do, n, text).do = do /\ Step(do, n, text).name = n /\ Step(do, n, text).text = text
BY DEF Step, Steps

\* What is left after the next step.
LEMMA LeftOver ==
  ASSUME NEW s \in Seq(Steps), Orderly(s), s # <<>>
  PROVE  /\ Head(s) = s[1] /\ Head(s) \in Steps /\ Len(s) \in Nat \ {0}
         /\ Tail(s) \in Seq(Steps) /\ Len(Tail(s)) = Len(s) - 1
         /\ \A k \in 1..Len(Tail(s)) : Tail(s)[k] = s[k + 1]
         /\ Orderly(Tail(s))
<1>1. Len(s) \in Nat \ {0}
  BY EmptySeq
<1>2. /\ Head(s) \in Steps /\ Tail(s) \in Seq(Steps) /\ Len(Tail(s)) = Len(s) - 1
      /\ \A k \in 1..Len(Tail(s)) : Tail(s)[k] = s[k + 1]
  BY HeadTailProperties
<1>3. Head(s) = s[1]
  OBVIOUS
<1>4. Orderly(Tail(s))
  BY <1>1, <1>2 DEF Orderly
<1> QED
  BY <1>1, <1>2, <1>3, <1>4

\* What is remembered is placed or removed next, and of the same file.
LEMMA DoneNext ==
  ASSUME NEW s \in Seq(Steps), Orderly(s), s # <<>>, Head(s).do \in {"remember", "forget"}
  PROVE  /\ Tail(s) # <<>> /\ Head(Tail(s)).name = Head(s).name
         /\ Head(Tail(s)).do \in {"place", "remove"}
<1>1. /\ Head(s) = s[1] /\ Len(s) \in Nat \ {0}
      /\ Tail(s) \in Seq(Steps) /\ Len(Tail(s)) = Len(s) - 1
      /\ \A k \in 1..Len(Tail(s)) : Tail(s)[k] = s[k + 1]
  BY LeftOver
<1>2. 1 < Len(s) /\ s[2].name = s[1].name /\ s[2].do \in {"place", "remove"}
  BY <1>1 DEF Orderly
<1> DEFINE t == Tail(s)
<1>3. t \in Seq(Steps) /\ Len(t) >= 1 /\ t[1] = s[2]
  BY <1>1, <1>2
<1>4. t # <<>> /\ Head(t) = s[2]
  <2> HIDE DEF t
  <2> QED
    BY <1>3
<1> QED
  BY <1>1, <1>2, <1>4

LEMMA SavingIsOrderly ==
  ASSUME NEW n \in FlowName, NEW text \in Content
  PROVE  /\ SaveSteps(n, text) \in Seq(Steps) /\ Len(SaveSteps(n, text)) = 2
         /\ Orderly(SaveSteps(n, text))
BY StepIsAStep DEF SaveSteps, Orderly, Step

LEMMA DeletingIsOrderly ==
  ASSUME NEW n \in FlowName
  PROVE  /\ DeleteSteps(n) \in Seq(Steps) /\ Len(DeleteSteps(n)) = 3
         /\ Orderly(DeleteSteps(n))
<1>1. Gone \in Content
  BY DEF Content
<1> QED
  BY <1>1, StepIsAStep DEF DeleteSteps, Orderly, Step

LEMMA RenamingIsOrderly ==
  ASSUME NEW from \in FlowName, NEW to \in FlowName, disk \in [FlowName -> Content],
         NEW s, s = RenameSteps(from, to)
  PROVE  /\ s \in Seq(Steps) /\ s # <<>> /\ Orderly(s)
         /\ \E k \in 1..Len(s) : s[k].do = "place"
         /\ \A k \in 1..Len(s) : s[k].do = "place" => s[k].text = disk[from]
<1> DEFINE saving == SaveSteps(to, disk[from])
           deleting == DeleteSteps(from)
<1>1. disk[from] \in Content /\ Gone \in Content
  BY DEF Content
<1>2. saving \in Seq(Steps) /\ Len(saving) = 2 /\ Orderly(saving)
  BY <1>1, SavingIsOrderly
<1>3. deleting \in Seq(Steps) /\ Len(deleting) = 3 /\ Orderly(deleting)
  BY <1>1, DeletingIsOrderly
<1>4. /\ saving[1].do = "remember" /\ saving[1].name = to
      /\ saving[2].do = "place" /\ saving[2].name = to /\ saving[2].text = disk[from]
  BY DEF SaveSteps, Step
<1>5. /\ deleting[1].do = "find" /\ deleting[2].do = "forget" /\ deleting[3].do = "remove"
      /\ deleting[2].name = from /\ deleting[3].name = from
  BY DEF DeleteSteps, Step
<1>6. CASE from = to
  <2>1. s = saving
    <3> HIDE DEF saving
    <3>1. saving \o <<>> = saving
      BY <1>2, ConcatEmptySeq
    <3> QED
      BY <1>6, <3>1 DEF RenameSteps, saving
  <2> HIDE DEF saving
  <2>2. s \in Seq(Steps) /\ Len(s) = 2 /\ Orderly(s)
    BY <1>2, <2>1
  <2>3. s[1].do = "remember" /\ s[2].do = "place" /\ s[2].text = disk[from]
    BY <1>4, <2>1
  <2>4. s # <<>>
    BY ONLY <2>2
  <2>5. \E k \in 1..Len(s) : s[k].do = "place"
    BY ONLY <2>2, <2>3
  <2>6. \A k \in 1..Len(s) : s[k].do = "place" => s[k].text = disk[from]
    BY ONLY <2>2, <2>3
  <2> QED
    BY <2>2, <2>4, <2>5, <2>6
<1>7. CASE from # to
  <2>1. s = saving \o deleting
    BY <1>7 DEF RenameSteps
  <2> HIDE DEF saving, deleting
  <2>5. /\ s \in Seq(Steps)
        /\ Len(s) = Len(saving) + Len(deleting)
        /\ \A i \in 1 .. Len(saving) + Len(deleting) :
             s[i] = IF i <= Len(saving) THEN saving[i] ELSE deleting[i - Len(saving)]
    <3>1. saving \in Seq(Steps) /\ deleting \in Seq(Steps)
      BY <1>2, <1>3
    <3> QED
      BY ONLY <2>1, <3>1, ConcatProperties
  <2>2. /\ s \in Seq(Steps) /\ Len(s) = 5
        /\ s[1] = saving[1] /\ s[2] = saving[2]
        /\ s[3] = deleting[1] /\ s[4] = deleting[2] /\ s[5] = deleting[3]
    BY <1>2, <1>3, <2>5
  <2>3. Orderly(s)
    BY <1>4, <1>5, <1>7, <2>2 DEF Orderly
  <2>4. \A k \in 1..Len(s) : s[k].do = "place" => k = 2
    BY <1>4, <1>5, <2>2
  <2> QED
    BY <1>4, <2>1, <2>2, <2>3, <2>4
<1> QED
  BY <1>6, <1>7

(***************************************************************************)
(* The command's steps.                                                    *)
(***************************************************************************)
\* What the command that holds the lock is about to do.
LEMMA AtHand ==
  ASSUME FilesTypeOK, NEW do, Now(do)
  PROVE  /\ todo # <<>> /\ Head(todo) = todo[1] /\ Head(todo).do = do
         /\ Head(todo) \in Steps /\ Target \in FlowName /\ Head(todo).text \in Content
         /\ Left \in Seq(Steps) /\ Orderly(Left)
         /\ Len(todo) \in Nat \ {0} /\ Len(Left) = Len(todo) - 1
         /\ \A k \in 1..Len(Left) : Left[k] = todo[k + 1]
<1>1. todo \in Seq(Steps) /\ Orderly(todo) /\ todo # <<>>
  BY DEF FilesTypeOK, Now, Idle
<1> QED
  BY <1>1, LeftOver DEF Now, Target, Left, Steps

\* What is left is what was left, or nothing when the step fails.
LEMMA Advanced ==
  ASSUME FilesTypeOK, NEW do, Now(do), Done \/ Fails
  PROVE  todo' \in Seq(Steps) /\ Orderly(todo') /\ carried' \in Content
<1>1. <<>> \in Seq(Steps) /\ Orderly(<<>>)
  BY DEF Orderly
<1>2. Left \in Seq(Steps) /\ Orderly(Left)
  BY AtHand
<1>3. Gone \in Content /\ carried \in Content
  BY DEF Content, FilesTypeOK
<1> QED
  BY <1>1, <1>2, <1>3 DEF Done, Fails

LEMMA RememberAccounted ==
  ASSUME WatchInv, Remember, UNCHANGED meddled
  PROVE  WatchInv'
<1>1. Now("remember") /\ FilesTypeOK
  BY DEF Remember, WatchInv
<1>2. /\ todo # <<>> /\ Target \in FlowName /\ Head(todo).do = "remember" /\ Head(todo).text \in Content
  BY <1>1, AtHand
<1>3. UNCHANGED <<disk, known, faulty, raised, watcher>>
  BY DEF Remember, watcherVars
<1>4. CASE Done /\ remembered' = [remembered EXCEPT ![Target] = Head(todo).text]
  <2>1. Left # <<>> /\ Head(Left).name = Target /\ Head(Left).do \in {"place", "remove"}
    BY <1>1, <1>2, DoneNext DEF FilesTypeOK, Left, Target
  <2>2. AllAccounted'
    BY <1>1, <1>2, <1>3, <1>4, <2>1 DEF WatchInv, AllAccounted, Accounted, Done, FilesTypeOK, Target
  <2> QED
    BY <1>1, <1>2, <1>3, <1>4, <2>2, Advanced DEF WatchInv, FilesTypeOK, LookedRightly
<1>5. CASE Fails /\ UNCHANGED remembered
  <2>1. AllAccounted'
    BY <1>2, <1>3, <1>5 DEF WatchInv, AllAccounted, Accounted
  <2> QED
    BY <1>1, <1>2, <1>3, <1>5, <2>1, Advanced DEF WatchInv, FilesTypeOK, LookedRightly
<1> QED
  BY <1>4, <1>5 DEF Remember

LEMMA PlaceAccounted ==
  ASSUME WatchInv, Place, UNCHANGED meddled
  PROVE  WatchInv'
<1>1. Now("place") /\ FilesTypeOK
  BY DEF Place, WatchInv
<1>2. /\ todo # <<>> /\ Target \in FlowName /\ Head(todo).do = "place" /\ Head(todo).text \in Content
      /\ Head(todo).name = Target
  BY <1>1, AtHand DEF Target
<1>3. UNCHANGED <<remembered, watcher>>
  BY DEF Place
<1>4. CASE /\ Done /\ disk' = [disk EXCEPT ![Target] = Head(todo).text]
           /\ known' = [known EXCEPT ![Target] = Head(todo).text]
           /\ raised' = raised \union {Target} /\ UNCHANGED faulty
  <2>1. AllAccounted'
    BY <1>1, <1>2, <1>3, <1>4 DEF WatchInv, AllAccounted, Accounted, FilesTypeOK
  <2>2. LookedRightly'
    BY <1>1, <1>2, <1>3, <1>4 DEF WatchInv, LookedRightly, FilesTypeOK, WatcherType
  <2> QED
    BY <1>1, <1>2, <1>3, <1>4, <2>1, <2>2, Advanced DEF WatchInv, FilesTypeOK
<1>5. CASE Fails /\ faulty' = faulty \union {Target} /\ UNCHANGED <<disk, known, raised>>
  <2>1. AllAccounted'
    BY <1>2, <1>3, <1>5 DEF WatchInv, AllAccounted, Accounted
  <2> QED
    BY <1>1, <1>2, <1>3, <1>5, <2>1, Advanced DEF WatchInv, FilesTypeOK, LookedRightly
<1> QED
  BY <1>4, <1>5 DEF Place

LEMMA FindAccounted ==
  ASSUME WatchInv, Find, UNCHANGED meddled
  PROVE  WatchInv'
<1>1. Now("find") /\ FilesTypeOK
  BY DEF Find, WatchInv
<1>2. todo # <<>> /\ Target \in FlowName /\ Head(todo).do = "find" /\ Gone \in Content
  BY <1>1, AtHand DEF Content
<1>3. UNCHANGED <<disk, remembered, faulty, raised, watcher>>
  BY DEF Find, watcherVars
<1>4. (Done \/ Fails) /\ known' \in [FlowName -> Content]
      /\ \A n \in FlowName : known[n] = disk[n] => known'[n] = disk[n]
  BY <1>1, <1>2 DEF Find, FilesTypeOK
<1>5. AllAccounted'
  BY <1>2, <1>3, <1>4 DEF WatchInv, AllAccounted, Accounted
<1> QED
  BY <1>1, <1>3, <1>4, <1>5, Advanced DEF WatchInv, FilesTypeOK, LookedRightly

LEMMA ForgetAccounted ==
  ASSUME WatchInv, Forget, UNCHANGED meddled
  PROVE  WatchInv'
<1>1. Now("forget") /\ FilesTypeOK
  BY DEF Forget, WatchInv
<1>2. todo # <<>> /\ Target \in FlowName /\ Head(todo).do = "forget" /\ Gone \in Content
  BY <1>1, AtHand DEF Content
<1>3. UNCHANGED <<disk, known, faulty, raised, watcher>>
  BY DEF Forget, watcherVars
<1>4. Done /\ remembered' = [remembered EXCEPT ![Target] = Gone]
  BY DEF Forget
<1>5. Left # <<>> /\ Head(Left).name = Target /\ Head(Left).do \in {"place", "remove"}
  BY <1>1, <1>2, DoneNext DEF FilesTypeOK, Left, Target
<1>6. AllAccounted'
  BY <1>1, <1>2, <1>3, <1>4, <1>5 DEF WatchInv, AllAccounted, Accounted, Done, FilesTypeOK
<1> QED
  BY <1>1, <1>2, <1>3, <1>4, <1>6, Advanced DEF WatchInv, FilesTypeOK, LookedRightly

LEMMA RemoveAccounted ==
  ASSUME WatchInv, Remove, UNCHANGED meddled
  PROVE  WatchInv'
<1>1. Now("remove") /\ FilesTypeOK
  BY DEF Remove, WatchInv
<1>2. /\ todo # <<>> /\ Target \in FlowName /\ Head(todo).do = "remove" /\ Gone \in Content
      /\ Head(todo).name = Target
  BY <1>1, AtHand DEF Content, Target
<1>3. UNCHANGED <<remembered, watcher>>
  BY DEF Remove
<1>4. CASE /\ Done /\ disk' = [disk EXCEPT ![Target] = Gone] /\ raised' = raised \union {Target}
           /\ known' = [known EXCEPT ![Target] = Gone] /\ UNCHANGED faulty
  <2>1. AllAccounted'
    BY <1>1, <1>2, <1>3, <1>4 DEF WatchInv, AllAccounted, Accounted, FilesTypeOK
  <2>2. LookedRightly'
    BY <1>1, <1>2, <1>3, <1>4 DEF WatchInv, LookedRightly, FilesTypeOK, WatcherType
  <2> QED
    BY <1>1, <1>2, <1>3, <1>4, <2>1, <2>2, Advanced DEF WatchInv, FilesTypeOK
<1>5. CASE /\ disk[Target] = Gone /\ Fails /\ known' = [known EXCEPT ![Target] = Gone]
           /\ UNCHANGED <<disk, raised, faulty>>
  <2>1. AllAccounted'
    BY <1>1, <1>2, <1>3, <1>5 DEF WatchInv, AllAccounted, Accounted, FilesTypeOK
  <2> QED
    BY <1>1, <1>2, <1>3, <1>5, <2>1, Advanced DEF WatchInv, FilesTypeOK, LookedRightly
<1>6. CASE Fails /\ faulty' = faulty \union {Target} /\ UNCHANGED <<disk, raised, known>>
  <2>1. AllAccounted'
    BY <1>2, <1>3, <1>6 DEF WatchInv, AllAccounted, Accounted
  <2> QED
    BY <1>1, <1>2, <1>3, <1>6, <2>1, Advanced DEF WatchInv, FilesTypeOK, LookedRightly
<1> QED
  BY <1>4, <1>5, <1>6 DEF Remove

(***************************************************************************)
(* Commands, other processes, the watcher, and a new start.                *)
(***************************************************************************)
LEMMA CommandAccounted ==
  ASSUME WatchInv, Command
  PROVE  WatchInv'
<1>1. Idle /\ UNCHANGED <<disk, remembered, known, faulty, raised, watcher, meddled>>
  BY DEF Command, Save, Delete, Rename, watcherVars
<1>2. todo' \in Seq(Steps) /\ Orderly(todo') /\ carried' \in Content
  <2>1. CASE \E n \in FlowName, text \in Body : Save(n, text)
    BY <2>1, SavingIsOrderly DEF Save, Content, WatchInv, FilesTypeOK
  <2>2. CASE \E n \in FlowName : Delete(n)
    BY <2>2, DeletingIsOrderly DEF Delete, WatchInv, FilesTypeOK
  <2>3. CASE \E from, to \in FlowName : Rename(from, to)
    <3>1. PICK from \in FlowName, to \in FlowName : Rename(from, to)
      BY <2>3
    <3>2. disk \in [FlowName -> Content]
      BY DEF WatchInv, FilesTypeOK
    <3>3. CASE Fails
      BY <3>3 DEF Fails, Orderly, Content
    <3>4. CASE todo' = RenameSteps(from, to) /\ carried' = disk[from]
      BY <3>2, <3>4, RenamingIsOrderly
    <3> QED
      BY <3>1, <3>3, <3>4 DEF Rename
  <2> QED
    BY <2>1, <2>2, <2>3 DEF Command
<1>3. AllAccounted'
  BY <1>1 DEF WatchInv, AllAccounted, Accounted, Idle
<1> QED
  BY <1>1, <1>2, <1>3 DEF WatchInv, FilesTypeOK, LookedRightly

LEMMA MeddleAccounted ==
  ASSUME WatchInv, NEW n \in FlowName, NEW content \in Content, Meddle(n, content)
  PROVE  WatchInv'
<1>1. AllAccounted'
  BY DEF WatchInv, AllAccounted, Accounted, Meddle, FilesTypeOK
<1>2. LookedRightly'
  BY DEF WatchInv, LookedRightly, Meddle, FilesTypeOK, WatcherType
<1>3. FilesTypeOK'
  BY DEF WatchInv, Meddle, FilesTypeOK
<1> QED
  BY <1>1, <1>2, <1>3 DEF WatchInv

LEMMA NoticeAccounted ==
  ASSUME WatchInv, Notice, UNCHANGED meddled
  PROVE  WatchInv'
<1>1. watcher \in WatcherType /\ raised \in SUBSET FlowName /\ FilesTypeOK
  BY DEF WatchInv, FilesTypeOK
<1>2. UNCHANGED <<disk, remembered, todo, carried, faulty>>
  BY DEF Notice, Collect, Look, Settle, Judge, Rest, Report, fileVars
<1>3. CASE \E n \in FlowName : Collect(n)
  <2>1. PICK n \in FlowName : Collect(n)
    BY <1>3
  <2>2. /\ watcher' \in WatcherType /\ watcher'.burst = watcher.burst \union {n}
        /\ watcher'.looking = watcher.looking /\ raised' = raised \ {n}
        /\ watcher.phase # "judging" /\ known' = known
    BY <1>1, <2>1 DEF Collect, WatcherType, fileVars
  <2>3. AllAccounted'
    BY <1>2, <2>2 DEF WatchInv, AllAccounted, Accounted
  <2> QED
    BY <1>1, <1>2, <2>2, <2>3 DEF WatchInv, FilesTypeOK, LookedRightly
<1>4. CASE \E n \in FlowName : Look(n)
  BY <1>1, <1>2, <1>4 DEF Look, fileVars, WatchInv, FilesTypeOK, AllAccounted, Accounted, LookedRightly,
                    WatcherType
<1>5. CASE Settle
  BY <1>1, <1>2, <1>5 DEF Settle, fileVars, WatchInv, FilesTypeOK, AllAccounted, Accounted, LookedRightly,
                    WatcherType
<1>6. CASE Judge
  <2> DEFINE n == watcher.looking
  <2>1. n \in FlowName /\ watcher.there \in BOOLEAN /\ UNCHANGED raised
    BY <1>1, <1>6 DEF Judge, WatcherType
  <2>2. /\ watcher' \in WatcherType /\ watcher'.looking = NoName
        /\ watcher'.burst = watcher.burst \ {n}
    <3>1. [name |-> n, removed |-> ~watcher.there] \in Change
      BY <2>1 DEF Change
    <3>2. PICK judged \in SUBSET Change :
            watcher' = [watcher EXCEPT !.looking = NoName, !.there = FALSE, !.burst = @ \ {n},
                                       !.judged = judged]
      BY <1>1, <1>6, <3>1 DEF Judge, WatcherType
    <3> QED
      BY <1>1, <3>2 DEF WatcherType
  <2>3. /\ known' \in [FlowName -> Content]
        /\ \A m \in FlowName : m # n => known'[m] = known[m]
    BY <1>1, <1>6, <2>1 DEF Judge, FilesTypeOK
  <2>4. known'[n] = disk[n] \/ remembered[n] = disk[n] \/ n \in raised
    <3>1. CASE Ours(n, ~watcher.there)
      BY <2>1, <3>1, <1>6 DEF Judge, Ours, WatchInv, LookedRightly
    <3>2. CASE ~Ours(n, ~watcher.there)
      BY <1>1, <1>6, <2>1, <3>2 DEF Judge, FilesTypeOK
    <3> QED
      BY <3>1, <3>2
  <2> HIDE DEF n
  <2>5. AllAccounted'
    BY <1>2, <2>1, <2>2, <2>3, <2>4 DEF WatchInv, AllAccounted, Accounted
  <2> QED
    BY <1>1, <1>2, <2>1, <2>2, <2>3, <2>5 DEF WatchInv, FilesTypeOK, LookedRightly
<1>7. CASE Rest
  BY <1>1, <1>2, <1>7 DEF Rest, Looked, Resting, fileVars, WatchInv, FilesTypeOK, AllAccounted, Accounted,
                    LookedRightly, WatcherType
<1>8. CASE \E change \in Change : Report(change)
  BY <1>1, <1>2, <1>8 DEF Report, Looked, fileVars, WatchInv, FilesTypeOK, AllAccounted, Accounted,
                    LookedRightly, WatcherType
<1> QED
  BY <1>3, <1>4, <1>5, <1>6, <1>7, <1>8 DEF Notice

LEMMA Started ==
  ASSUME disk \in [FlowName -> Content], meddled \in Nat,
         remembered = [n \in FlowName |-> Unwritten], todo = <<>>,
         raised = {}, watcher = Resting, known = disk, carried = Gone
  PROVE  WatchInv
BY DEF WatchInv, FilesTypeOK, AllAccounted, Accounted, LookedRightly, Resting, WatcherType, Orderly,
       Content

LEMMA RestartAccounted ==
  ASSUME WatchInv, Restart
  PROVE  WatchInv'
<1>1. disk' \in [FlowName -> Content] /\ meddled' \in Nat
  BY DEF Restart, WatchInv, FilesTypeOK
<1> QED
  BY <1>1 DEF Restart, WatchInv, FilesTypeOK, AllAccounted, Accounted, LookedRightly, Resting, WatcherType,
              Orderly, Content

LEMMA AccountsStay ==
  ASSUME WatchInv, [WatchNext]_watchVars
  PROVE  WatchInv'
<1>1. CASE Working
  BY <1>1, RememberAccounted, PlaceAccounted, FindAccounted, ForgetAccounted, RemoveAccounted
  DEF Working, Work
<1>2. CASE Others
  BY <1>2, MeddleAccounted DEF Others
<1>3. CASE UNCHANGED watchVars
  BY <1>3 DEF watchVars, fileVars, watcherVars, WatchInv, FilesTypeOK, AllAccounted, Accounted,
              LookedRightly
<1> QED
  BY <1>1, <1>2, <1>3, CommandAccounted, NoticeAccounted, RestartAccounted DEF WatchNext, Watching

(***************************************************************************)
(* The body a rename moves.                                                *)
(***************************************************************************)
\* A step that fails, or that was the last, moves nothing any more; one that
\* changes nothing of the file, and was not the placing, moves the same.
LEMMA MovingOn ==
  ASSUME FilesTypeOK, RenameInv, NEW do, Now(do), do # "place", Done \/ Fails,
         UNCHANGED meddled,
         disk' = disk \/ (do = "remove" /\ disk' = [disk EXCEPT ![Target] = Gone])
  PROVE  RenameInv'
<1> SUFFICES ASSUME carried' # Gone PROVE todo' # <<>> /\ (meddled' = 0 => Moving')
  BY DEF RenameInv
<1>1. todo' = Left /\ carried' = carried /\ todo' # <<>>
  BY DEF Done, Fails
<1>2. /\ todo # <<>> /\ Head(todo) = todo[1] /\ todo[1].do = do
      /\ Len(todo) \in Nat \ {0} /\ Len(Left) = Len(todo) - 1
      /\ \A k \in 1..Len(Left) : Left[k] = todo[k + 1]
      /\ Target = todo[1].name
  BY AtHand DEF Target
<1> SUFFICES ASSUME meddled' = 0 PROVE Moving'
  BY <1>1
<1>3. Moving
  BY <1>1 DEF RenameInv
<1>4. \A k \in 1..Len(Left) : Left[k].do = "place" => Left[k].text = carried
  BY <1>2, <1>3 DEF Moving
<1>5. PICK n \in FlowName :
        /\ disk[n] = carried
        /\ \/ \E k \in 1..Len(todo) : todo[k].do = "place"
           \/ \A k \in 1..Len(todo) : todo[k].do = "remove" => todo[k].name # n
  BY <1>3 DEF Moving
<1>6. CASE \E k \in 1..Len(todo) : todo[k].do = "place"
  <2>1. PICK k \in 1..Len(todo) : todo[k].do = "place"
    BY <1>6
  <2>2. k # 1 /\ do = "remember"
    BY <1>2, <2>1 DEF FilesTypeOK, Orderly
  <2>3. k - 1 \in 1..Len(Left) /\ Left[k - 1].do = "place"
    BY <1>2, <2>1, <2>2
  <2> QED
    BY <1>1, <1>4, <1>5, <2>2, <2>3 DEF Moving
<1>7. CASE \A k \in 1..Len(todo) : todo[k].do = "remove" => todo[k].name # n
  <2>1. \A k \in 1..Len(Left) : Left[k].do = "remove" => Left[k].name # n
    BY <1>2, <1>7
  <2>2. disk'[n] = carried
    BY <1>2, <1>5, <1>7 DEF FilesTypeOK
  <2> QED
    BY <1>1, <1>4, <2>1, <2>2 DEF Moving
<1> QED
  BY <1>5, <1>6, <1>7

\* What has been placed is not removed by what is left.
LEMMA Placed ==
  ASSUME FilesTypeOK, RenameInv, Place, UNCHANGED meddled
  PROVE  RenameInv'
<1> SUFFICES ASSUME carried' # Gone PROVE todo' # <<>> /\ (meddled' = 0 => Moving')
  BY DEF RenameInv
<1>1. Now("place")
  BY DEF Place
<1>2. /\ todo # <<>> /\ Head(todo) = todo[1] /\ todo[1].do = "place"
      /\ Len(todo) \in Nat \ {0} /\ Len(Left) = Len(todo) - 1
      /\ \A k \in 1..Len(Left) : Left[k] = todo[k + 1]
      /\ Target = todo[1].name /\ Target \in FlowName
  BY <1>1, AtHand DEF Target
<1>3. /\ todo' = Left /\ carried' = carried /\ todo' # <<>>
      /\ disk' = [disk EXCEPT ![Target] = Head(todo).text]
  BY DEF Place, Done, Fails
<1> SUFFICES ASSUME meddled' = 0 PROVE Moving'
  BY <1>3
<1>4. Moving
  BY <1>3 DEF RenameInv
<1>5. disk'[Target] = carried
  BY <1>2, <1>3, <1>4 DEF Moving, FilesTypeOK
<1>6. \A k \in 1..Len(Left) : Left[k].do = "remove" => Left[k].name # Target
  BY <1>2 DEF FilesTypeOK, Orderly
<1>7. \A k \in 1..Len(Left) : Left[k].do = "place" => Left[k].text = carried
  BY <1>2, <1>4 DEF Moving
<1> QED
  BY <1>2, <1>3, <1>5, <1>6, <1>7 DEF Moving

LEMMA RenameStays ==
  ASSUME FilesTypeOK, RenameInv, [WatchNext]_watchVars
  PROVE  RenameInv'
<1>1. CASE Command
  <2>1. Idle /\ UNCHANGED <<disk, meddled>> /\ carried = Gone
    BY <1>1 DEF Command, Save, Delete, Rename, watcherVars, RenameInv, Idle
  <2>2. CASE carried' = Gone
    BY <2>2 DEF RenameInv
  <2>3. CASE \E from, to \in FlowName : todo' = RenameSteps(from, to) /\ carried' = disk[from]
    <3>1. PICK from \in FlowName, to \in FlowName :
            todo' = RenameSteps(from, to) /\ carried' = disk[from]
      BY <2>3
    <3> DEFINE s == RenameSteps(from, to)
    <3>2. /\ s # <<>>
          /\ \E k \in 1..Len(s) : s[k].do = "place"
          /\ \A k \in 1..Len(s) : s[k].do = "place" => s[k].text = disk[from]
      BY RenamingIsOrderly DEF FilesTypeOK
    <3>3. /\ todo' # <<>>
          /\ \E k \in 1..Len(todo') : todo'[k].do = "place"
          /\ \A k \in 1..Len(todo') : todo'[k].do = "place" => todo'[k].text = disk[from]
      BY <3>1, <3>2
    <3> HIDE DEF s
    <3> QED
      BY <2>1, <3>1, <3>3 DEF RenameInv, Moving
  <2> QED
    BY <1>1, <2>1, <2>2, <2>3 DEF Command, Save, Delete, Rename, Fails
<1>2. CASE Working
  <2>1. UNCHANGED meddled
    BY <1>2 DEF Working
  <2>2. CASE Remember
    BY <2>1, <2>2, MovingOn DEF Remember
  <2>3. CASE Place
    BY <2>1, <2>3, Placed
  <2>4. CASE Find
    BY <2>1, <2>4, MovingOn DEF Find
  <2>5. CASE Forget
    BY <2>1, <2>5, MovingOn DEF Forget
  <2>6. CASE Remove
    BY <2>1, <2>6, MovingOn DEF Remove
  <2> QED
    BY <1>2, <2>2, <2>3, <2>4, <2>5, <2>6 DEF Working, Work
<1>3. CASE Others
  BY <1>3 DEF Others, Meddle, RenameInv, FilesTypeOK
<1>4. CASE Watching \/ UNCHANGED watchVars
  <2>1. UNCHANGED <<disk, todo, carried, meddled>>
    BY <1>4 DEF Watching, Notice, Collect, Look, Settle, Judge, Rest, Report, fileVars, watchVars
  <2> QED
    BY <2>1 DEF RenameInv, Moving
<1>5. CASE Restart
  BY <1>5 DEF Restart, RenameInv
<1> QED
  BY <1>1, <1>2, <1>3, <1>4, <1>5 DEF WatchNext

----------------------------------------------------------------------------
\* Whatever commands, other processes and restarts do to the flow files, in whatever
\* order: what the watcher has not announced is the application's own, or is still
\* to be looked at, and a flow being renamed is in one of its two files.
THEOREM WatchInvariance == WatchSpec => [](WatchInv /\ RenameInv)
<1>1. WatchInit => WatchInv /\ RenameInv
  <2> SUFFICES ASSUME WatchInit PROVE WatchInv /\ RenameInv
    OBVIOUS
  <2> QED
    BY Started DEF WatchInit, RenameInv
<1>2. WatchInv /\ RenameInv /\ [WatchNext]_watchVars => (WatchInv /\ RenameInv)'
  BY AccountsStay, RenameStays DEF WatchInv
<1> QED
  BY <1>1, <1>2, PTL DEF WatchSpec

\* Whatever other processes write, whenever, between two steps of a command or
\* while the watcher looks through a burst: once all events have been dealt with,
\* a file the application was not told of is exactly as it last wrote it, short
\* of one it failed to change.
THEOREM OnlyItsOwnIsDropped == WatchSpec => []DropsOnlyItsOwnContent
<1>1. WatchInv => DropsOnlyItsOwnContent
  BY DEF WatchInv, AllAccounted, Accounted, DropsOnlyItsOwnContent, Quiet, Idle, Resting
<1> QED
  BY <1>1, WatchInvariance, PTL

\* A rename is at no step without its flow on disk, wherever it fails or is
\* stopped, when nobody else writes.
THEOREM RenamesKeepFlows == WatchSpec => []RenamesKeepTheFlow
<1>1. RenameInv => RenamesKeepTheFlow
  BY DEF RenameInv, Moving, RenamesKeepTheFlow
<1> QED
  BY <1>1, WatchInvariance, PTL

=============================================================================
