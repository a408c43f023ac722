------------------------- MODULE Application_proofs -------------------------
(***************************************************************************)
(* What the application holds of the open workspace agrees with its files, *)
(* with what it watches and with what it scanned: for any projects, any    *)
(* environments, and any number of failed writes and edits by hand.        *)
(*                                                                         *)
(* A command works on a desk and puts it back, so the argument is of       *)
(* desks: what memory says is the default is the active environment, and   *)
(* unless a save failed the file says what memory does.                    *)
(***************************************************************************)
EXTENDS Application, WellFoundedInduction, TLAPS

DeskType ==
  [active: Env \union {None}, cached: Manifest, files: [Env -> EnvFile],
   yaml: Manifest \union {None, Broken}, stray: BOOLEAN]

Sound(desk) ==
  /\ desk \in DeskType
  /\ desk.cached.default = desk.active
  /\ ~desk.stray => desk.yaml = desk.cached

Running == {None} \union [target: Target, helper: {"alive", "exited"}, held: BOOLEAN]

ApplicationTypeOK ==
  /\ manifest \in [Root -> Manifest \union {None, Broken}]
  /\ environments \in [Root -> [Env -> EnvFile]]
  /\ workspace \in Root \union {None}
  /\ active \in Env \union {None}
  /\ workspace # None => cached \in Manifest
  /\ astray \in BOOLEAN
  /\ running \in Running

\* The choice in memory; its file; and the consent a run is based on.
ChosenInMemory == workspace # None => cached.default = active
SavedAsHeld    == workspace # None /\ ~astray => manifest[workspace] = cached
RunsAsAgreed   ==
  workspace # None /\ running # None /\ cached.kind = "project" =>
    cached.target = running.target

ApplicationInv ==
  ApplicationTypeOK /\ ChosenInMemory /\ SavedAsHeld /\ RunsAsAgreed

(***************************************************************************)
(* Names.                                                                  *)
(***************************************************************************)
\* The relation the library states of the naturals is well founded; so the first
\* of some names is one of them.
LEMMA FirstIsOne ==
  ASSUME NEW names \in SUBSET Env, names # {}
  PROVE  First(names) \in names
<1>1. names \subseteq Nat
  BY ApplicationAssumption
<1>2. PICK n \in names : \A m \in names : ~ (<<m, n>> \in OpToRel(<, Nat))
  BY <1>1, NatLessThanWellFounded, WFMin
<1>3. \A m \in names : n <= m
  <2> SUFFICES ASSUME NEW m \in names PROVE ~(m < n)
    BY <1>1
  <2>1. <<m, n>> \in Nat \X Nat
    BY <1>1
  <2>2. <<m, n>>[1] < <<m, n>>[2] => <<m, n>> \in OpToRel(<, Nat)
    BY <2>1, Zenon DEF OpToRel
  <2> QED
    BY <1>2, <2>2
<1> QED
  BY <1>3 DEF First

LEMMA FreshIsAManifest ==
  ASSUME NEW kind \in Kind
  PROVE  Fresh(kind) \in Manifest /\ Fresh(kind).default = None
BY ApplicationAssumption DEF Fresh, Manifest

(***************************************************************************)
(* The steps of a command, on a desk.                                      *)
(***************************************************************************)
LEMMA SaveIsSound ==
  ASSUME NEW desk \in DeskType, desk.cached.default = desk.active, NEW faulty
  PROVE  /\ Sound(Save(desk, faulty).desk)
         /\ Save(desk, faulty).desk.cached = desk.cached
         /\ Save(desk, faulty).desk.active = desk.active
BY DEF Save, Done, Failed, Sound, DeskType

LEMMA SetActiveIsSound ==
  ASSUME NEW desk, Sound(desk), NEW name \in Env \union {None}, NEW faulty
  PROVE  Sound(SetActive(desk, name, faulty).desk)
<1> DEFINE chosen == [desk EXCEPT !.active = name]
           held   == [chosen EXCEPT !.cached.default = name]
<1>1. CASE name # None /\ desk.files[name] # "written"
  BY <1>1 DEF SetActive, Failed
<1>2. CASE ~(name # None /\ desk.files[name] # "written") /\ desk.cached.default = name
  <2>1. SetActive(desk, name, faulty).desk = chosen
    BY <1>2 DEF SetActive, Done
  <2> QED
    BY <1>2, <2>1 DEF Sound, DeskType
<1>3. CASE ~(name # None /\ desk.files[name] # "written") /\ desk.cached.default # name
  <2>1. SetActive(desk, name, faulty) = Save(held, faulty)
    BY <1>3 DEF SetActive
  <2>2. held \in DeskType /\ held.cached.default = held.active
    BY DEF Sound, DeskType, Manifest
  <2> HIDE DEF held
  <2> QED
    BY <2>1, <2>2, SaveIsSound
<1> QED
  BY <1>1, <1>2, <1>3

LEMMA EnsureIsSound ==
  ASSUME NEW desk, Sound(desk), NEW faulty
  PROVE  Sound(Ensure(desk, faulty).desk)
<1> DEFINE more == [desk EXCEPT !.files[local] = "written"]
<1>1. CASE desk.active # None
  BY <1>1 DEF Ensure, Done
<1>2. CASE desk.active = None /\ Names(desk) # {}
  <2>1. First(Names(desk)) \in Env
    BY <1>2, FirstIsOne DEF Names
  <2> QED
    BY <1>2, <2>1, SetActiveIsSound DEF Ensure
<1>3. CASE desk.active = None /\ Names(desk) = {} /\ "environment" \in faulty
  BY <1>3 DEF Ensure, Failed
<1>4. CASE desk.active = None /\ Names(desk) = {} /\ "environment" \notin faulty
  <2>1. Ensure(desk, faulty) = SetActive(more, local, faulty)
    BY <1>4 DEF Ensure
  <2>2. Sound(more)
    BY ApplicationAssumption DEF Sound, DeskType, EnvFile
  <2>3. local \in Env \union {None}
    BY ApplicationAssumption
  <2> HIDE DEF more
  <2> QED
    BY <2>1, <2>2, <2>3, SetActiveIsSound
<1> QED
  BY <1>1, <1>2, <1>3, <1>4

\* What a run is agreed to is held before anything runs.
LEMMA AgreeIsSound ==
  ASSUME NEW desk, Sound(desk), NEW target \in Target, NEW faulty
  PROVE  LET end == Agree(desk, target, faulty) IN
           /\ Sound(end.desk)
           /\ end.ok /\ end.desk.cached.kind = "project" => end.desk.cached.target = target
<1> DEFINE held == [desk EXCEPT !.cached.target = target]
<1>1. CASE desk.cached.kind = "standalone" \/ desk.cached.target = target
  <2>1. Agree(desk, target, faulty) = Done(desk)
    BY <1>1 DEF Agree
  <2> QED
    BY <1>1, <2>1 DEF Done
<1>2. CASE ~(desk.cached.kind = "standalone" \/ desk.cached.target = target)
  <2>1. Agree(desk, target, faulty) = Save(held, faulty)
    BY <1>2 DEF Agree
  <2>2. held \in DeskType /\ held.cached.default = held.active /\ held.cached.target = target
    BY DEF Sound, DeskType, Manifest
  <2> HIDE DEF held
  <2> QED
    BY <2>1, <2>2, SaveIsSound
<1> QED
  BY <1>1, <1>2

\* The open workspace, taken up by a command.
LEMMA DeskIsSound ==
  ASSUME ApplicationInv, workspace # None
  PROVE  Sound(Desk)
BY DEF ApplicationInv, ApplicationTypeOK, ChosenInMemory, SavedAsHeld, Sound, DeskType, Desk

(***************************************************************************)
(* A desk put back.                                                        *)
(***************************************************************************)
LEMMA PutBackSound ==
  ASSUME ApplicationInv, NEW r \in Root, NEW desk, Sound(desk), PutBack(r, desk),
         workspace' = r, running' \in Running,
         running' # None /\ desk.cached.kind = "project" => desk.cached.target = running'.target
  PROVE  ApplicationInv'
<1>1. ApplicationTypeOK'
  BY DEF ApplicationInv, ApplicationTypeOK, Sound, DeskType, PutBack
<1>2. ChosenInMemory'
  BY DEF Sound, PutBack, ChosenInMemory
<1>3. SavedAsHeld'
  BY DEF ApplicationInv, ApplicationTypeOK, Sound, PutBack, SavedAsHeld
<1>4. RunsAsAgreed'
  BY DEF PutBack, RunsAsAgreed
<1> QED
  BY <1>1, <1>2, <1>3, <1>4 DEF ApplicationInv

\* Nothing is running when a command has the lock, so nothing is agreed.
LEMMA SettledSound ==
  ASSUME ApplicationInv, workspace # None, Idle, NEW end, NEW faulty,
         Sound(end.desk), Settled(end, faulty)
  PROVE  ApplicationInv'
<1>1. workspace \in Root /\ workspace' = workspace /\ running' = None /\ None \in Running
  BY DEF ApplicationInv, ApplicationTypeOK, Settled, Idle, Running
<1> QED
  BY <1>1, PutBackSound DEF Settled

LEMMA SwitchSound ==
  ASSUME ApplicationInv, Idle, NEW r \in Root, NEW end, NEW faulty,
         Sound(end.desk), Switch(r, end, faulty)
  PROVE  ApplicationInv'
<1>1. workspace' = r /\ running' = None /\ None \in Running
  BY DEF Switch, Idle, Running
<1> QED
  BY <1>1, PutBackSound DEF Switch

\* A step that leaves the workspace, its memory and its files alone.
LEMMA UntouchedSound ==
  ASSUME ApplicationInv,
         UNCHANGED <<manifest, environments, workspace, cached, active, astray>>,
         running' \in Running,
         running' # None => running # None /\ running'.target = running.target
  PROVE  ApplicationInv'
BY DEF ApplicationInv, ApplicationTypeOK, ChosenInMemory, SavedAsHeld, RunsAsAgreed

\* What other hands write is off the record of what memory has on disk.
LEMMA ElsewhereSound ==
  ASSUME ApplicationInv, NEW r \in Root, NEW yaml \in Manifest \union {None, Broken},
         NEW files \in [Env -> EnvFile], Elsewhere(r, yaml, files)
  PROVE  ApplicationInv'
<1>1. UNCHANGED <<workspace, cached, active, running>>
  BY DEF Elsewhere, memory
<1>2. ApplicationTypeOK'
  BY <1>1 DEF ApplicationInv, ApplicationTypeOK, Elsewhere
<1>3. SavedAsHeld'
  BY <1>1 DEF ApplicationInv, ApplicationTypeOK, SavedAsHeld, Elsewhere
<1>4. ChosenInMemory' /\ RunsAsAgreed'
  BY <1>1 DEF ApplicationInv, ChosenInMemory, RunsAsAgreed
<1> QED
  BY <1>2, <1>3, <1>4 DEF ApplicationInv

LEMMA NothingOpenSound ==
  ASSUME ApplicationInv, UNCHANGED <<manifest, environments>>,
         workspace' = None, active' = None, astray' = FALSE, running' \in Running
  PROVE  ApplicationInv'
BY DEF ApplicationInv, ApplicationTypeOK, ChosenInMemory, SavedAsHeld, RunsAsAgreed

(***************************************************************************)
(* The commands.                                                           *)
(***************************************************************************)
LEMMA OpenSound ==
  ASSUME ApplicationInv, NEW r \in Root, OpenWorkspace(r)
  PROVE  ApplicationInv'
<1> DEFINE desk == [active |-> manifest[r].default, cached |-> manifest[r],
                    files |-> environments[r], yaml |-> manifest[r], stray |-> FALSE]
<1>1. PICK faulty : Switch(r, Ensure(desk, faulty), faulty)
  BY DEF OpenWorkspace
<1>2. Sound(desk)
  BY DEF OpenWorkspace, Readable, Manifest, ApplicationInv, ApplicationTypeOK, Sound, DeskType
<1>3. Idle
  BY DEF OpenWorkspace
<1> HIDE DEF desk
<1> QED
  BY <1>1, <1>2, <1>3, EnsureIsSound, SwitchSound

LEMMA CreateSound ==
  ASSUME ApplicationInv, NEW r \in Root, CreateWorkspace(r)
  PROVE  ApplicationInv'
<1> DEFINE desk(kind) == [active |-> None, cached |-> Fresh(kind), files |-> environments[r],
                          yaml |-> Fresh(kind), stray |-> FALSE]
<1>1. PICK kind \in Kind, faulty \in Faulty(SwitchFaults) : Switch(r, Ensure(desk(kind), faulty), faulty)
  BY DEF CreateWorkspace
<1>2. Sound(desk(kind))
  BY FreshIsAManifest DEF ApplicationInv, ApplicationTypeOK, Sound, DeskType
<1>3. Idle
  BY DEF CreateWorkspace
<1> HIDE DEF desk
<1> QED
  BY <1>1, <1>2, <1>3, EnsureIsSound, SwitchSound

LEMMA SetEnvironmentSound ==
  ASSUME ApplicationInv, NEW name \in Env \union {None}, SetEnvironment(name)
  PROVE  ApplicationInv'
<1>1. Idle /\ workspace # None
  BY DEF SetEnvironment
<1>2. PICK faulty : Settled(SetActive(Desk, name, faulty), faulty)
  BY DEF SetEnvironment
<1> QED
  BY <1>1, <1>2, DeskIsSound, SetActiveIsSound, SettledSound

LEMMA DeleteEnvironmentSound ==
  ASSUME ApplicationInv, NEW name \in Env, DeleteEnvironment(name)
  PROVE  ApplicationInv'
<1> DEFINE rest == [Desk EXCEPT !.files[name] = "missing"]
           heir == IF Names(rest) = {} THEN None ELSE First(Names(rest))
<1>1. Idle /\ workspace # None
  BY DEF DeleteEnvironment
<1>2. PICK faulty : Settled(IF active # name THEN Done(rest) ELSE SetActive(rest, heir, faulty), faulty)
  BY DEF DeleteEnvironment
<1>3. Sound(rest)
  <2>1. Sound(Desk)
    BY <1>1, DeskIsSound
  <2> QED
    BY <2>1 DEF Sound, DeskType, EnvFile
<1>4. heir \in Env \union {None}
  BY FirstIsOne DEF Names
<1> HIDE DEF rest, heir
<1>5. Sound(Done(rest).desk)
  BY <1>3 DEF Done
<1>6. Sound(SetActive(rest, heir, faulty).desk)
  BY <1>3, <1>4, SetActiveIsSound
<1> QED
  BY <1>1, <1>2, <1>5, <1>6, SettledSound

LEMMA SaveEnvironmentSound ==
  ASSUME ApplicationInv, NEW name \in Env, SaveEnvironment(name)
  PROVE  ApplicationInv'
<1>1. workspace # None /\ workspace \in Root /\ workspace' = workspace /\ running' = None
     /\ None \in Running
  BY DEF SaveEnvironment, Idle, ApplicationInv, ApplicationTypeOK, Running
<1>2. Sound([Desk EXCEPT !.files[name] = "written"])
  <2>1. Sound(Desk)
    BY <1>1, DeskIsSound
  <2> QED
    BY <2>1 DEF Sound, DeskType, EnvFile
<1> QED
  BY <1>1, <1>2, PutBackSound DEF SaveEnvironment

LEMMA RunEnrichSound ==
  ASSUME ApplicationInv, NEW target \in Target, RunEnrich(target)
  PROVE  ApplicationInv'
<1>1. Idle /\ workspace # None /\ workspace \in Root /\ workspace' = workspace
  BY DEF RunEnrich, ApplicationInv, ApplicationTypeOK
<1>2. PICK faulty :
        LET end == Agree(Desk, target, faulty) IN
          /\ PutBack(workspace, end.desk)
          /\ running' = IF end.ok THEN [target |-> target, helper |-> "alive", held |-> FALSE]
                                  ELSE None
  BY DEF RunEnrich
<1> DEFINE end == Agree(Desk, target, faulty)
<1>3. Sound(end.desk) /\ (end.ok /\ end.desk.cached.kind = "project" => end.desk.cached.target = target)
  BY <1>1, DeskIsSound, AgreeIsSound
<1>4. running' \in Running /\ (running' # None => end.ok /\ running'.target = target)
  BY <1>2 DEF Running
<1>5. PutBack(workspace, end.desk)
  BY <1>2
<1> HIDE DEF end
<1> QED
  BY <1>1, <1>3, <1>4, <1>5, PutBackSound

LEMMA RevokeSound ==
  ASSUME ApplicationInv, RevokeEnrich
  PROVE  ApplicationInv'
<1> DEFINE held == [Desk EXCEPT !.cached.target = None]
<1>1. Idle /\ workspace # None
  BY DEF RevokeEnrich
<1>2. PICK faulty : Settled(Save(held, faulty), faulty)
  BY DEF RevokeEnrich
<1>3. held \in DeskType /\ held.cached.default = held.active
  <2>1. Sound(Desk)
    BY <1>1, DeskIsSound
  <2> QED
    BY <2>1 DEF Sound, DeskType, Manifest
<1> HIDE DEF held
<1> QED
  BY <1>1, <1>2, <1>3, SaveIsSound, SettledSound

(***************************************************************************)
(* Other hands.                                                            *)
(***************************************************************************)
LEMMA EditManifestSound ==
  ASSUME ApplicationInv, NEW r \in Root, EditManifest(r)
  PROVE  ApplicationInv'
<1>1. PICK yaml \in IF Readable(r)
                      THEN {[manifest[r] EXCEPT !.allow = list] : list \in Allow}
                           \union {[manifest[r] EXCEPT !.target = None], Broken}
                      ELSE {m \in {Fresh(kind) : kind \in Kind} : manifest[r] # None} :
        Elsewhere(r, yaml, environments[r])
  BY DEF EditManifest
<1>2. yaml \in Manifest \union {None, Broken}
  <2>1. CASE Readable(r)
    BY <1>1, <2>1 DEF Readable, Manifest
  <2>2. CASE ~Readable(r)
    BY <1>1, <2>2, FreshIsAManifest
  <2> QED
    BY <2>1, <2>2
<1>3. environments[r] \in [Env -> EnvFile]
  BY DEF ApplicationInv, ApplicationTypeOK
<1> QED
  BY <1>1, <1>2, <1>3, ElsewhereSound

LEMMA EditEnvironmentSound ==
  ASSUME ApplicationInv, NEW r \in Root, NEW name \in Env, NEW file \in {"broken", "missing"},
         EditEnvironment(r, name, file)
  PROVE  ApplicationInv'
<1>1. [environments[r] EXCEPT ![name] = file] \in [Env -> EnvFile]
  BY DEF ApplicationInv, ApplicationTypeOK, EnvFile
<1>2. manifest[r] \in Manifest \union {None, Broken}
  BY DEF ApplicationInv, ApplicationTypeOK
<1> QED
  BY <1>1, <1>2, ElsewhereSound DEF EditEnvironment

LEMMA AgentOpensSound ==
  ASSUME ApplicationInv, NEW r \in Root, AgentOpens(r)
  PROVE  ApplicationInv'
<1> DEFINE found == IF Readable(r) THEN manifest[r] ELSE Fresh("project")
           before == [active |-> found.default, cached |-> found,
                      files |-> environments[r], yaml |-> found, stray |-> FALSE]
           desk  == Ensure(before, {}).desk
<1>1. Elsewhere(r, desk.yaml, desk.files)
  BY DEF AgentOpens
<1>2. found \in Manifest
  BY FreshIsAManifest, ApplicationAssumption DEF Readable
<1>3. Sound(before)
  <2> HIDE DEF found
  <2> QED
    BY <1>2 DEF Manifest, ApplicationInv, ApplicationTypeOK, Sound, DeskType
<1>4. Sound(desk)
  <2> HIDE DEF before
  <2> QED
    BY <1>3, EnsureIsSound
<1> HIDE DEF desk
<1>5. desk.yaml \in Manifest \union {None, Broken} /\ desk.files \in [Env -> EnvFile]
  BY <1>4 DEF Sound, DeskType
<1> QED
  BY <1>1, <1>5, ElsewhereSound

----------------------------------------------------------------------------
LEMMA InitSound == ApplicationInit => ApplicationInv
<1> SUFFICES ASSUME ApplicationInit PROVE ApplicationInv
  OBVIOUS
<1>1. manifest \in [Root -> Manifest \union {None, Broken}]
  BY FreshIsAManifest DEF ApplicationInit
<1> QED
  BY <1>1 DEF ApplicationInit, ApplicationInv, ApplicationTypeOK, ChosenInMemory, SavedAsHeld,
              RunsAsAgreed, EnvFile, Running

LEMMA StepsSound ==
  ASSUME ApplicationInv, [ApplicationNext]_applicationVars
  PROVE  ApplicationInv'
<1>1. CASE \E r \in Root : OpenWorkspace(r) \/ CreateWorkspace(r)
  BY <1>1, OpenSound, CreateSound
<1>2. CASE CloseWorkspace
  BY <1>2, NothingOpenSound DEF CloseWorkspace, ApplicationInv, ApplicationTypeOK
<1>3. CASE Scan
  BY <1>3, UntouchedSound DEF Scan, ApplicationInv, ApplicationTypeOK
<1>4. CASE RevokeEnrich
  BY <1>4, RevokeSound
<1>5. CASE \E name \in Env : SetEnvironment(name) \/ SaveEnvironment(name) \/ DeleteEnvironment(name)
  BY <1>5, SetEnvironmentSound, SaveEnvironmentSound, DeleteEnvironmentSound
<1>6. CASE SetEnvironment(None)
  BY <1>6, SetEnvironmentSound
<1>7. CASE \E target \in Target : RunEnrich(target)
  BY <1>7, RunEnrichSound
<1>8. CASE DropWatcher
  BY <1>8, UntouchedSound DEF DropWatcher, memory, ApplicationInv, ApplicationTypeOK
<1>9. CASE TimeOut \/ ReadHelper
  BY <1>9, UntouchedSound DEF TimeOut, ReadHelper, OnlyRunning, memory, Running
<1>10. CASE Helper
  <2>1. /\ running # None /\ running \in Running
        /\ UNCHANGED <<manifest, environments, workspace, cached, active, astray>>
    BY <1>10 DEF Helper, HelperExits, LeftoverEnds, OnlyRunning, memory, ApplicationInv,
                 ApplicationTypeOK
  <2>2. running' \in Running /\ running'.target = running.target
    BY <1>10, <2>1 DEF Helper, HelperExits, LeftoverEnds, Running
  <2> QED
    BY <2>1, <2>2, UntouchedSound
<1>11. CASE Others
  BY <1>11, EditManifestSound, AgentOpensSound, EditEnvironmentSound DEF Others
<1>12. CASE Restart
  BY <1>12, NothingOpenSound DEF Restart, Running
<1>13. CASE UNCHANGED applicationVars
  BY <1>13, UntouchedSound DEF applicationVars, memory, ApplicationInv, ApplicationTypeOK
<1> QED
  BY <1>1, <1>2, <1>3, <1>4, <1>5, <1>6, <1>7, <1>8, <1>9, <1>10, <1>11, <1>12, <1>13
  DEF ApplicationNext, Command

\* What the application holds is what the manifest says, a save that failed or
\* another hand's write apart, whatever is opened, chosen, created or deleted
\* while a scan or a run is under way.
THEOREM ApplicationInvariance == ApplicationSpec => []ApplicationInv
<1>1. ApplicationInv /\ [ApplicationNext]_applicationVars => ApplicationInv'
  BY StepsSound
<1> QED
  BY <1>1, InitSound, PTL DEF ApplicationSpec

\* What was chosen is on disk: whatever is opened, created, deleted, agreed to or
\* fails to be written, in any order, the file of the open workspace names the
\* active environment and the consent the run under way is based on, unless a
\* save failed or another hand wrote it.
THEOREM ChoicesAreKept == ApplicationSpec => []ChoicesAreOnDisk
<1>1. ApplicationInv => ChoicesAreOnDisk
  BY DEF ApplicationInv, ApplicationTypeOK, ChosenInMemory, SavedAsHeld, RunsAsAgreed,
         ChoicesAreOnDisk, Readable
<1> QED
  BY <1>1, ApplicationInvariance, PTL

(***************************************************************************)
(* The watcher and the scan.                                               *)
(***************************************************************************)
LEMMA WatchingStays ==
  ASSUME WatchesWhatIsOpen, [ApplicationNext]_applicationVars
  PROVE  WatchesWhatIsOpen'
<1>1. ASSUME NEW r, NEW end, NEW faulty, Switch(r, end, faulty)
      PROVE  WatchesWhatIsOpen'
  BY <1>1 DEF Switch, WatchesWhatIsOpen
<1>2. ASSUME UNCHANGED <<watcher, workspace, halfOpen, closing>>
      PROVE  WatchesWhatIsOpen'
  BY <1>2 DEF WatchesWhatIsOpen
<1>3. CASE \E r \in Root : OpenWorkspace(r) \/ CreateWorkspace(r)
  BY <1>1, <1>3 DEF OpenWorkspace, CreateWorkspace
<1>4. CASE CloseWorkspace \/ DropWatcher \/ Restart
  BY <1>4 DEF CloseWorkspace, DropWatcher, Restart, WatchesWhatIsOpen
<1>5. CASE Scan \/ RevokeEnrich \/ Helper \/ TimeOut \/ ReadHelper
  BY <1>2, <1>5 DEF Scan, RevokeEnrich, Settled, Helper, HelperExits, LeftoverEnds, TimeOut,
                    ReadHelper, OnlyRunning, memory, shell
<1>6. CASE \/ \E name \in Env : SetEnvironment(name) \/ SaveEnvironment(name) \/ DeleteEnvironment(name)
           \/ SetEnvironment(None)
           \/ \E target \in Target : RunEnrich(target)
  BY <1>2, <1>6 DEF SetEnvironment, SaveEnvironment, DeleteEnvironment, RunEnrich, Settled, shell
<1>7. CASE Others \/ UNCHANGED applicationVars
  BY <1>2, <1>7 DEF Others, EditManifest, EditEnvironment, AgentOpens, Elsewhere, memory, shell,
                    applicationVars
<1> QED
  BY <1>3, <1>4, <1>5, <1>6, <1>7 DEF ApplicationNext, Command

\* No change is reported of a workspace that is not open, but between the two
\* steps of a close, or after an open that failed halfway.
THEOREM WatchingWhatIsOpen == ApplicationSpec => []WatchesWhatIsOpen
<1>1. ApplicationInit => WatchesWhatIsOpen
  BY DEF ApplicationInit, WatchesWhatIsOpen
<1>2. WatchesWhatIsOpen /\ [ApplicationNext]_applicationVars => WatchesWhatIsOpen'
  BY WatchingStays
<1> QED
  BY <1>1, <1>2, PTL DEF ApplicationSpec

LEMMA ScansStay ==
  ASSUME ApplicationTypeOK, ScansAreOfTheOpenProject, [ApplicationNext]_applicationVars
  PROVE  ScansAreOfTheOpenProject'
<1>1. None \notin Root
  BY ApplicationAssumption
<1>2. ASSUME UNCHANGED <<scan, workspace, made>>
      PROVE  ScansAreOfTheOpenProject'
  BY <1>2 DEF ScansAreOfTheOpenProject
<1>3. CASE \E r \in Root : OpenWorkspace(r) \/ CreateWorkspace(r)
  BY <1>1, <1>3 DEF OpenWorkspace, CreateWorkspace, ForgetScan, Switch, ScansAreOfTheOpenProject
<1>4. CASE CloseWorkspace \/ Restart \/ Scan
  BY <1>4 DEF CloseWorkspace, ForgetScan, Restart, Scan, ScansAreOfTheOpenProject
<1>5. CASE DropWatcher \/ RevokeEnrich \/ Helper \/ TimeOut \/ ReadHelper
  BY <1>2, <1>5 DEF DropWatcher, RevokeEnrich, Settled, Helper, HelperExits, LeftoverEnds, TimeOut,
                    ReadHelper, OnlyRunning, memory
<1>6. CASE \/ \E name \in Env : SetEnvironment(name) \/ SaveEnvironment(name) \/ DeleteEnvironment(name)
           \/ SetEnvironment(None)
           \/ \E target \in Target : RunEnrich(target)
  BY <1>2, <1>6 DEF SetEnvironment, SaveEnvironment, DeleteEnvironment, RunEnrich, Settled
<1>7. CASE Others \/ UNCHANGED applicationVars
  BY <1>2, <1>7 DEF Others, EditManifest, EditEnvironment, AgentOpens, Elsewhere, memory,
                    applicationVars
<1> QED
  BY <1>3, <1>4, <1>5, <1>6, <1>7 DEF ApplicationNext, Command

\* The endpoints held are those of the open project, or of the one its workspace
\* was created over.
THEOREM ScansAreKept == ApplicationSpec => []ScansAreOfTheOpenProject
<1>1. ApplicationInit => ScansAreOfTheOpenProject
  BY DEF ApplicationInit, ScansAreOfTheOpenProject
<1>2. ApplicationTypeOK /\ ScansAreOfTheOpenProject /\ [ApplicationNext]_applicationVars
        => ScansAreOfTheOpenProject'
  BY ScansStay
<1>3. ApplicationInv => ApplicationTypeOK
  BY DEF ApplicationInv
<1> QED
  BY <1>1, <1>2, <1>3, ApplicationInvariance, PTL DEF ApplicationSpec

=============================================================================
