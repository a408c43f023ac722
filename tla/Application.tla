---------------------------- MODULE Application ----------------------------
(***************************************************************************)
(* RouteLogic (rl-core) under the desktop shell: which workspace is open,  *)
(* what is held of it in memory, and what is in its files.                 *)
(*                                                                         *)
(* Every command holds the application lock from its first read to its     *)
(* answer, so a command is one step; the exceptions are closing, which     *)
(* drops the watcher after the lock, and a runtime enrich, which holds it  *)
(* while the project's own code runs.  Files are also written by hand and  *)
(* by an agent's server, at any time.  Writes may fail; the program may    *)
(* end.                                                                    *)
(***************************************************************************)
EXTENDS Naturals, FiniteSets

CONSTANTS
  Root,               \* Project directories
  Kind,               \* What a workspace is created as
  Env, local,         \* Environment names, numbered as they sort; the one made
  Target,             \* Application objects a developer may agree to run
  Allow,              \* Contents of the agent allow list, the first of them none
  MaxEdits, MaxFaults,   \* Bounds
  None,
  Broken              \* A workspace.yaml that does not parse

ASSUME ApplicationAssumption ==
  /\ Env \subseteq Nat /\ local \in Env /\ IsFiniteSet(Env)
  /\ "project" \in Kind /\ Kind \subseteq {"project", "standalone"} /\ 0 \in Allow
  /\ MaxEdits \in Nat /\ MaxFaults \in Nat
  /\ None \notin Env \union Target \union Root

VARIABLES
  manifest,      \* workspace.yaml of each root
  environments,  \* The environment files of each root
  workspace,     \* The open root
  cached,        \* The manifest as read when it was opened
  active,        \* active_environment
  scan,          \* last_scan, by the root it is of; its content, and last_enrich, which
                 \* nobody reads, are left out
  watcher,       \* The root that is watched
  closing,       \* A close has released the lock and not yet dropped the watcher
  running,       \* The helper of a runtime enrich, and its pipe
  edits, faults,
  astray,        \* The open manifest may differ from its file: a save failed, or
                 \* another hand wrote the file
  halfOpen,      \* The last open failed after it had switched workspaces
  made           \* The open workspace was created, not opened

memory == <<workspace, cached, active, scan>>
shell  == <<watcher, closing>>
counts == <<edits, faults>>
applicationVars ==
  <<manifest, environments, memory, shell, running, counts, astray, halfOpen, made>>

Manifest == [kind: Kind, default: Env \union {None}, target: Target \union {None}, allow: Allow]
Fresh(kind) == [kind |-> kind, default |-> None, target |-> None, allow |-> 0]

EnvFile == {"missing", "broken", "written"}

Readable(r) == manifest[r] \in Manifest

\* The lock is free.
Idle == running = None

First(names) == CHOOSE n \in names : \A m \in names : n <= m

(***************************************************************************)
(* The open workspace, on and off disk, through the steps of a command.    *)
(* faulty: what this command fails to write.                               *)
(***************************************************************************)
Desk == [active |-> active, cached |-> cached, files |-> environments[workspace],
         yaml |-> manifest[workspace], stray |-> astray]

Done(desk)   == [ok |-> TRUE, desk |-> desk]
Failed(desk) == [ok |-> FALSE, desk |-> desk]

Names(desk) == {e \in Env : desk.files[e] # "missing"}

\* Mutation: what cannot be saved is not kept in memory either, and passes.
SaveOrForget(desk, faulty) ==
  IF "manifest" \in faulty THEN Done([desk EXCEPT !.cached = desk.yaml])
    ELSE Done([desk EXCEPT !.yaml = desk.cached, !.stray = FALSE])

\* Workspace::save writes the whole manifest as it is in memory.
Save(desk, faulty) ==
  IF "manifest" \in faulty THEN Failed([desk EXCEPT !.stray = TRUE])
    ELSE Done([desk EXCEPT !.yaml = desk.cached, !.stray = FALSE])

\* set_active_environment: in memory first, on disk if it is another default.
SetActive(desk, name, faulty) ==
  LET chosen == [desk EXCEPT !.active = name] IN
    IF name # None /\ desk.files[name] # "written" THEN Failed(desk)
    ELSE IF desk.cached.default = name THEN Done(chosen)
    ELSE Save([chosen EXCEPT !.cached.default = name], faulty)

\* ensure_an_environment: there is always one, the first there is or `local`.
Ensure(desk, faulty) ==
  IF desk.active # None THEN Done(desk)
  ELSE IF Names(desk) # {} THEN SetActive(desk, First(Names(desk)), faulty)
  ELSE IF "environment" \in faulty THEN Failed(desk)
  ELSE SetActive([desk EXCEPT !.files[local] = "written"], local, faulty)

\* What a command may fail at, and the account of it.
Faulty(kinds) == {f \in SUBSET kinds : f = {} \/ faults < MaxFaults}
Blame(faulty) == faults' = IF faulty = {} THEN faults ELSE faults + 1

\* A command leaves root r as `desk` has it.
PutBack(r, desk) ==
  /\ active' = desk.active /\ cached' = desk.cached /\ astray' = desk.stray
  /\ environments' = [environments EXCEPT ![r] = desk.files]
  /\ manifest' = [manifest EXCEPT ![r] = desk.yaml]

(***************************************************************************)
(* Opening, creating, closing.                                             *)
(***************************************************************************)
\* The shell watches what has been opened, if it can, and keeps the old watcher
\* when the command failed.
Switch(r, end, faulty) ==
  LET ok == end.ok /\ "info" \notin faulty IN
  /\ workspace' = r
  /\ PutBack(r, end.desk)
  /\ halfOpen' = ~ok
  /\ watcher' = IF ~ok THEN watcher ELSE IF "watch" \in faulty THEN None ELSE r
  /\ Blame(faulty)
  /\ UNCHANGED <<closing, running, edits>>

\* Mutation: what was found in one project is kept for the next.
KeepScan == UNCHANGED scan

ForgetScan == scan' = None

SwitchFaults == {"environment", "manifest", "info", "watch"}

OpenWorkspace(r) ==
  /\ Idle /\ Readable(r)
  /\ \E faulty \in Faulty(SwitchFaults) :
       Switch(r,
         Ensure([active |-> manifest[r].default, cached |-> manifest[r],
                 files |-> environments[r], yaml |-> manifest[r], stray |-> FALSE], faulty),
         faulty)
  /\ ForgetScan /\ made' = FALSE

\* The scan of the workspace that was open stays.
CreateWorkspace(r) ==
  /\ Idle /\ manifest[r] = None
  /\ \E kind \in Kind, faulty \in Faulty(SwitchFaults) :
       Switch(r,
         Ensure([active |-> None, cached |-> Fresh(kind), files |-> environments[r],
                 yaml |-> Fresh(kind), stray |-> FALSE], faulty),
         faulty)
  /\ made' = TRUE
  /\ UNCHANGED scan

CloseWorkspace ==
  /\ Idle
  /\ workspace' = None /\ cached' = None /\ active' = None /\ ForgetScan
  /\ closing' = TRUE /\ astray' = FALSE /\ halfOpen' = FALSE /\ made' = FALSE
  /\ UNCHANGED <<manifest, environments, watcher, running, counts>>

\* Mutation: the watcher is only dropped with its workspace.
KeepWatching ==
  /\ closing /\ closing' = FALSE
  /\ watcher' = IF workspace = None THEN watcher ELSE None
  /\ UNCHANGED <<manifest, environments, memory, running, counts, astray, halfOpen, made>>

DropWatcher ==
  /\ closing /\ closing' = FALSE
  /\ watcher' = None
  /\ UNCHANGED <<manifest, environments, memory, running, counts, astray, halfOpen, made>>

(***************************************************************************)
(* Environments.                                                           *)
(***************************************************************************)
Settled(end, faulty) ==
  /\ PutBack(workspace, end.desk)
  /\ Blame(faulty)
  /\ UNCHANGED <<workspace, scan, shell, running, edits, halfOpen, made>>

SetEnvironment(name) ==
  /\ Idle /\ workspace # None
  /\ \E faulty \in Faulty({"manifest"}) : Settled(SetActive(Desk, name, faulty), faulty)

\* If it was active, the first remaining one takes over, or none.
DeleteEnvironment(name) ==
  LET rest == [Desk EXCEPT !.files[name] = "missing"] IN
  /\ Idle /\ workspace # None /\ environments[workspace][name] # "missing"
  /\ \E faulty \in Faulty({"manifest"}) :
       Settled(IF active # name THEN Done(rest)
               ELSE SetActive(rest, IF Names(rest) = {} THEN None ELSE First(Names(rest)), faulty),
               faulty)

SaveEnvironment(name) ==
  /\ Idle /\ workspace # None
  /\ edits < MaxEdits /\ edits' = edits + 1
  /\ PutBack(workspace, [Desk EXCEPT !.files[name] = "written"])
  /\ UNCHANGED <<workspace, scan, shell, running, faults, halfOpen, made>>

(***************************************************************************)
(* Scanning and enriching.                                                 *)
(***************************************************************************)
\* The base URL a scan may write to the active environment is content, which the
\* files here have none of.
Scan ==
  /\ Idle /\ workspace # None /\ cached.kind = "project"
  /\ scan' = workspace
  /\ UNCHANGED <<manifest, environments, workspace, cached, active, shell, running, counts, astray,
                 halfOpen, made>>

\* The standing consent, recorded before anything runs; a standalone workspace
\* has no place for it.
Agree(desk, target, faulty) ==
  IF desk.cached.kind = "standalone" \/ desk.cached.target = target THEN Done(desk)
  ELSE Save([desk EXCEPT !.cached.target = target], faulty)

RunEnrich(target) ==
  /\ Idle /\ workspace # None /\ scan # None
  /\ \E faulty \in Faulty({"manifest"}) :
       LET end == Agree(Desk, target, faulty) IN
         /\ PutBack(workspace, end.desk)
         /\ running' = IF end.ok THEN [target |-> target, helper |-> "alive", held |-> FALSE]
                                 ELSE None
         /\ Blame(faulty)
  /\ UNCHANGED <<workspace, scan, shell, edits, halfOpen, made>>

OnlyRunning ==
  UNCHANGED <<manifest, environments, memory, shell, counts, astray, halfOpen, made>>

\* The helper ends, and may leave a process of its own behind that has its
\* output pipes open.
HelperExits ==
  /\ running # None /\ running.helper = "alive"
  /\ \E held \in BOOLEAN : running' = [running EXCEPT !.helper = "exited", !.held = held]
  /\ OnlyRunning

LeftoverEnds ==
  /\ running # None /\ running.held
  /\ running' = [running EXCEPT !.held = FALSE]
  /\ OnlyRunning

\* Mutation: the helper is asked whether it is done, and never told.
Expired == FALSE

\* run: a helper that takes longer than the timeout is killed.
Overdue == running.helper = "alive"

TimeOut ==
  /\ running # None /\ Overdue
  /\ running' = None
  /\ OnlyRunning

\* Once the helper has ended and its pipes are at their end, the readers are
\* joined: an error, or what it said is merged into the endpoints of the scan.
ReadHelper ==
  /\ running # None /\ running.helper = "exited" /\ ~running.held
  /\ running' = None
  /\ OnlyRunning

RevokeEnrich ==
  /\ Idle /\ workspace # None /\ cached.target # None
  /\ \E faulty \in Faulty({"manifest"}) :
       Settled(Save([Desk EXCEPT !.cached.target = None], faulty), faulty)

(***************************************************************************)
(* Other hands.                                                            *)
(***************************************************************************)
Elsewhere(r, yaml, files) ==
  /\ manifest' = [manifest EXCEPT ![r] = yaml]
  /\ environments' = [environments EXCEPT ![r] = files]
  /\ astray' = (astray \/ (r = workspace /\ yaml # manifest[r]))
  /\ UNCHANGED <<memory, shell, running, faults, halfOpen, made>>

\* workspace.yaml in an editor: another allow list, the consent withdrawn, a
\* mistake made; a mistake corrected.
EditManifest(r) ==
  /\ edits < MaxEdits /\ edits' = edits + 1
  /\ \E yaml \in IF Readable(r)
                   THEN {[manifest[r] EXCEPT !.allow = list] : list \in Allow}
                        \union {[manifest[r] EXCEPT !.target = None], Broken}
                   ELSE {m \in {Fresh(kind) : kind \in Kind} : manifest[r] # None} :
       yaml # manifest[r] /\ Elsewhere(r, yaml, environments[r])

\* An environment's file is edited into something that does not parse, or gone.
EditEnvironment(r, name, file) ==
  /\ edits < MaxEdits /\ edits' = edits + 1
  /\ environments[r][name] \notin {"missing", file}
  /\ Elsewhere(r, manifest[r], [environments[r] EXCEPT ![name] = file])

\* An agent's server opens the workspace for itself, or makes one.
AgentOpens(r) ==
  /\ Readable(r) \/ manifest[r] = None
  /\ edits < MaxEdits /\ edits' = edits + 1
  /\ LET found == IF Readable(r) THEN manifest[r] ELSE Fresh("project")
         desk  == Ensure([active |-> found.default, cached |-> found,
                          files |-> environments[r], yaml |-> found, stray |-> FALSE], {}).desk
     IN Elsewhere(r, desk.yaml, desk.files)

\* The program ends, by hand or not, and starts again with nothing open.
Restart ==
  /\ workspace' = None /\ cached' = None /\ active' = None /\ scan' = None 
  /\ watcher' = None /\ closing' = FALSE /\ running' = None
  /\ astray' = FALSE /\ halfOpen' = FALSE /\ made' = FALSE
  /\ UNCHANGED <<manifest, environments, counts>>

----------------------------------------------------------------------------
ApplicationInit ==
  /\ manifest \in [Root -> {None} \union {Fresh(kind) : kind \in Kind}]
  /\ environments = [r \in Root |-> [e \in Env |-> "missing"]]
  /\ workspace = None /\ cached = None /\ active = None
  /\ scan = None /\ watcher = None /\ closing = FALSE /\ running = None
  /\ edits = 0 /\ faults = 0
  /\ astray = FALSE /\ halfOpen = FALSE /\ made = FALSE

Command ==
  \/ \E r \in Root : OpenWorkspace(r) \/ CreateWorkspace(r)
  \/ CloseWorkspace \/ Scan \/ RevokeEnrich
  \/ \E name \in Env : SetEnvironment(name) \/ SaveEnvironment(name) \/ DeleteEnvironment(name)
  \/ SetEnvironment(None)
  \/ \E target \in Target : RunEnrich(target)

Helper == HelperExits \/ LeftoverEnds

Others ==
  \E r \in Root :
    \/ EditManifest(r) \/ AgentOpens(r)
    \/ \E name \in Env, file \in {"broken", "missing"} : EditEnvironment(r, name, file)

ApplicationNext ==
  Command \/ DropWatcher \/ Helper \/ TimeOut \/ ReadHelper \/ Others \/ Restart

\* The clock runs, and threads that can go on do.
ApplicationSpec ==
  /\ ApplicationInit /\ [][ApplicationNext]_applicationVars
  /\ WF_applicationVars(TimeOut) /\ WF_applicationVars(ReadHelper)

----------------------------------------------------------------------------
\* What was chosen is on disk, unless a save failed or another hand wrote the
\* file.  "The choice is remembered as the workspace's default, so the next open
\* lands in the same environment", also through deletions, failed opens and
\* whatever else was saved; and a project's code runs only with a standing
\* consent that outlives the run.
ChoicesAreOnDisk ==
  workspace # None /\ ~astray =>
    /\ Readable(workspace) /\ manifest[workspace].default = active
    /\ running # None /\ cached.kind = "project" => manifest[workspace].target = running.target

\* Changes are reported of the workspace that is open and no other, unless the
\* last open failed halfway or a close is not through.
WatchesWhatIsOpen ==
  watcher \notin {None, workspace} => halfOpen \/ closing

\* Endpoints are those of the open project, unless its workspace was created
\* over the one that was scanned.
ScansAreOfTheOpenProject ==
  scan # None => workspace # None /\ (scan = workspace \/ made)

\* A runtime enrich gives the lock back, by its timeout if nothing else, unless
\* the helper leaves a process behind that holds on to its output.
EnrichEndsUnlessHeld == (running # None) ~> (running = None \/ running.held)

\* "The agent allow list is edited by hand while an agent is connected", the
\* consent "can be revoked by editing one file": what was written there by hand
\* is there until it is edited again, or the developer agrees to a run again.
HandEditsAreKept ==
  [][\A r \in Root :
       Readable(r) /\ manifest[r] # manifest'[r] /\ edits' = edits =>
         manifest'[r].allow = manifest[r].allow
    ]_applicationVars

=============================================================================
