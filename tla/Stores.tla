------------------------------- MODULE Stores -------------------------------
(***************************************************************************)
(* What several processes keep in the same files: the secrets of a project *)
(* (secrets.rs), the collections every project shares (rl-core:            *)
(* save_request, rename_collection; workspace.rs: migrate_collections) and *)
(* a flow that an agent saves (rl-mcp: save_flow) and the application too. *)
(*                                                                         *)
(* A process does one call at a time, under its lock.  A call is its steps *)
(* that another process can come in between: each reads or changes a file. *)
(* Collections and flows are replaced by a rename; the secrets file is     *)
(* emptied and then written.                                               *)
(***************************************************************************)
EXTENDS Naturals, Sequences, FiniteSets, SequencesExt

CONSTANTS
  Process,
  Secret, Value,
  Collection, Id, Title,   \* Names of collections; ids and names of requests
  Body, Spot,              \* What a flow is, and where its card stands
  Laid,                    \* Where lay_out puts a card
  None,                    \* No file, no value, no place
  Garbled,                 \* A secrets file that is no JSON
  Starts,                  \* What the files hold at first
  MaxCalls, MaxMeddles     \* Bounds: calls of all processes, edits by hand

ASSUME StoresAssumption ==
  /\ None \notin Value /\ None \notin Title /\ None \notin Spot
  /\ Laid \in Spot
  /\ MaxCalls \in Nat /\ MaxMeddles \in Nat

VARIABLES
  secrets,      \* The secrets file: a value or None for each, or Garbled
  collections,  \* Collection -> the file of that name
  legacy,       \* Collection -> a file of that name in a project, from before
  flow,         \* A flow's file
  calls,        \* Process -> the call it is in
  made, meddled,  \* How much the bounds have used up
  intended,     \* What each secret was last set to, by a call that went through
  contested,    \* Secrets last set while another call held a copy of the file
  torn          \* The secrets file was met, or left, between its two steps

fileVars    == <<secrets, collections, legacy, flow>>
noteVars    == <<intended, contested, torn>>
storesVars  == <<fileVars, calls, made, meddled, noteVars>>

NoSecrets == [s \in Secret |-> None]

Request == [id: Id, title: Title \union {None}]
Collected == [requests: Seq(Request), loads: BOOLEAN]
CollectionFile == {None} \union Collected
FlowFile == {None} \union [body: Body, place: Spot]
Readable == [Secret -> Value \union {None}]
Distinct(requests) == \A j, k \in DOMAIN requests : requests[j].id = requests[k].id => j = k

\* What the processes find at first is what they have saved before.
ASSUME StartsAssumption ==
  /\ Garbled \notin Readable /\ None \notin Collected
  /\ \A start \in Starts :
       /\ start.secrets \in Readable /\ start.flow \in FlowFile
       /\ \A files \in {start.collections, start.legacy} :
            /\ files \in [Collection -> CollectionFile]
            /\ \A c \in Collection : files[c] # None => Distinct(files[c].requests)

File(requests, loads) == [requests |-> requests, loads |-> loads]
NoCall == [kind |-> "none"]

Idle(p) == calls[p] = NoCall

Begin(p, call) ==
  /\ Idle(p) /\ made < MaxCalls
  /\ made' = made + 1
  /\ calls' = [calls EXCEPT ![p] = call]
  /\ UNCHANGED <<fileVars, meddled, noteVars>>

At(p, kind, step) == calls[p].kind = kind /\ calls[p].step = step

Continue(p, call) == calls' = [calls EXCEPT ![p] = call] /\ UNCHANGED <<made, meddled>>

Return(p) == Continue(p, NoCall)

(***************************************************************************)
(* Secrets.                                                                *)
(***************************************************************************)
\* FileSecretStore::set, and delete with no value.
SetSecret(p, s, value) ==
  Begin(p, [kind |-> "secret", step |-> "read", secret |-> s, value |-> value, seen |-> NoSecrets])

\* The file lies empty, or will be written over by a call that emptied it.
Emptied == {p \in Process : At(p, "secret", "fill")}

ReadSecrets(p) ==
  /\ At(p, "secret", "read")
  /\ IF secrets = Garbled
       THEN Return(p)
       ELSE Continue(p, [calls[p] EXCEPT !.step = "empty", !.seen = secrets])
  /\ torn' = (torn \/ Emptied # {})
  /\ UNCHANGED <<fileVars, intended, contested>>

EmptySecrets(p) ==
  /\ At(p, "secret", "empty")
  /\ Continue(p, [calls[p] EXCEPT !.step = "fill"])
  /\ secrets' = NoSecrets
  /\ torn' = (torn \/ Emptied # {})
  /\ UNCHANGED <<collections, legacy, flow, intended, contested>>

\* Mutation: what is written is only what was set.
OnlyChanged(call) == [NoSecrets EXCEPT ![call.secret] = call.value]

Changed(call) == [call.seen EXCEPT ![call.secret] = call.value]

Copies == {q \in Process : calls[q].kind = "secret" /\ calls[q].step \in {"empty", "fill"}}

\* What another call wrote after this one emptied the file is written over from
\* its start; the end of what is longer stays.
FillSecrets(p) ==
  /\ At(p, "secret", "fill")
  /\ secrets' \in {Changed(calls[p])} \union (IF secrets = NoSecrets THEN {} ELSE {Garbled})
  /\ intended' = [intended EXCEPT ![calls[p].secret] = calls[p].value]
  /\ contested' = IF Copies = {p} THEN contested \ {calls[p].secret}
                  ELSE contested \union {calls[p].secret}
  /\ Return(p)
  /\ UNCHANGED <<collections, legacy, flow, torn>>

(***************************************************************************)
(* Collections.                                                            *)
(***************************************************************************)
Loads(file) == file # None /\ file.loads

Kept(file) == IF Loads(file) THEN file.requests ELSE <<>>

Ids(file) == {r.id : r \in ToSet(Kept(file))}

\* The request a save replaces: that of its id, or else of its name.
Replaced(requests, r) ==
  LET named == {k \in DOMAIN requests : r.title # None /\ requests[k].title = r.title}
      same  == {k \in DOMAIN requests : requests[k].id = r.id}
  IN IF same # {} THEN same ELSE named

First(S) == CHOOSE k \in S : \A j \in S : k <= j

Filed(requests, r) ==
  IF Replaced(requests, r) = {} THEN Append(requests, r)
  ELSE [requests EXCEPT ![First(Replaced(requests, r))] = r]

SaveRequest(p, c, r) ==
  Begin(p, [kind |-> "save", step |-> "load", name |-> c, request |-> r,
            seen |-> <<>>, met |-> {}])

\* A collection that does not load is taken for one that is not there.
LoadForSave(p) ==
  /\ At(p, "save", "load")
  /\ LET file == collections[calls[p].name] IN
       Continue(p, [calls[p] EXCEPT !.step = "place", !.seen = Kept(file), !.met = Ids(file)])
  /\ UNCHANGED <<fileVars, noteVars>>

PlaceSaved(p) ==
  /\ At(p, "save", "place")
  /\ collections' = [collections EXCEPT ![calls[p].name] =
                       File(Filed(calls[p].seen, calls[p].request), TRUE)]
  /\ Return(p)
  /\ UNCHANGED <<secrets, legacy, flow, noteVars>>

RenameCollection(p, from, to) ==
  /\ from # to
  /\ Begin(p, [kind |-> "rename", step |-> "load", name |-> from, to |-> to,
               seen |-> None, met |-> {}])

LoadForRename(p) ==
  /\ At(p, "rename", "load")
  /\ IF Loads(collections[calls[p].name])
       THEN Continue(p, [calls[p] EXCEPT !.step = "look", !.seen = collections[calls[p].name]])
       ELSE Return(p)
  /\ UNCHANGED <<fileVars, noteVars>>

LookForRename(p) ==
  /\ At(p, "rename", "look")
  /\ IF Loads(collections[calls[p].to]) THEN Return(p)
     ELSE Continue(p, [calls[p] EXCEPT !.step = "place", !.met = Ids(collections[calls[p].to])])
  /\ UNCHANGED <<fileVars, noteVars>>

PlaceRenamed(p) ==
  /\ At(p, "rename", "place")
  /\ collections' = [collections EXCEPT ![calls[p].to] = calls[p].seen]
  /\ Continue(p, [calls[p] EXCEPT !.step = "remove"])
  /\ UNCHANGED <<secrets, legacy, flow, noteVars>>

DeleteCollection(p, c) ==
  Begin(p, [kind |-> "delete", step |-> "remove", name |-> c])

RemoveCollection(p) ==
  /\ calls[p].kind \in {"delete", "rename"} /\ calls[p].step = "remove"
  /\ collections' = [collections EXCEPT ![calls[p].name] = None]
  /\ Return(p)
  /\ UNCHANGED <<secrets, legacy, flow, noteVars>>

\* migrate_collections, for one file: a project that is opened brings its own.
Migrate(p, c) ==
  /\ legacy[c] # None
  /\ Begin(p, [kind |-> "migrate", step |-> "look", name |-> c, met |-> {}])

\* Mutation: what has the name already is not looked for.
NeverTaken(p) == TRUE

Free(p) == collections[calls[p].name] = None

LookForMigration(p) ==
  /\ At(p, "migrate", "look")
  /\ IF Free(p)
       THEN Continue(p, [calls[p] EXCEPT !.step = "move", !.met = Ids(collections[calls[p].name])])
       ELSE Return(p)
  /\ UNCHANGED <<fileVars, noteVars>>

Move(p) ==
  LET moved == calls[p].name IN
  /\ At(p, "migrate", "move")
  /\ IF legacy[moved] = None THEN UNCHANGED <<collections, legacy>>
     ELSE /\ collections' = [collections EXCEPT ![moved] = legacy[moved]]
          /\ legacy' = [legacy EXCEPT ![moved] = None]
  /\ Return(p)
  /\ UNCHANGED <<secrets, flow, noteVars>>

(***************************************************************************)
(* A flow.                                                                 *)
(***************************************************************************)
\* The application saves what its canvas shows.
SaveFlow(p, body, spot) ==
  /\ Begin(p, [kind |-> "canvas", step |-> "place", body |-> body, place |-> spot])

PlaceFlow(p) ==
  /\ At(p, "canvas", "place")
  /\ flow' = [body |-> calls[p].body, place |-> calls[p].place]
  /\ Return(p)
  /\ UNCHANGED <<secrets, collections, legacy, noteVars>>

\* The agent's save_flow, which may leave the place of the card out.
SaveFlowForAgent(p, body, place, overwrite) ==
  Begin(p, [kind |-> "agent", step |-> "look", body |-> body, place |-> place,
            overwrite |-> overwrite, kept |-> None, met |-> None])

LookForFlow(p) ==
  /\ At(p, "agent", "look")
  /\ IF flow # None /\ ~calls[p].overwrite THEN Return(p)
     ELSE Continue(p, [calls[p] EXCEPT !.step = IF flow = None THEN "place" ELSE "before",
                                       !.met = flow])
  /\ UNCHANGED <<fileVars, noteVars>>

\* Cards the agent kept keep their places.
LoadBefore(p) ==
  /\ At(p, "agent", "before")
  /\ Continue(p, [calls[p] EXCEPT !.step = "place", !.met = flow,
                                   !.kept = IF flow = None THEN None ELSE flow.place])
  /\ UNCHANGED <<fileVars, noteVars>>

FirstOf(place, otherwise) == IF place = None THEN otherwise ELSE place

PlaceForAgent(p) ==
  /\ At(p, "agent", "place")
  /\ flow' = [body  |-> calls[p].body,
              place |-> FirstOf(calls[p].place, FirstOf(calls[p].kept, Laid))]
  /\ Return(p)
  /\ UNCHANGED <<secrets, collections, legacy, noteVars>>

(***************************************************************************)
(* A process stops, or what it writes to fails; someone edits by hand.     *)
(***************************************************************************)
Stop(p) ==
  /\ ~Idle(p)
  /\ torn' = (torn \/ p \in Emptied)
  /\ Return(p)
  /\ UNCHANGED <<fileVars, intended, contested>>

\* An edit leaves a file as no collection.
Meddle(c) ==
  /\ meddled < MaxMeddles /\ meddled' = meddled + 1
  /\ Loads(collections[c])
  /\ collections' = [collections EXCEPT ![c].loads = FALSE]
  /\ UNCHANGED <<secrets, legacy, flow, calls, made, noteVars>>

----------------------------------------------------------------------------
StoresInit ==
  /\ \E start \in Starts :
       /\ secrets = start.secrets /\ collections = start.collections
       /\ legacy = start.legacy /\ flow = start.flow
  /\ calls = [p \in Process |-> NoCall]
  /\ made = 0 /\ meddled = 0
  /\ intended = secrets /\ contested = {} /\ torn = FALSE

Ask(p) ==
  \/ \E s \in Secret, value \in Value \union {None} : SetSecret(p, s, value)
  \/ \E c \in Collection : \/ \E r \in Request : SaveRequest(p, c, r)
                           \/ \E to \in Collection : RenameCollection(p, c, to)
                           \/ DeleteCollection(p, c)
                           \/ Migrate(p, c)
  \/ \E body \in Body : \/ \E spot \in Spot : SaveFlow(p, body, spot)
                        \/ \E place \in Spot \union {None}, overwrite \in BOOLEAN :
                             SaveFlowForAgent(p, body, place, overwrite)

Go(p) ==
  \/ ReadSecrets(p) \/ EmptySecrets(p) \/ FillSecrets(p)
  \/ LoadForSave(p) \/ PlaceSaved(p)
  \/ LoadForRename(p) \/ LookForRename(p) \/ PlaceRenamed(p) \/ RemoveCollection(p)
  \/ LookForMigration(p) \/ Move(p)
  \/ PlaceFlow(p) \/ LookForFlow(p) \/ LoadBefore(p) \/ PlaceForAgent(p)

StoresNext ==
  \/ \E p \in Process : Ask(p) \/ Go(p) \/ Stop(p)
  \/ \E c \in Collection : Meddle(c)

StoresSpec == StoresInit /\ [][StoresNext]_storesVars

----------------------------------------------------------------------------
\* A secret is what it was last set to, unless it was set while some other call,
\* about whichever secret, had read the file and not yet written it back: that
\* call puts the file it read in its place.  A secret that is set while no other
\* call is between the two is safe from then on, whatever calls overlap later
\* about the others.  The one exception is a call that finds the file between the
\* two steps of another's write, or a process that stops there: it may take all
\* secrets with it.
SecretsAreWhatWasSet ==
  ~torn /\ Emptied = {} =>
    /\ secrets # Garbled
    /\ \A s \in Secret \ contested : secrets[s] = intended[s]

\* A saved request is there once, and leaves its collection only when it is
\* deleted, moved or replaced, or when a call that was to write the file could
\* not know of it: it was saved after that call looked, or the file did not load.
RequestGoesFrom(c, id) ==
  \E p \in Process :
    \/ calls[p].kind \in {"delete", "rename"} /\ calls[p].step = "remove" /\ calls[p].name = c
    \/ calls[p].kind \in {"save", "migrate"} /\ calls[p].name = c /\ id \notin calls[p].met
    \/ calls[p].kind = "rename" /\ calls[p].to = c /\ id \notin calls[p].met
    \/ /\ calls[p].kind = "save" /\ calls[p].name = c
       /\ \E r \in ToSet(calls[p].seen) :
            r.id = id /\ r.title # None /\ r.title = calls[p].request.title

\* A flow is replaced by an agent's only at its request, and keeps the place of
\* a card that the agent left out, unless it was saved after the agent looked.
FlowIsReplaced ==
  \A p \in Process : PlaceForAgent(p) /\ flow # None /\ calls[p].met = flow =>
    /\ calls[p].overwrite
    /\ calls[p].place = None => flow'.place = flow.place

SavedWorkIsKept ==
  [][/\ \A c \in Collection :
          /\ \A id \in Ids(collections[c]) \ Ids(collections'[c]) :
               RequestGoesFrom(c, id) \/ meddled' # meddled
          /\ Loads(collections'[c]) => Cardinality(Ids(collections'[c])) = Len(collections'[c].requests)
     /\ FlowIsReplaced]_storesVars

=============================================================================
