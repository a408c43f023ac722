----------------------------- MODULE Stores_proofs -----------------------------
(***************************************************************************)
(* What is kept of a user's work.                                          *)
(*                                                                         *)
(* On disk: what processes that share files lose of each other's work, for *)
(* any processes, secrets, collections and requests, any number of calls   *)
(* and edits, and wherever a process stops.  In an open flow: what its     *)
(* undo history keeps, for every set of documents and every limit.         *)
(***************************************************************************)
EXTENDS Stores, UndoHistory, FiniteSetTheorems, WellFoundedInduction, SequenceTheorems, TLAPS

(***************************************************************************)
(* The calls a process can be in.                                          *)
(***************************************************************************)
SecretCall  == [kind: {"secret"}, step: {"read", "empty", "fill"}, secret: Secret,
                value: Value \union {None}, seen: Readable]
SaveCall    == [kind: {"save"}, step: {"load", "place"}, name: Collection, request: Request,
                seen: Seq(Request), met: SUBSET Id]
RenameCall  == [kind: {"rename"}, step: {"load", "look", "place", "remove"}, name: Collection,
                to: Collection, seen: CollectionFile, met: SUBSET Id]
DeleteCall  == [kind: {"delete"}, step: {"remove"}, name: Collection]
MigrateCall == [kind: {"migrate"}, step: {"look", "move"}, name: Collection, met: SUBSET Id]
CanvasCall  == [kind: {"canvas"}, step: {"place"}, body: Body, place: Spot]
AgentCall   == [kind: {"agent"}, step: {"look", "before", "place"}, body: Body,
                place: Spot \union {None}, overwrite: BOOLEAN, kept: Spot \union {None},
                met: FlowFile]

Call == {NoCall} \union SecretCall \union SaveCall \union RenameCall \union DeleteCall
          \union MigrateCall \union CanvasCall \union AgentCall

StoresTypeOK ==
  /\ secrets \in Readable \union {Garbled} /\ intended \in Readable
  /\ collections \in [Collection -> CollectionFile] /\ legacy \in [Collection -> CollectionFile]
  /\ flow \in FlowFile
  /\ calls \in [Process -> Call]
  /\ meddled \in Nat /\ torn \in BOOLEAN

\* No file holds a request twice.
AllDistinct == \A c \in Collection : \A file \in {collections[c], legacy[c]} :
                 file # None => Distinct(file.requests)

\* What a call knows of the file it is to write: `met` is what it will put back,
\* and an agent that met a flow was told to overwrite it.
Knows(call) ==
  /\ call.kind = "save" =>
       Distinct(call.seen) /\ (call.step = "place" => call.met = {r.id : r \in ToSet(call.seen)})
  /\ call.kind = "rename" =>
       call.met = {} /\ (call.seen # None => Distinct(call.seen.requests))
  /\ call.kind = "migrate" => call.met = {}
  /\ call.kind = "agent" =>
       /\ call.step = "before" => call.overwrite
       /\ call.step = "place" /\ call.met # None => call.overwrite /\ call.kept = call.met.place

AllKnow == \A p \in Process : Knows(calls[p])

\* Unless a write was met or left between its steps, one call at most has emptied
\* the file, the file lies empty while one has, and what the calls have copied is
\* what the secrets were set to, but for those that are contested.
SecretsInv ==
  ~torn =>
    /\ \A p, q \in Emptied : p = q
    /\ Emptied # {} => secrets = NoSecrets
    /\ Emptied = {} => secrets # Garbled /\ \A s \in Secret \ contested : secrets[s] = intended[s]
    /\ \A q \in Copies : \A s \in Secret \ contested : calls[q].seen[s] = intended[s]

StoresInv == StoresTypeOK /\ AllDistinct /\ AllKnow /\ SecretsInv

\* A call is of its kind.
LEMMA CallKinds ==
  ASSUME NEW call \in Call
  PROVE  /\ call.kind = "secret" => call \in SecretCall
         /\ call.kind = "save" => call \in SaveCall
         /\ call.kind = "rename" => call \in RenameCall
         /\ call.kind = "delete" => call \in DeleteCall
         /\ call.kind = "migrate" => call \in MigrateCall
         /\ call.kind = "canvas" => call \in CanvasCall
         /\ call.kind = "agent" => call \in AgentCall
BY DEF Call, NoCall, SecretCall, SaveCall, RenameCall, DeleteCall, MigrateCall, CanvasCall, AgentCall

\* A process that goes on to a call.
LEMMA GoesOn ==
  ASSUME StoresTypeOK, NEW p \in Process, NEW call \in Call, calls' = [calls EXCEPT ![p] = call]
  PROVE  /\ calls' \in [Process -> Call] /\ calls'[p] = call
         /\ \A q \in Process : q # p => calls'[q] = calls[q]
BY DEF StoresTypeOK

LEMMA KnowledgeIsKept ==
  ASSUME StoresInv, NEW p \in Process, NEW call \in Call, calls' = [calls EXCEPT ![p] = call], Knows(call)
  PROVE  AllKnow'
BY GoesOn DEF StoresInv, AllKnow

(***************************************************************************)
(* Secrets.                                                                *)
(***************************************************************************)
\* A step that leaves the file as it is, and its process without a copy.
LEMMA SecretsUntouched ==
  ASSUME StoresInv, NEW p \in Process, NEW call \in Call, calls' = [calls EXCEPT ![p] = call],
         call.kind # "secret" \/ call.step = "read", p \in Emptied => torn', torn => torn',
         UNCHANGED <<secrets, intended, contested>>
  PROVE  SecretsInv'
<1>1. calls'[p] = call /\ \A q \in Process : q # p => calls'[q] = calls[q]
  BY GoesOn DEF StoresInv
<1>2. Emptied' \subseteq Emptied \ {p} /\ Copies' \subseteq Copies \ {p}
  BY <1>1 DEF Emptied, Copies, At
<1>3. p \notin Emptied => Emptied' = Emptied
  BY <1>1, <1>2 DEF Emptied, At
<1> QED
  BY <1>1, <1>2, <1>3 DEF StoresInv, SecretsInv, Copies, NoSecrets

LEMMA NoSecretsIsReadable == NoSecrets \in Readable /\ NoSecrets # Garbled
BY StartsAssumption DEF NoSecrets, Readable

LEMMA ReadKeeps ==
  ASSUME StoresInv, NEW p \in Process, ReadSecrets(p)
  PROVE  StoresInv'
<1> DEFINE call == [calls[p] EXCEPT !.step = "empty", !.seen = secrets]
<1>1. calls[p] \in SecretCall /\ calls[p].step = "read"
  BY CallKinds DEF ReadSecrets, At, StoresInv, StoresTypeOK
<1>2. torn' = (torn \/ Emptied # {}) /\ UNCHANGED <<secrets, collections, legacy, flow, meddled, intended, contested>>
  BY DEF ReadSecrets, fileVars, Return, Continue
<1>3. CASE secrets = Garbled
  <2>1. calls' = [calls EXCEPT ![p] = NoCall] /\ NoCall \in Call /\ Knows(NoCall) /\ NoCall.kind # "secret"
    BY <1>3 DEF ReadSecrets, Return, Continue, Call, NoCall, Knows
  <2>2. p \notin Emptied
    BY <1>1 DEF Emptied, At
  <2> QED
    BY <1>2, <2>1, <2>2, SecretsUntouched, KnowledgeIsKept, GoesOn
       DEF StoresInv, StoresTypeOK, AllDistinct
<1>4. CASE secrets # Garbled
  <2>1. calls' = [calls EXCEPT ![p] = call] /\ secrets \in Readable
    BY <1>4 DEF ReadSecrets, Continue, StoresInv, StoresTypeOK
  <2>2. call \in SecretCall /\ call.kind = "secret" /\ call.step = "empty" /\ call.seen = secrets
    BY <1>1, <2>1 DEF SecretCall
  <2> HIDE DEF call
  <2>3. call \in Call /\ Knows(call)
    BY <2>2 DEF Call, Knows
  <2>4. calls'[p] = call /\ \A q \in Process : q # p => calls'[q] = calls[q]
    BY <2>1, <2>3, GoesOn DEF StoresInv
  <2>5. Emptied' = Emptied /\ Copies' = Copies \union {p}
    BY <1>1, <2>2, <2>4 DEF Emptied, Copies, At
  <2>6. SecretsInv'
    <3> SUFFICES ASSUME ~torn' PROVE ~torn /\ Emptied = {}
      BY <1>2, <2>2, <2>4, <2>5 DEF StoresInv, SecretsInv, Copies
    <3> QED
      BY <1>2
  <2> QED
    BY <1>2, <2>1, <2>3, <2>6, KnowledgeIsKept, GoesOn DEF StoresInv, StoresTypeOK, AllDistinct
<1> QED
  BY <1>3, <1>4

LEMMA EmptyKeeps ==
  ASSUME StoresInv, NEW p \in Process, EmptySecrets(p)
  PROVE  StoresInv'
<1> DEFINE call == [calls[p] EXCEPT !.step = "fill"]
<1>1. calls[p] \in SecretCall /\ calls[p].step = "empty"
  BY CallKinds DEF EmptySecrets, At, StoresInv, StoresTypeOK
<1>2. /\ torn' = (torn \/ Emptied # {}) /\ secrets' = NoSecrets
      /\ UNCHANGED <<collections, legacy, flow, meddled, intended, contested>>
      /\ calls' = [calls EXCEPT ![p] = call]
  BY DEF EmptySecrets, Continue
<1>3. call \in SecretCall /\ call.kind = "secret" /\ call.step = "fill" /\ call.seen = calls[p].seen
  BY <1>1 DEF SecretCall
<1>4. calls[p].kind = "secret"
  BY <1>1 DEF SecretCall
<1> HIDE DEF call
<1>5. call \in Call /\ Knows(call)
  BY <1>3 DEF Call, Knows
<1>6. calls'[p] = call /\ \A q \in Process : q # p => calls'[q] = calls[q]
  BY <1>2, <1>5, GoesOn DEF StoresInv
<1>7. Emptied' = Emptied \union {p} /\ Copies' = Copies
  BY <1>1, <1>3, <1>4, <1>6 DEF Emptied, Copies, At
<1>8. \A q \in Copies : calls'[q].seen = calls[q].seen
  BY <1>3, <1>6 DEF Copies
<1>9. SecretsInv'
  <2> SUFFICES ASSUME ~torn' PROVE ~torn /\ Emptied = {}
    BY <1>2, <1>7, <1>8 DEF StoresInv, SecretsInv
  <2> QED
    BY <1>2
<1> QED
  BY <1>2, <1>5, <1>9, KnowledgeIsKept, GoesOn, NoSecretsIsReadable
     DEF StoresInv, StoresTypeOK, AllDistinct

LEMMA FillKeeps ==
  ASSUME StoresInv, NEW p \in Process, FillSecrets(p)
  PROVE  StoresInv'
<1> DEFINE mine == calls[p].secret
<1>1. calls[p] \in SecretCall /\ calls[p].kind = "secret" /\ calls[p].step = "fill"
  BY CallKinds DEF FillSecrets, At, StoresInv, StoresTypeOK
<1>2. mine \in Secret /\ calls[p].value \in Value \union {None} /\ calls[p].seen \in Readable
  BY <1>1 DEF SecretCall
<1>3. /\ secrets' \in {Changed(calls[p])} \union (IF secrets = NoSecrets THEN {} ELSE {Garbled})
      /\ intended' = [intended EXCEPT ![mine] = calls[p].value]
      /\ contested' = IF Copies = {p} THEN contested \ {mine} ELSE contested \union {mine}
      /\ calls' = [calls EXCEPT ![p] = NoCall]
      /\ UNCHANGED <<collections, legacy, flow, meddled, torn>>
  BY DEF FillSecrets, Return, Continue
<1>4. NoCall \in Call /\ Knows(NoCall) /\ NoCall.kind = "none"
  BY DEF Call, NoCall, Knows
<1>5. calls'[p] = NoCall /\ \A q \in Process : q # p => calls'[q] = calls[q]
  BY <1>3, <1>4, GoesOn DEF StoresInv
<1>6. p \in Emptied /\ p \in Copies /\ Emptied' = Emptied \ {p} /\ Copies' = Copies \ {p}
  BY <1>1, <1>4, <1>5 DEF Emptied, Copies, At
<1>7. Changed(calls[p]) \in Readable /\ Changed(calls[p])[mine] = calls[p].value
      /\ \A s \in Secret : s # mine => Changed(calls[p])[s] = calls[p].seen[s]
  BY <1>2 DEF Changed, Readable
<1>8. intended' \in Readable /\ intended'[mine] = calls[p].value
      /\ \A s \in Secret : s # mine => intended'[s] = intended[s]
  BY <1>2, <1>3 DEF Readable, StoresInv, StoresTypeOK
<1>9. SecretsInv'
  <2> SUFFICES ASSUME ~torn'
               PROVE  /\ Emptied' = {} /\ secrets' # Garbled
                      /\ \A s \in Secret \ contested' : secrets'[s] = intended'[s]
                      /\ \A q \in Copies' : \A s \in Secret \ contested' : calls'[q].seen[s] = intended'[s]
    BY DEF SecretsInv
  <2>1. ~torn
    BY <1>3
  <2>2. Emptied' = {} /\ secrets = NoSecrets
    BY <1>6, <2>1 DEF StoresInv, SecretsInv
  <2>3. secrets' = Changed(calls[p])
    BY <1>3, <2>2
  <2>4. secrets' # Garbled
    BY <1>7, <2>3, StartsAssumption
  <2>5. \A s \in Secret \ contested' : s # mine => s \notin contested
    BY <1>3
  <2>6. ASSUME NEW s \in Secret \ contested' PROVE secrets'[s] = intended'[s]
    BY <1>6, <1>7, <1>8, <2>1, <2>3, <2>5 DEF StoresInv, SecretsInv
  <2>7. ASSUME NEW q \in Copies', NEW s \in Secret \ contested' PROVE calls'[q].seen[s] = intended'[s]
    <3>1. q \in Copies /\ q # p /\ q \in Process
      BY <1>6, <2>7 DEF Copies
    <3>2. s # mine
      BY <1>3, <1>6, <3>1
    <3> QED
      BY <1>5, <1>8, <2>1, <2>5, <3>1, <3>2 DEF StoresInv, SecretsInv
  <2> QED
    BY <2>2, <2>4, <2>6, <2>7
<1>10. StoresTypeOK'
  BY <1>3, <1>4, <1>7, <1>8, GoesOn DEF StoresInv, StoresTypeOK
<1> QED
  BY <1>3, <1>4, <1>9, <1>10, KnowledgeIsKept DEF StoresInv, AllDistinct

(***************************************************************************)
(* The steps that leave the secrets alone.                                 *)
(***************************************************************************)
\* A process goes on to a call that has no copy of the secrets.
LEMMA OthersKeep ==
  ASSUME StoresInv, NEW p \in Process, NEW call \in Call, calls' = [calls EXCEPT ![p] = call],
         call.kind # "secret" \/ call.step = "read", p \in Emptied => torn',
         Knows(call), torn => torn', torn' \in BOOLEAN,
         UNCHANGED <<secrets, intended, contested>>,
         collections' \in [Collection -> CollectionFile], legacy' \in [Collection -> CollectionFile],
         AllDistinct', flow' \in FlowFile, meddled' \in Nat
  PROVE  StoresInv'
BY SecretsUntouched, KnowledgeIsKept, GoesOn DEF StoresInv, StoresTypeOK

\* The same for a step that changes no file.
LEMMA ThinksOn ==
  ASSUME StoresInv, NEW p \in Process, NEW call \in Call, calls' = [calls EXCEPT ![p] = call],
         call.kind # "secret" \/ call.step = "read", p \in Emptied => torn',
         Knows(call), torn => torn', torn' \in BOOLEAN,
         UNCHANGED <<secrets, intended, contested, collections, legacy, flow, meddled>>
  PROVE  StoresInv'
BY OthersKeep DEF StoresInv, StoresTypeOK, AllDistinct

LEMMA NoCallIsACall == NoCall \in Call /\ Knows(NoCall) /\ NoCall.kind = "none"
BY DEF NoCall, Call, Knows

\* What a call is begun with, it knows.
LEMMA BeginKeeps ==
  ASSUME StoresInv, NEW p \in Process, NEW call \in Call, Begin(p, call),
         call.kind # "secret" \/ call.step = "read", Knows(call)
  PROVE  StoresInv'
<1>1. calls[p].kind # "secret"
  BY DEF Begin, Idle, NoCall
<1>2. calls' = [calls EXCEPT ![p] = call]
      /\ UNCHANGED <<secrets, intended, contested, torn, collections, legacy, flow, meddled>>
  BY DEF Begin, fileVars, noteVars
<1> QED
  BY <1>1, <1>2, ThinksOn DEF Emptied, At, StoresInv, StoresTypeOK

LEMMA AskKeeps ==
  ASSUME StoresInv, NEW p \in Process, Ask(p)
  PROVE  StoresInv'
<1>1. CASE \E s \in Secret, value \in Value \union {None} : SetSecret(p, s, value)
  <2> PICK s \in Secret, value \in Value \union {None} : SetSecret(p, s, value)
    BY <1>1
  <2> DEFINE call == [kind |-> "secret", step |-> "read", secret |-> s, value |-> value, seen |-> NoSecrets]
  <2>1. call \in SecretCall /\ Knows(call) /\ call.step = "read" /\ Begin(p, call)
    BY NoSecretsIsReadable DEF SecretCall, Knows, SetSecret
  <2> HIDE DEF call
  <2> QED
    BY <2>1, BeginKeeps DEF Call
<1>2. CASE \E c \in Collection, r \in Request : SaveRequest(p, c, r)
  <2> PICK c \in Collection, r \in Request : SaveRequest(p, c, r)
    BY <1>2
  <2> DEFINE call == [kind |-> "save", step |-> "load", name |-> c, request |-> r, seen |-> <<>>, met |-> {}]
  <2>1. call \in SaveCall /\ Knows(call) /\ call.kind = "save" /\ Begin(p, call)
    BY EmptySeq DEF SaveCall, Knows, SaveRequest, Distinct
  <2> HIDE DEF call
  <2> QED
    BY <2>1, BeginKeeps DEF Call
<1>3. CASE \E c, to \in Collection : RenameCollection(p, c, to)
  <2> PICK c \in Collection, to \in Collection : RenameCollection(p, c, to)
    BY <1>3
  <2> DEFINE call == [kind |-> "rename", step |-> "load", name |-> c, to |-> to, seen |-> None, met |-> {}]
  <2>1. call \in RenameCall /\ Knows(call) /\ call.kind = "rename" /\ Begin(p, call)
    BY DEF RenameCall, Knows, RenameCollection, CollectionFile, Collected
  <2> HIDE DEF call
  <2> QED
    BY <2>1, BeginKeeps DEF Call
<1>4. CASE \E c \in Collection : DeleteCollection(p, c)
  <2> PICK c \in Collection : DeleteCollection(p, c)
    BY <1>4
  <2> DEFINE call == [kind |-> "delete", step |-> "remove", name |-> c]
  <2>1. call \in DeleteCall /\ Knows(call) /\ call.kind = "delete" /\ Begin(p, call)
    BY DEF DeleteCall, Knows, DeleteCollection
  <2> HIDE DEF call
  <2> QED
    BY <2>1, BeginKeeps DEF Call
<1>5. CASE \E c \in Collection : Migrate(p, c)
  <2> PICK c \in Collection : Migrate(p, c)
    BY <1>5
  <2> DEFINE call == [kind |-> "migrate", step |-> "look", name |-> c, met |-> {}]
  <2>1. call \in MigrateCall /\ Knows(call) /\ call.kind = "migrate" /\ Begin(p, call)
    BY DEF MigrateCall, Knows, Migrate
  <2> HIDE DEF call
  <2> QED
    BY <2>1, BeginKeeps DEF Call
<1>6. CASE \E body \in Body, spot \in Spot : SaveFlow(p, body, spot)
  <2> PICK body \in Body, spot \in Spot : SaveFlow(p, body, spot)
    BY <1>6
  <2> DEFINE call == [kind |-> "canvas", step |-> "place", body |-> body, place |-> spot]
  <2>1. call \in CanvasCall /\ Knows(call) /\ call.kind = "canvas" /\ Begin(p, call)
    BY DEF CanvasCall, Knows, SaveFlow
  <2> HIDE DEF call
  <2> QED
    BY <2>1, BeginKeeps DEF Call
<1>7. CASE \E body \in Body, place \in Spot \union {None}, overwrite \in BOOLEAN :
             SaveFlowForAgent(p, body, place, overwrite)
  <2> PICK body \in Body, place \in Spot \union {None}, overwrite \in BOOLEAN :
             SaveFlowForAgent(p, body, place, overwrite)
    BY <1>7
  <2> DEFINE call == [kind |-> "agent", step |-> "look", body |-> body, place |-> place,
                      overwrite |-> overwrite, kept |-> None, met |-> None]
  <2>1. call \in AgentCall /\ Knows(call) /\ call.kind = "agent" /\ Begin(p, call)
    BY DEF AgentCall, Knows, SaveFlowForAgent, FlowFile
  <2> HIDE DEF call
  <2> QED
    BY <2>1, BeginKeeps DEF Call
<1> QED
  BY <1>1, <1>2, <1>3, <1>4, <1>5, <1>6, <1>7 DEF Ask

(***************************************************************************)
(* Filing a request.                                                       *)
(***************************************************************************)
\* The relation the library states of the naturals is well founded; so the first
\* of some places is one of them.
LEMMA FirstIsOne ==
  ASSUME NEW S \in SUBSET Nat, S # {}
  PROVE  First(S) \in S
<1>1. PICK k \in S : \A j \in S : ~ (<<j, k>> \in OpToRel(<, Nat))
  BY NatLessThanWellFounded, WFMin
<1>2. \A j \in S : k <= j
  <2> SUFFICES ASSUME NEW j \in S PROVE ~(j < k)
    OBVIOUS
  <2>1. <<j, k>> \in Nat \X Nat
    OBVIOUS
  <2>2. <<j, k>>[1] < <<j, k>>[2] => <<j, k>> \in OpToRel(<, Nat)
    BY <2>1, Zenon DEF OpToRel
  <2> QED
    BY <1>1, <2>2
<1> QED
  BY <1>2 DEF First

\* A request is filed in place of the one of its id, or else of its name, or at
\* the end.
LEMMA Places ==
  ASSUME NEW requests \in Seq(Request), NEW r \in Request
  PROVE  LET S == Replaced(requests, r) IN
         S # {} => /\ First(S) \in 1..Len(requests)
                   /\ \/ requests[First(S)].id = r.id
                      \/ /\ r.title # None /\ requests[First(S)].title = r.title
                         /\ \A k \in 1..Len(requests) : requests[k].id # r.id
<1> DEFINE S == Replaced(requests, r)
<1>1. S \subseteq 1..Len(requests)
  BY DEF Replaced
<1>2. S # {} => First(S) \in S
  BY <1>1, FirstIsOne
<1>3. ASSUME NEW k \in S
      PROVE  \/ requests[k].id = r.id
             \/ /\ r.title # None /\ requests[k].title = r.title
                /\ \A j \in 1..Len(requests) : requests[j].id # r.id
  BY DEF Replaced
<1> HIDE DEF S
<1> QED
  BY <1>1, <1>2, <1>3 DEF S

LEMMA FiledIsDistinct ==
  ASSUME NEW requests \in Seq(Request), NEW r \in Request, Distinct(requests)
  PROVE  Filed(requests, r) \in Seq(Request) /\ Distinct(Filed(requests, r))
<1> DEFINE S == Replaced(requests, r)
           filed == Filed(requests, r)
<1>1. CASE S = {}
  <2>1. filed = Append(requests, r)
    BY <1>1 DEF Filed
  <2>2. \A k \in 1..Len(requests) : requests[k].id # r.id
    BY <1>1 DEF Replaced
  <2>3. filed \in Seq(Request) /\ Len(filed) = Len(requests) + 1 /\ filed[Len(requests) + 1] = r
        /\ \A k \in 1..Len(requests) : filed[k] = requests[k]
    BY <2>1
  <2> HIDE DEF filed
  <2>4. DOMAIN filed = 1..(Len(requests) + 1)
    BY <2>3
  <2>5. Distinct(filed)
    BY <2>2, <2>3, <2>4 DEF Distinct
  <2> QED
    BY <2>3, <2>5 DEF filed
<1>2. CASE S # {}
  <2> DEFINE n == First(S)
  <2>1. filed = [requests EXCEPT ![n] = r]
    BY <1>2 DEF Filed
  <2>2. n \in 1..Len(requests)
        /\ (requests[n].id = r.id \/ \A k \in 1..Len(requests) : requests[k].id # r.id)
    BY <1>2, Places
  <2> HIDE DEF n, filed
  <2>3. filed \in Seq(Request) /\ DOMAIN filed = DOMAIN requests /\ filed[n] = r
        /\ \A k \in 1..Len(requests) : k # n => filed[k] = requests[k]
    BY <2>1, <2>2
  <2>4. Distinct(filed)
    BY <2>2, <2>3 DEF Distinct
  <2> QED
    BY <2>3, <2>4 DEF filed
<1> QED
  BY <1>1, <1>2

\* Filing a request loses no other, but one it replaces by its name.
LEMMA FiledLosesOnlyTheNamesake ==
  ASSUME NEW requests \in Seq(Request), NEW r \in Request, NEW k \in 1..Len(requests),
         \A j \in DOMAIN Filed(requests, r) : Filed(requests, r)[j].id # requests[k].id
  PROVE  r.title # None /\ requests[k].title = r.title
<1> DEFINE S == Replaced(requests, r)
           filed == Filed(requests, r)
           n == First(S)
<1>1. S # {}
  <2> SUFFICES ASSUME S = {} PROVE FALSE
    OBVIOUS
  <2>1. filed = Append(requests, r)
    BY DEF Filed
  <2> HIDE DEF filed
  <2>2. k \in DOMAIN filed /\ filed[k] = requests[k]
    BY <2>1
  <2> QED
    BY <2>2 DEF filed
<1>2. filed = [requests EXCEPT ![n] = r]
  BY <1>1 DEF Filed
<1>3. n \in 1..Len(requests)
      /\ \/ requests[n].id = r.id
         \/ r.title # None /\ requests[n].title = r.title
  BY <1>1, Places
<1>4. \A j \in DOMAIN filed : filed[j].id # requests[k].id
  OBVIOUS
<1> HIDE DEF n, filed
<1>5. k = n
  BY <1>2, <1>4
<1>6. filed[n] = r
  BY <1>2, <1>3
<1> QED
  BY <1>2, <1>3, <1>4, <1>5, <1>6

(***************************************************************************)
(* Collections.                                                            *)
(***************************************************************************)
\* What a collection holds, as far as it loads.
LEMMA KeptIsTyped ==
  ASSUME StoresInv, NEW c \in Collection
  PROVE  LET file == collections[c] IN
         /\ file \in CollectionFile
         /\ Kept(file) \in Seq(Request) /\ Distinct(Kept(file))
         /\ Ids(file) \in SUBSET Id /\ (~Loads(file) => Ids(file) = {})
<1> DEFINE file == collections[c]
<1>1. file \in CollectionFile /\ (file # None => Distinct(file.requests))
  BY DEF StoresInv, StoresTypeOK, AllDistinct
<1> HIDE DEF file
<1>2. Kept(file) \in Seq(Request) /\ (~Loads(file) => Kept(file) = <<>>)
  BY <1>1 DEF Kept, Loads, CollectionFile, Collected
<1>3. Distinct(Kept(file))
  BY <1>1 DEF Kept, Loads, Distinct
<1>4. \A k \in DOMAIN Kept(file) : Kept(file)[k].id \in Id
  <2> DEFINE kept == Kept(file)
  <2>1. kept \in Seq(Request)
    BY <1>2
  <2> HIDE DEF kept
  <2>2. \A k \in DOMAIN kept : kept[k] \in Request
    BY ONLY <2>1
  <2> QED
    BY <2>2 DEF Request, kept
<1>5. Ids(file) \subseteq Id
  BY <1>4 DEF Ids, ToSet
<1>6. Kept(file) = <<>> => Ids(file) = {}
  BY DEF Ids, ToSet
<1> QED
  BY <1>1, <1>2, <1>3, <1>5, <1>6 DEF file

\* A file takes the place of another.
LEMMA Placed ==
  ASSUME StoresInv, NEW c \in Collection, NEW file \in CollectionFile,
         file # None => Distinct(file.requests),
         collections' = [collections EXCEPT ![c] = file],
         legacy' \in [Collection -> CollectionFile],
         \A d \in Collection : legacy'[d] # None => Distinct(legacy'[d].requests)
  PROVE  collections' \in [Collection -> CollectionFile] /\ AllDistinct'
<1>1. /\ collections' \in [Collection -> CollectionFile] /\ collections'[c] = file
      /\ \A d \in Collection : d # c => collections'[d] = collections[d]
  BY DEF StoresInv, StoresTypeOK
<1> QED
  BY <1>1 DEF StoresInv, AllDistinct

LEMMA SaveKeeps ==
  ASSUME StoresInv, NEW p \in Process, LoadForSave(p) \/ PlaceSaved(p)
  PROVE  StoresInv'
<1>1. calls[p] \in SaveCall /\ calls[p].kind = "save" /\ calls[p].name \in Collection /\ Knows(calls[p])
  <2>1. calls[p] \in Call /\ calls[p].kind = "save" /\ Knows(calls[p])
    BY DEF LoadForSave, PlaceSaved, At, StoresInv, StoresTypeOK, AllKnow
  <2> QED
    BY <2>1, CallKinds DEF SaveCall
<1>2. p \notin Emptied
  BY <1>1 DEF Emptied, At
<1>3. CASE LoadForSave(p)
  <2> DEFINE file == collections[calls[p].name]
             call == [calls[p] EXCEPT !.step = "place", !.seen = Kept(file), !.met = Ids(file)]
  <2>1. Kept(file) \in Seq(Request) /\ Distinct(Kept(file)) /\ Ids(file) \in SUBSET Id
    BY <1>1, KeptIsTyped
  <2>2. call \in SaveCall /\ call.kind = "save" /\ call.seen = Kept(file) /\ call.met = Ids(file)
    BY <1>1, <2>1 DEF SaveCall
  <2>3. calls' = [calls EXCEPT ![p] = call]
        /\ UNCHANGED <<secrets, intended, contested, torn, collections, legacy, flow, meddled>>
    BY <1>3 DEF LoadForSave, Continue, fileVars, noteVars
  <2>4. Knows(call)
    BY <2>1, <2>2 DEF Knows, Ids
  <2> HIDE DEF call
  <2> QED
    BY <1>2, <2>2, <2>3, <2>4, ThinksOn DEF Call, StoresInv, StoresTypeOK
<1>4. CASE PlaceSaved(p)
  <2> DEFINE file == File(Filed(calls[p].seen, calls[p].request), TRUE)
  <2>1. calls[p].seen \in Seq(Request) /\ Distinct(calls[p].seen) /\ calls[p].request \in Request
    BY <1>1 DEF SaveCall, Knows
  <2>2. file \in CollectionFile /\ Distinct(file.requests)
    BY <2>1, FiledIsDistinct DEF File, CollectionFile, Collected
  <2>3. /\ calls' = [calls EXCEPT ![p] = NoCall]
        /\ collections' = [collections EXCEPT ![calls[p].name] = file]
        /\ UNCHANGED <<secrets, intended, contested, torn, legacy, flow, meddled>>
    BY <1>4 DEF PlaceSaved, Return, Continue, noteVars
  <2> HIDE DEF file
  <2>4. legacy' \in [Collection -> CollectionFile]
        /\ \A d \in Collection : legacy'[d] # None => Distinct(legacy'[d].requests)
    BY <2>3 DEF StoresInv, StoresTypeOK, AllDistinct
  <2>5. collections' \in [Collection -> CollectionFile] /\ AllDistinct'
    BY <1>1, <2>2, <2>3, <2>4, Placed
  <2> QED
    BY <1>2, <2>3, <2>4, <2>5, NoCallIsACall, OthersKeep DEF StoresInv, StoresTypeOK
<1> QED
  BY <1>3, <1>4

LEMMA RenameKeeps ==
  ASSUME StoresInv, NEW p \in Process, LoadForRename(p) \/ LookForRename(p) \/ PlaceRenamed(p)
  PROVE  StoresInv'
<1>1. calls[p] \in RenameCall /\ calls[p].kind = "rename" /\ Knows(calls[p])
      /\ calls[p].name \in Collection /\ calls[p].to \in Collection
  BY CallKinds DEF LoadForRename, LookForRename, PlaceRenamed, At, StoresInv, StoresTypeOK, AllKnow, RenameCall
<1>2. p \notin Emptied
  BY <1>1 DEF Emptied, At
<1>3. ASSUME Return(p), UNCHANGED <<fileVars, noteVars>>
      PROVE  StoresInv'
  BY <1>2, <1>3, NoCallIsACall, ThinksOn DEF Return, Continue, fileVars, noteVars, StoresInv, StoresTypeOK
<1>4. CASE LoadForRename(p) /\ ~Return(p)
  <2> DEFINE file == collections[calls[p].name]
             call == [calls[p] EXCEPT !.step = "look", !.seen = file]
  <2>1. file \in CollectionFile /\ (file # None => Distinct(file.requests))
    BY <1>1 DEF StoresInv, StoresTypeOK, AllDistinct
  <2>2. calls' = [calls EXCEPT ![p] = call]
        /\ UNCHANGED <<secrets, intended, contested, torn, collections, legacy, flow, meddled>>
    BY <1>4 DEF LoadForRename, Continue, fileVars, noteVars
  <2>3. call \in RenameCall /\ call.kind = "rename" /\ call.seen = file /\ call.met = calls[p].met
    BY <1>1, <2>1 DEF RenameCall
  <2>4. Knows(call)
    BY <1>1, <2>1, <2>3 DEF Knows
  <2> HIDE DEF call
  <2> QED
    BY <1>2, <2>2, <2>3, <2>4, ThinksOn DEF Call, StoresInv, StoresTypeOK
<1>5. CASE LookForRename(p) /\ ~Return(p)
  <2> DEFINE file == collections[calls[p].to]
             call == [calls[p] EXCEPT !.step = "place", !.met = Ids(file)]
  <2>1. Ids(file) = {}
    BY <1>1, <1>5, KeptIsTyped DEF LookForRename
  <2>2. calls' = [calls EXCEPT ![p] = call]
        /\ UNCHANGED <<secrets, intended, contested, torn, collections, legacy, flow, meddled>>
    BY <1>5 DEF LookForRename, Continue, fileVars, noteVars
  <2>3. call \in RenameCall /\ call.kind = "rename" /\ call.seen = calls[p].seen /\ call.met = {}
    BY <1>1, <2>1 DEF RenameCall
  <2>4. Knows(call)
    BY <1>1, <2>3 DEF Knows
  <2> HIDE DEF call
  <2> QED
    BY <1>2, <2>2, <2>3, <2>4, ThinksOn DEF Call, StoresInv, StoresTypeOK
<1>6. CASE PlaceRenamed(p)
  <2> DEFINE call == [calls[p] EXCEPT !.step = "remove"]
  <2>1. /\ calls' = [calls EXCEPT ![p] = call]
        /\ collections' = [collections EXCEPT ![calls[p].to] = calls[p].seen]
        /\ UNCHANGED <<secrets, intended, contested, torn, legacy, flow, meddled>>
    BY <1>6 DEF PlaceRenamed, Continue, noteVars
  <2>2. call \in RenameCall /\ call.kind = "rename" /\ call.seen = calls[p].seen /\ call.met = calls[p].met
    BY <1>1 DEF RenameCall
  <2>3. Knows(call)
    BY <1>1, <2>2 DEF Knows
  <2> HIDE DEF call
  <2>4. legacy' \in [Collection -> CollectionFile]
        /\ \A d \in Collection : legacy'[d] # None => Distinct(legacy'[d].requests)
    BY <2>1 DEF StoresInv, StoresTypeOK, AllDistinct
  <2>5. calls[p].seen \in CollectionFile /\ (calls[p].seen # None => Distinct(calls[p].seen.requests))
    BY <1>1 DEF RenameCall, Knows
  <2>6. collections' \in [Collection -> CollectionFile] /\ AllDistinct'
    BY <1>1, <2>1, <2>4, <2>5, Placed
  <2> QED
    BY <1>2, <2>1, <2>2, <2>3, <2>4, <2>6, OthersKeep DEF Call, StoresInv, StoresTypeOK
<1> QED
  BY <1>3, <1>4, <1>5, <1>6 DEF LoadForRename, LookForRename

LEMMA RemoveKeeps ==
  ASSUME StoresInv, NEW p \in Process, RemoveCollection(p)
  PROVE  StoresInv'
<1>1. calls[p].name \in Collection /\ p \notin Emptied
  BY CallKinds DEF RemoveCollection, StoresInv, StoresTypeOK, DeleteCall, RenameCall, Emptied, At
<1>2. /\ calls' = [calls EXCEPT ![p] = NoCall]
      /\ collections' = [collections EXCEPT ![calls[p].name] = None]
      /\ UNCHANGED <<secrets, intended, contested, torn, legacy, flow, meddled>>
  BY DEF RemoveCollection, Return, Continue, noteVars
<1>3. legacy' \in [Collection -> CollectionFile]
      /\ \A d \in Collection : legacy'[d] # None => Distinct(legacy'[d].requests)
  BY <1>2 DEF StoresInv, StoresTypeOK, AllDistinct
<1>4. collections' \in [Collection -> CollectionFile] /\ AllDistinct'
  BY <1>1, <1>2, <1>3, Placed DEF CollectionFile, Collected
<1> QED
  BY <1>1, <1>2, <1>3, <1>4, NoCallIsACall, OthersKeep DEF StoresInv, StoresTypeOK

LEMMA MigrateKeeps ==
  ASSUME StoresInv, NEW p \in Process, LookForMigration(p) \/ Move(p)
  PROVE  StoresInv'
<1>1. calls[p] \in MigrateCall /\ calls[p].kind = "migrate" /\ Knows(calls[p]) /\ calls[p].name \in Collection
  BY CallKinds DEF LookForMigration, Move, At, StoresInv, StoresTypeOK, AllKnow, MigrateCall
<1>2. p \notin Emptied
  BY <1>1 DEF Emptied, At
<1>3. ASSUME Return(p), UNCHANGED <<fileVars, noteVars>>
      PROVE  StoresInv'
  BY <1>2, <1>3, NoCallIsACall, ThinksOn DEF Return, Continue, fileVars, noteVars, StoresInv, StoresTypeOK
<1>4. CASE LookForMigration(p) /\ Free(p)
  <2> DEFINE file == collections[calls[p].name]
             call == [calls[p] EXCEPT !.step = "move", !.met = Ids(file)]
  <2>1. Ids(file) = {}
    BY <1>1, <1>4, KeptIsTyped DEF Free, Loads
  <2>2. calls' = [calls EXCEPT ![p] = call]
        /\ UNCHANGED <<secrets, intended, contested, torn, collections, legacy, flow, meddled>>
    BY <1>4 DEF LookForMigration, Continue, fileVars, noteVars
  <2>3. call \in MigrateCall /\ call.kind = "migrate" /\ call.met = {}
    BY <1>1, <2>1 DEF MigrateCall
  <2>4. Knows(call)
    BY <2>3 DEF Knows
  <2> HIDE DEF call
  <2> QED
    BY <1>2, <2>2, <2>3, <2>4, ThinksOn DEF Call, StoresInv, StoresTypeOK
<1>5. CASE Move(p)
  <2> DEFINE moved == calls[p].name
  <2>1. calls' = [calls EXCEPT ![p] = NoCall]
        /\ UNCHANGED <<secrets, intended, contested, torn, flow, meddled>>
    BY <1>5 DEF Move, Return, Continue, noteVars
  <2>2. CASE legacy[moved] = None
    <3>1. UNCHANGED <<collections, legacy>>
      BY <1>5, <2>2 DEF Move
    <3> QED
      BY <1>2, <2>1, <3>1, NoCallIsACall, ThinksOn DEF StoresInv, StoresTypeOK
  <2>3. CASE legacy[moved] # None
    <3>1. collections' = [collections EXCEPT ![moved] = legacy[moved]]
          /\ legacy' = [legacy EXCEPT ![moved] = None]
      BY <1>5, <2>3 DEF Move
    <3>2. legacy[moved] \in CollectionFile /\ Distinct(legacy[moved].requests)
      BY <1>1, <2>3 DEF StoresInv, StoresTypeOK, AllDistinct
    <3>3. legacy' \in [Collection -> CollectionFile] /\ legacy'[moved] = None
          /\ \A d \in Collection : d # moved => legacy'[d] = legacy[d]
      BY <1>1, <3>1 DEF StoresInv, StoresTypeOK, CollectionFile, Collected
    <3>4. \A d \in Collection : legacy'[d] # None => Distinct(legacy'[d].requests)
      BY <3>3 DEF StoresInv, AllDistinct
    <3>5. collections' \in [Collection -> CollectionFile] /\ AllDistinct'
      BY <1>1, <3>1, <3>2, <3>3, <3>4, Placed
    <3> QED
      BY <1>2, <2>1, <3>3, <3>5, NoCallIsACall, OthersKeep DEF StoresInv, StoresTypeOK
  <2> QED
    BY <2>2, <2>3
<1> QED
  BY <1>3, <1>4, <1>5 DEF LookForMigration

(***************************************************************************)
(* A flow; a process that stops; edits by hand.                            *)
(***************************************************************************)
LEMMA FlowKeeps ==
  ASSUME StoresInv, NEW p \in Process, PlaceFlow(p) \/ LookForFlow(p) \/ LoadBefore(p) \/ PlaceForAgent(p)
  PROVE  StoresInv'
<1>1. calls[p] \in Call /\ Knows(calls[p]) /\ calls[p].kind \in {"canvas", "agent"}
  BY DEF PlaceFlow, LookForFlow, LoadBefore, PlaceForAgent, At, StoresInv, StoresTypeOK, AllKnow
<1>2. p \notin Emptied /\ flow \in FlowFile
  BY <1>1 DEF Emptied, At, StoresInv, StoresTypeOK
<1>3. ASSUME Return(p), UNCHANGED <<secrets, collections, legacy, noteVars>>, flow' \in FlowFile
      PROVE  StoresInv'
  BY <1>2, <1>3, NoCallIsACall, OthersKeep
     DEF Return, Continue, noteVars, StoresInv, StoresTypeOK, AllDistinct
<1>4. CASE PlaceFlow(p)
  <2>1. calls[p].body \in Body /\ calls[p].place \in Spot
    BY <1>1, <1>4, CallKinds DEF PlaceFlow, At, CanvasCall
  <2> QED
    BY <1>3, <1>4, <2>1 DEF PlaceFlow, FlowFile
<1>5. ASSUME calls[p].kind = "agent" PROVE calls[p] \in AgentCall
  BY <1>1, <1>5, CallKinds
<1>6. ASSUME NEW call \in AgentCall, calls' = [calls EXCEPT ![p] = call], Knows(call),
             UNCHANGED <<fileVars, noteVars, meddled>>
      PROVE  StoresInv'
  <2>1. call \in Call /\ call.kind # "secret"
    BY DEF AgentCall, Call
  <2> QED
    BY <1>2, <1>6, <2>1, ThinksOn DEF fileVars, noteVars, StoresInv, StoresTypeOK
<1>7. CASE LookForFlow(p) /\ ~Return(p)
  <2> DEFINE call == [calls[p] EXCEPT !.step = IF flow = None THEN "place" ELSE "before", !.met = flow]
  <2>1. calls' = [calls EXCEPT ![p] = call] /\ UNCHANGED <<fileVars, noteVars, meddled>>
        /\ (flow # None => calls[p].overwrite)
    BY <1>7 DEF LookForFlow, Continue
  <2>2. calls[p] \in AgentCall /\ calls[p].kind = "agent"
    BY <1>5, <1>7 DEF LookForFlow, At
  <2>3. call \in AgentCall /\ call.kind = "agent" /\ call.met = flow /\ call.overwrite = calls[p].overwrite
        /\ call.step = IF flow = None THEN "place" ELSE "before"
    BY <1>2, <2>2 DEF AgentCall
  <2>4. Knows(call)
    BY <2>1, <2>3 DEF Knows
  <2> HIDE DEF call
  <2> QED
    BY <1>6, <2>1, <2>3, <2>4
<1>8. CASE LoadBefore(p)
  <2> DEFINE place == IF flow = None THEN None ELSE flow.place
             call == [calls[p] EXCEPT !.step = "place", !.met = flow, !.kept = place]
  <2>1. calls' = [calls EXCEPT ![p] = call] /\ UNCHANGED <<fileVars, noteVars, meddled>>
    BY <1>8 DEF LoadBefore, Continue
  <2>2. calls[p] \in AgentCall /\ calls[p].kind = "agent" /\ calls[p].overwrite
    BY <1>1, <1>5, <1>8 DEF LoadBefore, At, Knows
  <2>3. place \in Spot \union {None}
    BY <1>2 DEF FlowFile
  <2>4. call \in AgentCall /\ call.kind = "agent" /\ call.met = flow /\ call.overwrite = calls[p].overwrite
        /\ call.kept = place /\ call.step = "place"
    BY <1>2, <2>2, <2>3 DEF AgentCall
  <2>5. Knows(call)
    BY <2>2, <2>4 DEF Knows
  <2> HIDE DEF call
  <2> QED
    BY <1>6, <2>1, <2>4, <2>5
<1>9. CASE PlaceForAgent(p)
  <2>1. calls[p] \in AgentCall
    BY <1>5, <1>9 DEF PlaceForAgent, At
  <2>2. calls[p].body \in Body
        /\ FirstOf(calls[p].place, FirstOf(calls[p].kept, Laid)) \in Spot
    BY <2>1, StoresAssumption DEF AgentCall, FirstOf
  <2> QED
    BY <1>3, <1>9, <2>2 DEF PlaceForAgent, FlowFile
<1>10. CASE LookForFlow(p) /\ Return(p)
  BY <1>2, <1>3, <1>10 DEF LookForFlow, fileVars
<1> QED
  BY <1>4, <1>7, <1>8, <1>9, <1>10

LEMMA StopKeeps ==
  ASSUME StoresInv, NEW p \in Process, Stop(p)
  PROVE  StoresInv'
<1>1. torn' = (torn \/ p \in Emptied) /\ calls' = [calls EXCEPT ![p] = NoCall]
      /\ UNCHANGED <<secrets, intended, contested, collections, legacy, flow, meddled>>
  BY DEF Stop, Return, Continue, fileVars
<1>2. torn' \in BOOLEAN
  BY <1>1
<1> QED
  BY <1>1, <1>2, NoCallIsACall, ThinksOn

LEMMA EditKeeps ==
  ASSUME StoresInv, NEW c \in Collection, Meddle(c)
  PROVE  StoresInv'
<1>1. UNCHANGED <<secrets, legacy, flow, calls, intended, contested, torn>> /\ meddled' \in Nat
  BY DEF Meddle, StoresInv, StoresTypeOK, noteVars
<1> DEFINE file == [collections[c] EXCEPT !.loads = FALSE]
<1>2. collections' = [collections EXCEPT ![c] = file] /\ collections[c] # None
      /\ collections[c] \in CollectionFile /\ Distinct(collections[c].requests)
  BY DEF Meddle, Loads, StoresInv, StoresTypeOK, AllDistinct
<1>3. file \in CollectionFile /\ file.requests = collections[c].requests
  BY <1>2 DEF CollectionFile, Collected
<1> HIDE DEF file
<1>4. legacy' \in [Collection -> CollectionFile]
      /\ \A d \in Collection : legacy'[d] # None => Distinct(legacy'[d].requests)
  BY <1>1 DEF StoresInv, StoresTypeOK, AllDistinct
<1>5. collections' \in [Collection -> CollectionFile] /\ AllDistinct'
  BY <1>2, <1>3, <1>4, Placed
<1>6. Emptied' = Emptied /\ Copies' = Copies
  BY <1>1 DEF Emptied, Copies, At
<1>7. SecretsInv' /\ AllKnow'
  BY <1>1, <1>6 DEF StoresInv, SecretsInv, AllKnow
<1> QED
  BY <1>1, <1>5, <1>7 DEF StoresInv, StoresTypeOK

----------------------------------------------------------------------------
LEMMA StoresInvStarts == StoresInit => StoresInv
<1> SUFFICES ASSUME StoresInit PROVE StoresInv
  OBVIOUS
<1>1. PICK start \in Starts : /\ secrets = start.secrets /\ collections = start.collections
                             /\ legacy = start.legacy /\ flow = start.flow
  BY DEF StoresInit
<1>2. calls = [p \in Process |-> NoCall] /\ meddled = 0 /\ intended = secrets /\ torn = FALSE
  BY DEF StoresInit
<1>3. secrets \in Readable /\ flow \in FlowFile
      /\ collections \in [Collection -> CollectionFile] /\ legacy \in [Collection -> CollectionFile]
  BY <1>1, StartsAssumption
<1>4. AllDistinct
  BY <1>1, StartsAssumption DEF AllDistinct
<1>5. StoresTypeOK /\ AllKnow
  BY <1>2, <1>3, NoCallIsACall DEF StoresTypeOK, AllKnow
<1>6. Emptied = {} /\ Copies = {}
  BY <1>2, NoCallIsACall DEF Emptied, Copies, At
<1>7. secrets # Garbled
  BY <1>3, StartsAssumption
<1> QED
  BY <1>2, <1>4, <1>5, <1>6, <1>7 DEF StoresInv, SecretsInv

LEMMA StoresInvIsKept == StoresInv /\ [StoresNext]_storesVars => StoresInv'
<1> SUFFICES ASSUME StoresInv, [StoresNext]_storesVars PROVE StoresInv'
  OBVIOUS
<1>1. CASE \E p \in Process : Ask(p)
  BY <1>1, AskKeeps
<1>2. CASE \E p \in Process : Go(p)
  BY <1>2, ReadKeeps, EmptyKeeps, FillKeeps, SaveKeeps, RenameKeeps, RemoveKeeps, MigrateKeeps, FlowKeeps
     DEF Go
<1>3. CASE \E p \in Process : Stop(p)
  BY <1>3, StopKeeps
<1>4. CASE \E c \in Collection : Meddle(c)
  BY <1>4, EditKeeps
<1>5. CASE UNCHANGED storesVars
  BY <1>5 DEF storesVars, fileVars, noteVars, StoresInv, StoresTypeOK, AllDistinct, AllKnow, SecretsInv,
              Emptied, Copies, At
<1> QED
  BY <1>1, <1>2, <1>3, <1>4, <1>5 DEF StoresNext

\* The inductive invariant.  Of the secrets: as long as no write is met or left
\* between its two steps (secrets.rs: fs::write), one call at most has emptied
\* the file, and every copy a call holds is right but for what is contested.  Of
\* the collections: no file holds a request twice, and what a call met of the
\* file it will write is what it puts back.
THEOREM StoresInvariance == StoresSpec => []StoresInv
BY StoresInvStarts, StoresInvIsKept, PTL DEF StoresSpec

\* Calls of several processes on the one secrets file (secrets.rs:
\* FileSecretStore::set, delete) lose a secret only if it was set while another
\* call, about that secret or any other, held a copy of the file it then wrote
\* back, or if the file was met or left between the steps of a write.
THEOREM SecretsLast == StoresSpec => []SecretsAreWhatWasSet
<1>1. StoresInv => SecretsAreWhatWasSet
  BY DEF StoresInv, SecretsInv, SecretsAreWhatWasSet
<1> QED
  BY <1>1, StoresInvariance, PTL

(***************************************************************************)
(* What a step may take away.                                              *)
(***************************************************************************)
LEMMA DistinctAreCounted ==
  ASSUME NEW requests \in Seq(Request), Distinct(requests)
  PROVE  Cardinality({r.id : r \in ToSet(requests)}) = Len(requests)
<1> DEFINE n == Len(requests)
           ids == {r.id : r \in ToSet(requests)}
           f == [k \in 1..n |-> requests[k].id]
<1>1. n \in Nat /\ DOMAIN requests = 1..n
  OBVIOUS
<1>2. ids = {requests[k].id : k \in 1..n}
  BY <1>1 DEF ToSet
<1>3. IsFiniteSet(1..n) /\ Cardinality(1..n) = n
  BY <1>1, FS_Interval
<1>4. f \in Bijection(1..n, ids)
  <2>1. f \in [1..n -> ids]
    BY <1>2
  <2>2. \A j, k \in 1..n : f[j] = f[k] => j = k
    BY <1>1 DEF Distinct
  <2>3. \A i \in ids : \E k \in 1..n : f[k] = i
    BY <1>2
  <2> HIDE DEF f, n, ids
  <2> QED
    BY <2>1, <2>2, <2>3 DEF Bijection, Injection, Surjection, IsInjective
<1>5. ExistsBijection(1..n, ids)
  BY <1>4 DEF ExistsBijection
<1> HIDE DEF n, ids
<1>6. Cardinality(ids) = n
  BY <1>3, <1>5, FS_Bijection
<1> QED
  BY <1>6 DEF n, ids

LEMMA RequestsAreThereOnce ==
  ASSUME StoresInv, NEW c \in Collection, Loads(collections[c])
  PROVE  Cardinality(Ids(collections[c])) = Len(collections[c].requests)
<1> DEFINE requests == collections[c].requests
<1>1. requests \in Seq(Request) /\ Distinct(requests)
  BY DEF StoresInv, StoresTypeOK, AllDistinct, Loads, CollectionFile, Collected
<1>2. Ids(collections[c]) = {r.id : r \in ToSet(requests)}
  BY DEF Ids, Kept
<1> HIDE DEF requests
<1>3. Cardinality(Ids(collections[c])) = Len(requests)
  BY <1>1, <1>2, DistinctAreCounted
<1> QED
  BY <1>3 DEF requests

\* Few steps change a collection.
LEMMA WhatChangesCollections ==
  ASSUME [StoresNext]_storesVars, collections' # collections
  PROVE  \/ \E p \in Process : PlaceSaved(p) \/ PlaceRenamed(p) \/ RemoveCollection(p) \/ Move(p)
         \/ \E c \in Collection : Meddle(c)
<1>1. CASE \E p \in Process : Ask(p)
  BY <1>1 DEF Ask, SetSecret, SaveRequest, RenameCollection, DeleteCollection, Migrate, SaveFlow,
              SaveFlowForAgent, Begin, fileVars
<1>2. CASE \E p \in Process : Go(p)
  BY <1>2 DEF Go, ReadSecrets, EmptySecrets, FillSecrets, LoadForSave, LoadForRename, LookForRename,
              LookForMigration, PlaceFlow, LookForFlow, LoadBefore, PlaceForAgent, fileVars
<1>3. CASE \E p \in Process : Stop(p)
  BY <1>3 DEF Stop, fileVars
<1>4. CASE UNCHANGED storesVars
  BY <1>4 DEF storesVars, fileVars
<1> QED
  BY <1>1, <1>2, <1>3, <1>4 DEF StoresNext

LEMMA RequestGoes ==
  ASSUME StoresInv, [StoresNext]_storesVars, NEW c \in Collection,
         NEW id \in Ids(collections[c]) \ Ids(collections'[c])
  PROVE  RequestGoesFrom(c, id) \/ meddled' # meddled
<1>1. collections'[c] # collections[c] /\ collections' # collections
  OBVIOUS
<1>2. collections \in [Collection -> CollectionFile]
  BY DEF StoresInv, StoresTypeOK
<1>3. ASSUME NEW p \in Process, PlaceSaved(p)
      PROVE  RequestGoesFrom(c, id)
  <2> DEFINE seen == calls[p].seen
             r == calls[p].request
             filed == Filed(seen, r)
  <2>1. calls[p] \in SaveCall /\ calls[p].kind = "save" /\ calls[p].step = "place" /\ Knows(calls[p])
    <3>1. calls[p] \in Call /\ calls[p].kind = "save" /\ calls[p].step = "place" /\ Knows(calls[p])
      BY <1>3 DEF PlaceSaved, At, StoresInv, StoresTypeOK, AllKnow
    <3> QED
      BY <3>1, CallKinds
  <2>2. collections' = [collections EXCEPT ![calls[p].name] = File(filed, TRUE)]
    BY <1>3 DEF PlaceSaved
  <2>3. c = calls[p].name /\ collections'[c] = File(filed, TRUE)
    BY <1>1, <1>2, <2>2
  <2>4. Ids(File(filed, TRUE)) = {q.id : q \in ToSet(filed)}
    <3>1. File(filed, TRUE) # None => Ids(File(filed, TRUE)) = {q.id : q \in ToSet(filed)}
      BY DEF Ids, Kept, Loads, File
    <3>2. File(filed, TRUE) \in Collected
      BY <2>1, FiledIsDistinct DEF File, Collected, SaveCall, Knows
    <3> QED
      BY <3>1, <3>2, StartsAssumption
  <2>5. CASE id \notin calls[p].met
    BY <2>1, <2>3, <2>5 DEF RequestGoesFrom
  <2>6. CASE id \in calls[p].met
    <3>1. seen \in Seq(Request) /\ r \in Request /\ calls[p].met = {q.id : q \in ToSet(seen)}
      BY <2>1 DEF SaveCall, Knows
    <3> HIDE DEF seen, r
    <3>2. PICK k \in 1..Len(seen) : seen[k].id = id
      BY <2>6, <3>1 DEF ToSet
    <3>3. \A j \in DOMAIN filed : filed[j].id # id
      BY <2>3, <2>4 DEF ToSet
    <3>4. r.title # None /\ seen[k].title = r.title
      BY <3>1, <3>2, <3>3, FiledLosesOnlyTheNamesake
    <3>5. seen[k] \in ToSet(seen)
      BY <3>1, <3>2 DEF ToSet
    <3> QED
      BY <2>1, <2>3, <3>2, <3>4, <3>5 DEF RequestGoesFrom, seen, r
  <2> QED
    BY <2>5, <2>6
<1>4. ASSUME NEW p \in Process, PlaceRenamed(p)
      PROVE  RequestGoesFrom(c, id)
  <2>1. calls[p].kind = "rename" /\ Knows(calls[p])
        /\ collections' = [collections EXCEPT ![calls[p].to] = calls[p].seen]
    BY <1>4 DEF PlaceRenamed, At, StoresInv, AllKnow
  <2>2. c = calls[p].to /\ calls[p].met = {}
    BY <1>1, <1>2, <2>1 DEF Knows
  <2> QED
    BY <2>1, <2>2 DEF RequestGoesFrom
<1>5. ASSUME NEW p \in Process, RemoveCollection(p)
      PROVE  RequestGoesFrom(c, id)
  <2>1. c = calls[p].name
    BY <1>1, <1>2, <1>5 DEF RemoveCollection
  <2> QED
    BY <1>5, <2>1 DEF RemoveCollection, RequestGoesFrom
<1>6. ASSUME NEW p \in Process, Move(p)
      PROVE  RequestGoesFrom(c, id)
  <2>1. calls[p].kind = "migrate" /\ Knows(calls[p])
        /\ collections' = [collections EXCEPT ![calls[p].name] = legacy[calls[p].name]]
    BY <1>1, <1>6 DEF Move, At, StoresInv, AllKnow
  <2>2. c = calls[p].name /\ calls[p].met = {}
    BY <1>1, <1>2, <2>1 DEF Knows
  <2> QED
    BY <2>1, <2>2 DEF RequestGoesFrom
<1>7. ASSUME NEW d \in Collection, Meddle(d)
      PROVE  meddled' # meddled
  BY <1>7 DEF Meddle, StoresInv, StoresTypeOK
<1> QED
  BY <1>1, <1>3, <1>4, <1>5, <1>6, <1>7, WhatChangesCollections

LEMMA PlacesAreKept ==
  ASSUME StoresInv
  PROVE  FlowIsReplaced
<1> SUFFICES ASSUME NEW p \in Process, PlaceForAgent(p), flow # None, calls[p].met = flow
             PROVE  /\ calls[p].overwrite
                    /\ calls[p].place = None => flow'.place = flow.place
  BY DEF FlowIsReplaced
<1>1. calls[p].kind = "agent" /\ calls[p].step = "place" /\ Knows(calls[p])
  BY DEF PlaceForAgent, At, StoresInv, AllKnow
<1>2. calls[p].overwrite /\ calls[p].kept = flow.place
  BY <1>1 DEF Knows
<1>3. flow.place # None
  BY StoresAssumption DEF StoresInv, StoresTypeOK, FlowFile
<1>4. flow' = [body |-> calls[p].body, place |-> FirstOf(calls[p].place, FirstOf(calls[p].kept, Laid))]
  BY DEF PlaceForAgent
<1> QED
  BY <1>2, <1>3, <1>4 DEF FirstOf

\* What processes save in the same files stays there (rl-core: save_request,
\* rename_collection, delete_collection; workspace.rs: migrate_collections;
\* rl-mcp: save_flow): a request leaves its collection only when it is deleted,
\* moved or replaced, or when a call that was to write the file could not know of
\* it; no file holds one twice; and an agent replaces a flow only at its request,
\* with the places of the cards it left out.
THEOREM WorkIsKept == StoresSpec => SavedWorkIsKept
<1> DEFINE Goes  == \A c \in Collection :
                      /\ \A id \in Ids(collections[c]) \ Ids(collections'[c]) :
                           RequestGoesFrom(c, id) \/ meddled' # meddled
                      /\ Loads(collections'[c]) =>
                           Cardinality(Ids(collections'[c])) = Len(collections'[c].requests)
<1>1. StoresInv /\ StoresInv' /\ [StoresNext]_storesVars => [Goes /\ FlowIsReplaced]_storesVars
  <2> SUFFICES ASSUME StoresInv, StoresInv', [StoresNext]_storesVars PROVE Goes /\ FlowIsReplaced
    OBVIOUS
  <2>1. ASSUME NEW c \in Collection
        PROVE  Loads(collections'[c]) => Cardinality(Ids(collections'[c])) = Len(collections'[c].requests)
    <3>1. (Loads(collections[c]) => Cardinality(Ids(collections[c])) = Len(collections[c].requests))'
      BY RequestsAreThereOnce, PTL
    <3> QED
      BY <3>1
  <2> QED
    BY <2>1, RequestGoes, PlacesAreKept
<1> QED
  BY <1>1, StoresInvariance, PTL DEF StoresSpec, SavedWorkIsKept

(***************************************************************************)
(* The undo history of an open flow.  Sequences are split at their ends: a *)
(* step moves one document from the end of the past or the start of the    *)
(* future.                                                                 *)
(***************************************************************************)
\* A sequence that is not empty is all but its last element, and that element.
LEMMA SplitLast ==
  ASSUME NEW S, NEW s \in Seq(S), s # <<>>
  PROVE  /\ Last(s) \in S
         /\ SubSeq(s, 1, Len(s) - 1) \in Seq(S)
         /\ Len(SubSeq(s, 1, Len(s) - 1)) = Len(s) - 1
         /\ s = SubSeq(s, 1, Len(s) - 1) \o <<Last(s)>>
<1>1. Len(s) \in Nat \ {0}
  BY EmptySeq
<1>2. SubSeq(s, 1, Len(s)) = SubSeq(s, 1, Len(s) - 1) \o <<s[Len(s)]>>
  BY <1>1, SubSeqRecursiveSecond
<1>3. SubSeq(s, 1, Len(s)) = s
  BY SubSeqFull
<1> DEFINE n == Len(s) - 1
<1>4. 1 \in Int /\ n \in Int /\ \A i \in 1 .. n : s[i] \in S
  BY <1>1, ElementOfSeq
<1>5. n \in Nat
  BY <1>1
<1>6. SubSeq(s, 1, n) \in Seq(S) /\ Len(SubSeq(s, 1, n)) = n
  <2> HIDE DEF n
  <2>1. SubSeq(s, 1, n) \in Seq(S) /\ Len(SubSeq(s, 1, n)) = IF 1 <= n THEN n - 1 + 1 ELSE 0
    BY ONLY <1>4, SubSeqProperties
  <2> QED
    BY ONLY <1>5, <2>1
<1>7. s[Len(s)] \in S
  BY <1>1, ElementOfSeq
<1> QED
  BY <1>2, <1>3, <1>6, <1>7 DEF Last

\* A sequence that is not empty is its first element, and the rest.
LEMMA SplitFirst ==
  ASSUME NEW S, NEW s \in Seq(S), s # <<>>
  PROVE  /\ Head(s) \in S
         /\ Tail(s) \in Seq(S)
         /\ Len(Tail(s)) = Len(s) - 1
         /\ s = <<Head(s)>> \o Tail(s)
<1>1. Len(s) \in Nat \ {0}
  BY EmptySeq
<1>2. SubSeq(s, 1, Len(s)) = <<s[1]>> \o SubSeq(s, 2, Len(s))
  BY <1>1, SubSeqRecursiveFirst
<1>3. SubSeq(s, 1, Len(s)) = s /\ Tail(s) = SubSeq(s, 2, Len(s))
  BY SubSeqFull, TailIsSubSeq
<1> QED
  BY <1>2, <1>3, HeadTailProperties

\* What is kept of a sequence is no longer than the limit.
LEMMA BoundedLength ==
  ASSUME NEW S, NEW s \in Seq(S)
  PROVE  Bounded(s) \in Seq(S) /\ Len(Bounded(s)) <= HISTORY_LIMIT
<1> DEFINE first == IF Len(s) > HISTORY_LIMIT THEN Len(s) - HISTORY_LIMIT + 1 ELSE 1
<1>1. Len(s) \in Nat /\ HISTORY_LIMIT \in Nat
  BY LimitAssumption, LenProperties
<1>2. first \in 1 .. Len(s) + 1
  BY <1>1
<1>3. \A i \in first .. Len(s) : s[i] \in S
  BY <1>1, <1>2, ElementOfSeq
<1>4. /\ SubSeq(s, first, Len(s)) \in Seq(S)
      /\ Len(SubSeq(s, first, Len(s))) = IF first <= Len(s) THEN Len(s) - first + 1 ELSE 0
  <2> HIDE DEF first
  <2> QED
    BY <1>1, <1>2, <1>3, SubSeqProperties, Z3
<1>5. Bounded(s) = SubSeq(s, first, Len(s))
  BY DEF Bounded
<1>6. (IF first <= Len(s) THEN Len(s) - first + 1 ELSE 0) <= HISTORY_LIMIT
  BY <1>1
<1> QED
  BY <1>4, <1>5, <1>6

----------------------------------------------------------------------------
\* The history, the undone documents included, never outgrows its limit: an
\* edit empties the future, undo and redo move one document across.
THEOREM Bound == UndoSpec => []HistoryIsBounded
<1>1. UndoInit => HistoryIsBounded
  BY LimitAssumption DEF UndoInit, HistoryIsBounded, History
<1>2. HistoryIsBounded /\ [UndoNext]_undoVars => HistoryIsBounded'
  <2> SUFFICES ASSUME HistoryIsBounded, [UndoNext]_undoVars
               PROVE  HistoryIsBounded'
    OBVIOUS
  <2>0. /\ doc \in Doc /\ history \in History
        /\ history.past \in Seq(Doc) /\ history.future \in Seq(Doc)
        /\ Len(history.past) \in Nat /\ Len(history.future) \in Nat
        /\ Len(history.past) + Len(history.future) <= HISTORY_LIMIT
        /\ HISTORY_LIMIT \in Nat
    BY LimitAssumption, LenProperties DEF HistoryIsBounded, History
  <2>a. Len(history.past) <= HISTORY_LIMIT
    <3> DEFINE pastLen == Len(history.past)
               futureLen == Len(history.future)
    <3>1. /\ pastLen \in Nat /\ futureLen \in Nat /\ HISTORY_LIMIT \in Nat
          /\ pastLen + futureLen <= HISTORY_LIMIT
      BY <2>0
    <3> HIDE DEF pastLen, futureLen
    <3>2. pastLen <= HISTORY_LIMIT
      BY ONLY <3>1
    <3> QED
      BY <3>2 DEF pastLen
  <2>1. ASSUME NEW d \in Doc, Edit(d)
        PROVE  HistoryIsBounded'
    <3>1. doc' = d /\ history'.future = <<>> /\ history'.fresh = TRUE
      BY <2>1 DEF Edit, Record
    <3>2. history'.past \in {history.past, Bounded(Append(history.past, doc))}
      BY <2>1 DEF Edit, Record
    <3>3. Append(history.past, doc) \in Seq(Doc)
      BY <2>0, AppendProperties
    <3>4. history'.past \in Seq(Doc) /\ Len(history'.past) <= HISTORY_LIMIT
      <4>1. CASE history'.past = history.past
        BY <2>0, <2>a, <4>1
      <4>2. CASE history'.past = Bounded(Append(history.past, doc))
        BY <3>3, <4>2, BoundedLength, Zenon
      <4> QED
        BY <3>2, <4>1, <4>2
    <3>5. history' = [past |-> history'.past, future |-> <<>>, fresh |-> TRUE]
      BY <2>1 DEF Edit, Record
    <3>6. history' \in History
      <4> DEFINE past == history'.past
      <4>1. past \in Seq(Doc) /\ <<>> \in Seq(Doc) /\ TRUE \in BOOLEAN
        BY <3>4, EmptySeq
      <4>2. [past |-> past, future |-> <<>>, fresh |-> TRUE] \in History
        <5> HIDE DEF past
        <5> QED
          BY <4>1 DEF History
      <4> QED
        BY <3>5, <4>2
    <3>7. Len(history'.past) \in Nat /\ Len(<<>>) = 0
      BY <3>4, LenProperties
    <3> QED
      BY <2>0, <3>1, <3>4, <3>6, <3>7 DEF HistoryIsBounded
  <2>2. ASSUME Undo
        PROVE  HistoryIsBounded'
    <3> DEFINE rest == SubSeq(history.past, 1, Len(history.past) - 1)
    <3>1. /\ doc' = Last(history.past)
          /\ history' = [past |-> rest, future |-> <<doc>> \o history.future, fresh |-> FALSE]
          /\ history.past # <<>>
      BY <2>2 DEF Undo
    <3>2. /\ Last(history.past) \in Doc
          /\ rest \in Seq(Doc) /\ Len(rest) = Len(history.past) - 1
      BY <2>0, <3>1, SplitLast
    <3>3. <<doc>> \in Seq(Doc) /\ Len(<<doc>>) = 1
      BY <2>0
    <3>4. /\ <<doc>> \o history.future \in Seq(Doc)
          /\ Len(<<doc>> \o history.future) = 1 + Len(history.future)
      BY <2>0, <3>3, ConcatProperties
    <3> HIDE DEF rest
    <3> QED
      BY <2>0, <3>1, <3>2, <3>4 DEF HistoryIsBounded, History
  <2>3. ASSUME Redo
        PROVE  HistoryIsBounded'
    <3>1. /\ doc' = Head(history.future)
          /\ history' = [past |-> Append(history.past, doc), future |-> Tail(history.future),
                         fresh |-> FALSE]
          /\ history.future # <<>>
      BY <2>3 DEF Redo
    <3>2. /\ Head(history.future) \in Doc
          /\ Tail(history.future) \in Seq(Doc)
          /\ Len(Tail(history.future)) = Len(history.future) - 1
      BY <2>0, <3>1, SplitFirst
    <3>3. /\ Append(history.past, doc) \in Seq(Doc)
          /\ Len(Append(history.past, doc)) = Len(history.past) + 1
      BY <2>0, AppendProperties
    <3> QED
      BY <2>0, <3>1, <3>2, <3>3 DEF HistoryIsBounded, History
  <2>4. ASSUME Pause
        PROVE  HistoryIsBounded'
    BY <2>0, <2>4 DEF Pause, HistoryIsBounded, History
  <2>5. ASSUME UNCHANGED undoVars
        PROVE  HistoryIsBounded'
    BY <2>0, <2>5 DEF undoVars, HistoryIsBounded
  <2> QED
    BY <2>1, <2>2, <2>3, <2>4, <2>5 DEF UndoNext
<1> QED
  BY <1>1, <1>2, PTL DEF UndoSpec

\* Undo and redo lose and reorder nothing: they only move the document that is
\* shown along the timeline.
THEOREM Timeless == UndoSpec => UndoAndRedoKeepTheTimeline
<1>1. HistoryIsBounded /\ (Undo \/ Redo) => Timeline' = Timeline
  <2> SUFFICES ASSUME HistoryIsBounded, Undo \/ Redo
               PROVE  Timeline' = Timeline
    OBVIOUS
  <2>0. doc \in Doc /\ history.past \in Seq(Doc) /\ history.future \in Seq(Doc)
    BY DEF HistoryIsBounded, History
  <2> DEFINE shown == <<doc>>
  <2>1. shown \in Seq(Doc)
    BY <2>0
  <2>2. CASE Undo
    <3> DEFINE rest == SubSeq(history.past, 1, Len(history.past) - 1)
               before == <<Last(history.past)>>
    <3>1. /\ doc' = Last(history.past) /\ history.past # <<>>
          /\ history'.past = rest /\ history'.future = shown \o history.future
      BY <2>2 DEF Undo
    <3>2. /\ rest \in Seq(Doc) /\ before \in Seq(Doc)
          /\ history.past = rest \o before
      BY <2>0, <3>1, SplitLast
    <3>3. Timeline' = (rest \o before) \o (shown \o history.future)
      BY <3>1 DEF Timeline
    <3>4. Timeline = (history.past \o shown) \o history.future
      BY DEF Timeline
    <3>5. (history.past \o shown) \o history.future = history.past \o (shown \o history.future)
      <4> HIDE DEF shown
      <4>1. \A a, b, c \in Seq(Doc) : (a \o b) \o c = a \o (b \o c)
        BY ConcatAssociative
      <4> QED
        BY <2>0, <2>1, <4>1
    <3> HIDE DEF rest, before, shown
    <3> QED
      BY <3>2, <3>3, <3>4, <3>5
  <2>3. CASE Redo
    <3> DEFINE after == <<Head(history.future)>>
               rest == Tail(history.future)
    <3>1. /\ doc' = Head(history.future) /\ history.future # <<>>
          /\ history'.past = Append(history.past, doc) /\ history'.future = rest
      BY <2>3 DEF Redo
    <3>2. /\ rest \in Seq(Doc) /\ after \in Seq(Doc)
          /\ history.future = after \o rest
      BY <2>0, <3>1, SplitFirst
    <3>3. Append(history.past, doc) = history.past \o shown
      BY <2>0, AppendIsConcat
    <3>4. Timeline' = ((history.past \o shown) \o after) \o rest
      BY <3>1, <3>3 DEF Timeline
    <3>5. Timeline = (history.past \o shown) \o history.future
      BY DEF Timeline
    <3>6. history.past \o shown \in Seq(Doc)
      BY <2>0, <2>1, ConcatProperties
    <3>7. ((history.past \o shown) \o after) \o rest = (history.past \o shown) \o (after \o rest)
      <4> HIDE DEF rest, after, shown
      <4>1. \A a, b, c \in Seq(Doc) : (a \o b) \o c = a \o (b \o c)
        BY ConcatAssociative
      <4> QED
        BY <3>2, <3>6, <4>1
    <3> HIDE DEF rest, after, shown
    <3> QED
      BY <3>2, <3>4, <3>5, <3>7
  <2> QED
    BY <2>2, <2>3
<1>2. HistoryIsBounded /\ [UndoNext]_undoVars => [Undo \/ Redo => Timeline' = Timeline]_undoVars
  BY <1>1
<1> QED
  BY <1>2, Bound, PTL DEF UndoSpec, UndoAndRedoKeepTheTimeline
=============================================================================
