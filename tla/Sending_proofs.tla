--------------------------- MODULE Sending_proofs ---------------------------
(***************************************************************************)
(* Proofs about Sending, for any origins, lists, drafts and limits.        *)
(***************************************************************************)
EXTENDS Sending, FiniteSetTheorems, TLAPS

USE SendingAssumption

\* What Append does to a sequence's type, length and elements.
LEMMA Appended ==
  ASSUME NEW S, NEW s \in Seq(S), NEW e \in S
  PROVE  /\ Append(s, e) \in Seq(S)
         /\ Len(s) \in Nat
         /\ Len(Append(s, e)) = Len(s) + 1
         /\ DOMAIN s = 1..Len(s)
         /\ DOMAIN Append(s, e) = 1..(Len(s) + 1)
         /\ \A i \in 1..Len(s) : Append(s, e)[i] = s[i]
         /\ Append(s, e)[Len(s) + 1] = e
  OBVIOUS

(***************************************************************************)
(* The strengthening.  What a request under way carries is what the ones   *)
(* before it were allowed, so the invariants on what has been sent are     *)
(* kept by the request that is sent next.                                  *)
(***************************************************************************)
Underway == stage \in {"sending", "waiting"}

\* A hop in hand has passed the guard.
GuardedHop == stage = "sending" => Guard(request.method, request.at)

\* The hops and the requests are counted in step.
CountedHops ==
  /\ Len(hops) <= max_redirects
  /\ Len(wire) <= Len(hops) + 1
  /\ stage = "ready" => hops = <<>> /\ wire = <<>>
  /\ stage = "sending" => Len(wire) = Len(hops)
  /\ stage = "waiting" => Len(wire) = Len(hops) + 1
  /\ outcome = "answered" => Len(wire) = Len(hops) + 1
  /\ stage \in {"ready", "sending", "waiting"} => outcome = "none"

\* Authorization in hand means the chain never left its origin.
HomeOnly ==
  Underway /\ "authorization" \in request.creds =>
    /\ request.at = call.draft.at
    /\ \A j \in DOMAIN wire : wire[j].at = call.draft.at

\* A body in hand means the method never changed.
SameMethod ==
  Underway /\ request.send_body =>
    /\ request.method = call.draft.method
    /\ \A j \in DOMAIN wire : wire[j].method = call.draft.method

Chain == GuardedHop /\ CountedHops /\ HomeOnly /\ SameMethod

Safe ==
  /\ AgentsReachOnlyAllowedHosts
  /\ CredentialsStayAtTheirOrigin
  /\ BodiesKeepTheirMethod

SendingInv == SendingTypeOK /\ Chain /\ Safe

\* What the three promises and the chain are stated over.
promiseVars == <<stage, call, request, hops, wire, outcome>>

LEMMA InitSound == SendingInit => SendingInv
  <1> SUFFICES ASSUME SendingInit PROVE SendingInv
    OBVIOUS
  <1>1. \A d \in Draft : d \in [at: Origin, method: Method, body: BOOLEAN,
                      creds: SUBSET Credential, follow: BOOLEAN, fault: Fault]
    OBVIOUS
  <1>2. (CHOOSE d \in Draft : TRUE) \in Draft /\ (CHOOSE o \in Origin : TRUE) \in Origin
    OBVIOUS
  <1>3. SendingTypeOK
    <2>1. allow \in Policy \union {Broken} /\ stage \in Stage /\ outcome \in Outcome
      BY DEF SendingInit, Stage, Outcome
    <2>2. call \in [kind: {"user", "agent", "flow"}, draft: Draft, steps: Nat, policy: Policy]
      BY <1>2 DEF SendingInit
    <2>3. request \in [at: Origin, method: Method, creds: SUBSET Credential, send_body: BOOLEAN]
      BY <1>2 DEF SendingInit
    <2>4. hops \in Seq(Hop) /\ wire \in Seq(Sent) /\ history \in Seq(Row)
      BY DEF SendingInit
    <2>5. attempts \in [Party -> Nat] /\ cut \in BOOLEAN /\ calls \in Nat /\ edits \in Nat
      BY DEF SendingInit
    <2> QED
      BY <2>1, <2>2, <2>3, <2>4, <2>5 DEF SendingTypeOK
  <1>4. Chain /\ Safe
    BY DEF SendingInit, Chain, Safe, GuardedHop, CountedHops, HomeOnly, SameMethod,
       Underway, AgentsReachOnlyAllowedHosts, CredentialsStayAtTheirOrigin,
       BodiesKeepTheirMethod
  <1> QED
    BY <1>3, <1>4 DEF SendingInv

\* Recording a row keeps the history's type.
LEMMA RowsAreTyped ==
  ASSUME SendingTypeOK, NEW by \in Party, NEW how \in Outcome, Recorded(by, how)
  PROVE  history' \in Seq(Row)
  <1>1. [by |-> by, how |-> how] \in Row
    BY DEF Row
  <1> QED
    BY <1>1, Appended DEF Recorded, SendingTypeOK

\* Counting an attempt keeps its type.
LEMMA AttemptsAreTyped ==
  ASSUME SendingTypeOK, NEW by \in Party, Tried(by)
  PROVE  attempts' \in [Party -> Nat]
  BY DEF Tried, SendingTypeOK

\* Who asked is a party.
LEMMA ByIsAParty == ASSUME SendingTypeOK PROVE By \in Party
  BY DEF By, Party


(***************************************************************************)
(* The chain and what it promises, kept by each action.                    *)
(***************************************************************************)
\* Nothing the promises speak of changes.
LEMMA StillSound ==
  ASSUME SendingInv, UNCHANGED promiseVars
  PROVE  (Chain /\ Safe)'
  BY DEF promiseVars, SendingInv, Chain, Safe, GuardedHop, CountedHops, HomeOnly,
     SameMethod, Underway, Guard, AgentsReachOnlyAllowedHosts,
     CredentialsStayAtTheirOrigin, BodiesKeepTheirMethod

\* A call that ends, or is ended, with what it has sent so far.
LEMMA EndedSound ==
  ASSUME SendingInv, stage' \in {"idle", "ended"}, UNCHANGED <<call, hops, wire>>,
         outcome' = "answered" => stage = "waiting" \/ outcome = "answered"
  PROVE  (Chain /\ Safe)'
  <1>1. GuardedHop' /\ HomeOnly' /\ SameMethod'
    BY DEF GuardedHop, HomeOnly, SameMethod, Underway
  <1>2. CountedHops'
    BY DEF SendingInv, Chain, CountedHops
  <1>3. Safe'
    BY DEF SendingInv, Safe, AgentsReachOnlyAllowedHosts,
       CredentialsStayAtTheirOrigin, BodiesKeepTheirMethod
  <1> QED
    BY <1>1, <1>2, <1>3 DEF Chain

\* A new draft, nothing sent of it yet.
LEMMA AfreshSound ==
  ASSUME hops' = <<>>, wire' = <<>>, stage' \in {"idle", "ready"},
         outcome' # "answered", stage' = "ready" => outcome' = "none"
  PROVE  (Chain /\ Safe)'
  <1>1. GuardedHop' /\ HomeOnly' /\ SameMethod'
    BY DEF GuardedHop, HomeOnly, SameMethod, Underway
  <1>2. CountedHops'
    BY DEF CountedHops
  <1>3. Safe'
    BY DEF Safe, AgentsReachOnlyAllowedHosts, CredentialsStayAtTheirOrigin,
       BodiesKeepTheirMethod
  <1> QED
    BY <1>1, <1>2, <1>3 DEF Chain

LEMMA PrepareSound == SendingInv /\ Prepare => (Chain /\ Safe)'
  <1> SUFFICES ASSUME SendingInv, Prepare PROVE (Chain /\ Safe)'
    OBVIOUS
  <1>0. /\ stage = "ready" /\ hops = <<>> /\ wire = <<>> /\ outcome = "none"
        /\ UNCHANGED <<call, hops, wire>>
        /\ request'.at = call.draft.at /\ request'.method = call.draft.method
    BY DEF Prepare, Keep, SendingInv, Chain, CountedHops
  <1>1. CASE stage' = "sending"
    <2>1. GuardedHop'
      BY <1>0, <1>1 DEF Prepare, End, GuardedHop, Guard
    <2>2. CountedHops' /\ HomeOnly' /\ SameMethod'
      BY <1>0, <1>1 DEF Prepare, End, CountedHops, HomeOnly, SameMethod
    <2>3. Safe'
      BY <1>0 DEF Safe, AgentsReachOnlyAllowedHosts, CredentialsStayAtTheirOrigin,
         BodiesKeepTheirMethod
    <2> QED
      BY <2>1, <2>2, <2>3 DEF Chain
  <1>2. CASE stage' # "sending"
    <2>1. stage' = "ended" /\ outcome' # "answered"
      BY <1>0, <1>2 DEF Prepare, End
    <2> QED
      BY <2>1, <1>0, EndedSound
  <1> QED
    BY <1>1, <1>2

LEMMA TransmitSound == SendingInv /\ Transmit => (Chain /\ Safe)'
  <1> SUFFICES ASSUME SendingInv, Transmit PROVE (Chain /\ Safe)'
    OBVIOUS
  <1>0. stage = "sending" /\ UNCHANGED <<call, hops, request>>
    BY DEF Transmit, Keep
  <1>1. CASE stage' = "ended"
    <2>1. outcome' = "failed" /\ UNCHANGED wire
      BY <1>1 DEF Transmit, End
    <2> QED
      BY <2>1, <1>0, <1>1, EndedSound
  <1>2. CASE stage' # "ended"
    <2> DEFINE sent == [at |-> request.at, method |-> request.method,
                        body |-> BodyIsSent, creds |-> request.creds]
    <2>1. stage' = "waiting" /\ wire' = Append(wire, sent) /\ outcome' = outcome
      BY <1>2 DEF Transmit, End
    <2>2. sent \in Sent /\ wire \in Seq(Sent) /\ hops \in Seq(Hop)
      BY DEF SendingInv, SendingTypeOK, Sent, BodyIsSent
    <2>3. /\ sent.at = request.at /\ sent.method = request.method
          /\ sent.creds = request.creds
          /\ sent.body => request.send_body /\ call.draft.body
      BY DEF BodyIsSent
    <2> HIDE DEF sent
    <2>4. /\ Len(wire) \in Nat /\ Len(wire') = Len(wire) + 1
          /\ DOMAIN wire = 1..Len(wire) /\ DOMAIN wire' = 1..(Len(wire) + 1)
          /\ \A i \in 1..Len(wire) : wire'[i] = wire[i]
          /\ wire'[Len(wire) + 1] = sent
      BY <2>1, <2>2, Appended
    <2>5. GuardedHop'
      BY <2>1 DEF GuardedHop
    <2>6. CountedHops'
      BY <1>0, <2>1, <2>2, <2>4 DEF SendingInv, Chain, CountedHops
    <2>7. HomeOnly' /\ CredentialsStayAtTheirOrigin'
      BY <1>0, <2>3, <2>4 DEF SendingInv, Chain, Safe, HomeOnly, Underway,
         CredentialsStayAtTheirOrigin
    <2>8. SameMethod' /\ BodiesKeepTheirMethod'
      BY <1>0, <2>3, <2>4 DEF SendingInv, Chain, Safe, SameMethod, Underway,
         BodiesKeepTheirMethod
    <2>9. AgentsReachOnlyAllowedHosts'
      BY <1>0, <2>3, <2>4 DEF SendingInv, Chain, Safe, GuardedHop, Guard,
         AgentsReachOnlyAllowedHosts
    <2> QED
      BY <2>5, <2>6, <2>7, <2>8, <2>9 DEF Chain, Safe
  <1> QED
    BY <1>1, <1>2

LEMMA RedirectSound ==
  ASSUME SendingInv, NEW status \in {301, 302, 303, 307, 308}, NEW to \in Origin,
         Redirect(status, to)
  PROVE  (Chain /\ Safe)'
  <1>0. stage = "waiting" /\ UNCHANGED <<call, wire>>
    BY DEF Redirect, Keep
  <1>1. CASE TooMany(Len(hops))
    BY <1>0, <1>1, EndedSound DEF Redirect, End
  <1>2. CASE ~TooMany(Len(hops))
    <2> DEFINE method == IF Downgrades(status) THEN "GET" ELSE request.method
               creds  == Carried(request.creds, request.at, to)
               hop    == HopTo(to, creds)
    <2>1. /\ hops' = Append(hops, hop)
          /\ request' = [at |-> to, method |-> method, creds |-> creds,
                         send_body |-> SendBody(status)]
          /\ IF NextHop(method, to) THEN stage' = "sending" /\ UNCHANGED outcome
                                    ELSE End("refused")
      BY <1>2 DEF Redirect
    <2>2. hop \in Hop /\ hops \in Seq(Hop) /\ wire \in Seq(Sent)
      BY DEF SendingInv, SendingTypeOK, Hop, HopTo
    <2>3. creds # {} => creds = request.creds
      BY DEF Carried
    <2>4. "authorization" \in creds => request.at = to /\ "authorization" \in request.creds
      BY DEF Carried
    <2>5. SendBody(status) => request.send_body /\ method = request.method
      BY DEF SendBody
    <2>6. NextHop(method, to) = Guard(method, to)
      BY DEF NextHop
    <2> HIDE DEF method, creds, hop
    <2>7. Len(hops) \in Nat /\ Len(hops') = Len(hops) + 1 /\ Len(wire) \in Nat
      BY <2>1, <2>2, Appended
    <2>8. GuardedHop'
      BY <1>0, <2>1, <2>6 DEF GuardedHop, Guard, End
    <2>9. CountedHops'
      BY <1>0, <1>2, <2>1, <2>7 DEF SendingInv, Chain, CountedHops, TooMany, End
    <2>10. HomeOnly'
      BY <1>0, <2>1, <2>4 DEF SendingInv, Chain, HomeOnly, Underway
    <2>11. SameMethod'
      BY <1>0, <2>1, <2>5 DEF SendingInv, Chain, SameMethod, Underway
    <2>12. Safe'
      BY <1>0 DEF SendingInv, Safe, AgentsReachOnlyAllowedHosts,
         CredentialsStayAtTheirOrigin, BodiesKeepTheirMethod
    <2> QED
      BY <2>8, <2>9, <2>10, <2>11, <2>12 DEF Chain
  <1> QED
    BY <1>1, <1>2

(***************************************************************************)
(* Types, action by action.                                                *)
(***************************************************************************)
\* What was asked for is of its type, and so is what an early end leaves.
LEMMA AskTyped ==
  ASSUME SendingTypeOK, NEW kind \in {"user", "agent", "flow"}, NEW draft \in Draft,
         NEW steps \in Nat, Ask(kind, draft, steps)
  PROVE  /\ call' \in [kind: {"user", "agent", "flow"}, draft: Draft, steps: Nat,
                       policy: Policy]
         /\ calls' \in Nat /\ hops' \in Seq(Hop) /\ wire' \in Seq(Sent)
         /\ UNCHANGED <<allow, request, cut, edits>>
  <1>1. (IF allow = Broken THEN Nothing ELSE allow) \in Policy
    BY DEF SendingTypeOK
  <1> QED
    BY <1>1 DEF Ask, SendingTypeOK

LEMMA AskedSound == SendingInv /\ Asked => SendingInv'
  <1> SUFFICES ASSUME SendingInv, Asked PROVE SendingInv'
    OBVIOUS
  <1> USE DEF SendingInv
  <1>1. ASSUME NEW draft \in Draft, SendForUser(draft)
        PROVE  SendingInv'
    <2>1. Ask("user", draft, 0) /\ UNCHANGED <<history, attempts>>
          /\ stage' \in {"idle", "ready"} /\ outcome' \in {"undefined", "none"}
          /\ (stage' = "ready" => outcome' = "none")
      BY <1>1 DEF SendForUser, Settle
    <2>2. SendingTypeOK'
      BY <2>1, AskTyped DEF SendingTypeOK, Stage, Outcome
    <2> QED
      BY <2>1, <2>2, AfreshSound DEF Ask
  <1>2. ASSUME NEW draft \in Draft, SendForAgent(draft)
        PROVE  SendingInv'
    <2>1. Ask("agent", draft, 0)
      BY <1>2 DEF SendForAgent
    <2>2. /\ stage' \in {"idle", "ready"}
          /\ outcome' \in {"undefined", "none", "failed", "refused"}
          /\ stage' = "ready" => outcome' = "none"
      BY <1>2 DEF SendForAgent, Settle, RefuseFirst
    <2>3. history' \in Seq(Row) /\ attempts' \in [Party -> Nat]
      <3>1. CASE UNCHANGED <<history, attempts>>
        BY <3>1 DEF SendingTypeOK
      <3>2. CASE RefuseFirst
        BY <3>2, RowsAreTyped, AttemptsAreTyped DEF RefuseFirst, Party, Outcome
      <3> QED
        BY <1>2, <3>1, <3>2 DEF SendForAgent
    <2>4. SendingTypeOK'
      BY <2>1, <2>2, <2>3, AskTyped DEF SendingTypeOK, Stage, Outcome
    <2> QED
      BY <2>1, <2>2, <2>4, AfreshSound DEF Ask
  <1>3. ASSUME NEW draft \in Draft, NEW steps \in 0..MaxSteps, RunFlowForAgent(draft, steps)
        PROVE  SendingInv'
    <2>1. Ask("flow", draft, steps) /\ UNCHANGED <<history, attempts>>
          /\ stage' \in {"idle", "ready"} /\ outcome' \in {"failed", "none"}
          /\ (stage' = "ready" => outcome' = "none")
      BY <1>3 DEF RunFlowForAgent, Settle
    <2>2. SendingTypeOK'
      BY <2>1, AskTyped DEF SendingTypeOK, Stage, Outcome
    <2> QED
      BY <2>1, <2>2, AfreshSound DEF Ask
  <1> QED
    BY <1>1, <1>2, <1>3 DEF Asked

LEMMA PrepareTyped == SendingInv /\ Prepare => SendingTypeOK'
  <1> SUFFICES ASSUME SendingInv, Prepare PROVE SendingTypeOK'
    OBVIOUS
  <1> USE DEF SendingInv
  <1>1. attempts' \in [Party -> Nat]
    <2>1. UNCHANGED attempts \/ Tried(By)
      BY DEF Prepare
    <2> QED
      BY <2>1, ByIsAParty, AttemptsAreTyped DEF SendingTypeOK
  <1>2. request' \in [at: Origin, method: Method, creds: SUBSET Credential, send_body: BOOLEAN]
    BY DEF Prepare, SendingTypeOK
  <1>3. stage' \in Stage /\ outcome' \in Outcome
    BY DEF Prepare, End, SendingTypeOK, Stage, Outcome
  <1> QED
    BY <1>1, <1>2, <1>3 DEF Prepare, Keep, SendingTypeOK

LEMMA TransmitTyped == SendingInv /\ Transmit => SendingTypeOK'
  <1> SUFFICES ASSUME SendingInv, Transmit PROVE SendingTypeOK'
    OBVIOUS
  <1> USE DEF SendingInv
  <1>1. attempts' \in [Party -> Nat]
    <2>1. UNCHANGED attempts \/ Tried(By)
      BY DEF Transmit
    <2> QED
      BY <2>1, ByIsAParty, AttemptsAreTyped DEF SendingTypeOK
  <1>2. wire' \in Seq(Sent)
    <2>1. [at |-> request.at, method |-> request.method, body |-> BodyIsSent,
           creds |-> request.creds] \in Sent
      BY DEF SendingTypeOK, Sent, BodyIsSent
    <2> DEFINE sent == [at |-> request.at, method |-> request.method, body |-> BodyIsSent,
                        creds |-> request.creds]
    <2>2. UNCHANGED wire \/ wire' = Append(wire, sent)
      BY DEF Transmit
    <2>3. wire \in Seq(Sent)
      BY DEF SendingTypeOK
    <2> HIDE DEF sent
    <2>4. sent \in Sent => Append(wire, sent) \in Seq(Sent)
      BY <2>3, Appended
    <2> QED
      BY <2>1, <2>2, <2>3, <2>4 DEF sent
  <1>3. stage' \in Stage /\ outcome' \in Outcome
    BY DEF Transmit, End, SendingTypeOK, Stage, Outcome
  <1> QED
    BY <1>1, <1>2, <1>3 DEF Transmit, Keep, SendingTypeOK

LEMMA RedirectTyped ==
  ASSUME SendingInv, NEW status \in {301, 302, 303, 307, 308}, NEW to \in Origin,
         Redirect(status, to)
  PROVE  SendingTypeOK'
  <1> USE DEF SendingInv
  <1> DEFINE method == IF Downgrades(status) THEN "GET" ELSE request.method
             creds  == Carried(request.creds, request.at, to)
  <1>1. method \in Method /\ creds \in SUBSET Credential /\ SendBody(status) \in BOOLEAN
    BY DEF SendingTypeOK, Carried, SendBody, Downgrades
  <1>2. HopTo(to, creds) \in Hop
    BY <1>1 DEF HopTo, Hop, SendingTypeOK
  <1> HIDE DEF method, creds
  <1>3. \/ UNCHANGED <<hops, request>>
        \/ /\ hops' = Append(hops, HopTo(to, creds))
           /\ request' = [at |-> to, method |-> method, creds |-> creds,
                          send_body |-> SendBody(status)]
    BY DEF Redirect, method, creds
  <1>4. hops' \in Seq(Hop)
    <2>1. hops \in Seq(Hop)
      BY DEF SendingTypeOK
    <2>2. Append(hops, HopTo(to, creds)) \in Seq(Hop)
      BY <1>2, <2>1, Appended
    <2> QED
      BY <1>3, <2>1, <2>2
  <1>5. request' \in [at: Origin, method: Method, creds: SUBSET Credential, send_body: BOOLEAN]
    BY <1>1, <1>3 DEF SendingTypeOK
  <1>6. stage' \in Stage /\ outcome' \in Outcome
    BY DEF Redirect, End, SendingTypeOK, Stage, Outcome
  <1> QED
    BY <1>4, <1>5, <1>6 DEF Redirect, Keep, SendingTypeOK

\* No answer, an answer that is passed on, or a redirect to nowhere.
LEMMA PlainEndSound ==
  ASSUME SendingInv, stage = "waiting", NEW how \in {"failed", "answered"}, End(how),
         UNCHANGED <<request, hops, wire, attempts>>, Keep
  PROVE  SendingInv'
  <1>1. SendingTypeOK'
    BY DEF SendingInv, SendingTypeOK, End, Keep, Stage, Outcome
  <1>2. (Chain /\ Safe)'
    BY EndedSound DEF End, Keep
  <1> QED
    BY <1>1, <1>2 DEF SendingInv

LEMMA AnsweredSound == SendingInv /\ Answered => SendingInv'
  <1> SUFFICES ASSUME SendingInv, Answered PROVE SendingInv'
    OBVIOUS
  <1>1. CASE Fail
    BY <1>1, PlainEndSound DEF Fail
  <1>2. CASE Finish
    BY <1>2, PlainEndSound DEF Finish
  <1>3. CASE BadRedirect
    BY <1>3, PlainEndSound DEF BadRedirect
  <1>4. ASSUME NEW status \in {301, 302, 303, 307, 308}, NEW to \in Origin,
               Redirect(status, to)
        PROVE  SendingInv'
    BY <1>4, RedirectSound, RedirectTyped DEF SendingInv
  <1> QED
    BY <1>1, <1>2, <1>3, <1>4 DEF Answered

LEMMA ConcludeSound == SendingInv /\ Conclude => SendingInv'
  <1> SUFFICES ASSUME SendingInv, Conclude PROVE SendingInv'
    OBVIOUS
  <1> USE DEF SendingInv
  <1>1. history' \in Seq(Row)
    <2>1. UNCHANGED history \/ Recorded(By, outcome)
      BY DEF Conclude
    <2> QED
      BY <2>1, RowsAreTyped, ByIsAParty DEF SendingTypeOK
  <1>2. CASE ~MoreToRun
    <2>1. stage' = "idle" /\ UNCHANGED <<call, outcome, hops, wire>>
      BY <1>2 DEF Conclude
    <2>2. SendingTypeOK'
      BY <1>1, <2>1 DEF Conclude, SendingTypeOK, Stage
    <2> QED
      BY <2>1, <2>2, EndedSound
  <1>3. CASE MoreToRun
    <2>1. PICK draft \in Draft : call' = [call EXCEPT !.draft = draft, !.steps = @ - 1]
      BY <1>3 DEF Conclude
    <2>2. stage' = "ready" /\ outcome' = "none" /\ hops' = <<>> /\ wire' = <<>>
      BY <1>3 DEF Conclude
    <2>3. call.steps - 1 \in Nat
      BY <1>3 DEF MoreToRun, SendingTypeOK
    <2>4. call' \in [kind: {"user", "agent", "flow"}, draft: Draft, steps: Nat, policy: Policy]
      BY <2>1, <2>3 DEF SendingTypeOK
    <2>5. UNCHANGED <<allow, request, attempts, cut, calls, edits>>
      BY DEF Conclude
    <2>6. SendingTypeOK'
      BY <1>1, <2>2, <2>4, <2>5 DEF SendingTypeOK, Stage, Outcome
    <2> QED
      BY <2>2, <2>6, AfreshSound
  <1> QED
    BY <1>2, <1>3

\* Every step of the specification keeps the strengthened invariant.
LEMMA NextSound == SendingInv /\ [SendingNext]_sendingVars => SendingInv'
  <1> SUFFICES ASSUME SendingInv, [SendingNext]_sendingVars PROVE SendingInv'
    OBVIOUS
  <1>1. CASE Asked
    BY <1>1, AskedSound
  <1>2. CASE Prepare
    BY <1>2, PrepareSound, PrepareTyped DEF SendingInv
  <1>3. CASE Transmit
    BY <1>3, TransmitSound, TransmitTyped DEF SendingInv
  <1>4. CASE Answered
    BY <1>4, AnsweredSound
  <1>5. CASE Conclude
    BY <1>5, ConcludeSound
  <1>6. CASE Quit
    <2>1. SendingTypeOK'
      BY <1>6 DEF Quit, SendingInv, SendingTypeOK, Stage
    <2> QED
      BY <1>6, <2>1, EndedSound DEF Quit, SendingInv
  <1>7. ASSUME NEW list \in Policy \union {Broken}, EditAllow(list)
        PROVE  SendingInv'
    <2>1. SendingTypeOK'
      BY <1>7 DEF EditAllow, callVars, SendingInv, SendingTypeOK
    <2> QED
      BY <1>7, <2>1, StillSound DEF EditAllow, callVars, promiseVars, SendingInv
  <1>8. CASE UNCHANGED sendingVars
    <2>1. SendingTypeOK'
      BY <1>8 DEF sendingVars, callVars, SendingInv, SendingTypeOK
    <2> QED
      BY <1>8, <2>1, StillSound DEF sendingVars, callVars, promiseVars, SendingInv
  <1> QED
    BY <1>1, <1>2, <1>3, <1>4, <1>5, <1>6, <1>7, <1>8 DEF SendingNext, Engine

LEMMA AlwaysSound == SendingSpec => []SendingInv
  BY InitSound, NextSound, PTL DEF SendingSpec

(***************************************************************************)
(* What follows.                                                           *)
(***************************************************************************)
\* Every call, hop and row is what it should be.
THEOREM SendingTypeCorrect == SendingSpec => []SendingTypeOK
  <1>1. SendingInv => SendingTypeOK
    BY DEF SendingInv
  <1> QED
    BY <1>1, AlwaysSound, PTL

\* Whatever servers answer, an agent's requests go where its list allows, and
\* only with the methods it allows there.
THEOREM AgentsAreHeld == SendingSpec => []AgentsReachOnlyAllowedHosts
  <1>1. SendingInv => AgentsReachOnlyAllowedHosts
    BY DEF SendingInv, Safe
  <1> QED
    BY <1>1, AlwaysSound, PTL

\* Authorization never leaves the origin it was written for.
THEOREM CredentialsAreHeld == SendingSpec => []CredentialsStayAtTheirOrigin
  <1>1. SendingInv => CredentialsStayAtTheirOrigin
    BY DEF SendingInv, Safe
  <1> QED
    BY <1>1, AlwaysSound, PTL

\* A body never goes with another method than its own.
THEOREM BodiesAreHeld == SendingSpec => []BodiesKeepTheirMethod
  <1>1. SendingInv => BodiesKeepTheirMethod
    BY DEF SendingInv, Safe
  <1> QED
    BY <1>1, AlwaysSound, PTL

\* No chain of servers keeps a request going beyond the limit.
THEOREM ChainsEnd == SendingSpec => []RedirectsAreBounded
  <1>1. SendingInv => RedirectsAreBounded
    <2> SUFFICES ASSUME SendingInv PROVE RedirectsAreBounded
      OBVIOUS
    <2>1. hops \in Seq(Hop) /\ wire \in Seq(Sent)
      BY DEF SendingInv, SendingTypeOK
    <2> QED
      BY <2>1 DEF SendingInv, Chain, CountedHops, RedirectsAreBounded
  <1> QED
    BY <1>1, AlwaysSound, PTL

(***************************************************************************)
(* What was tried has its row.                                             *)
(***************************************************************************)
\* What has reached a server or was refused, and whose row is still to come.
Owed == stage # "idle" /\ (wire # <<>> \/ (stage = "ended" /\ outcome = "refused"))

\* What ends as undefined has not been sent.
UndefinedIsUnsent == stage = "ended" /\ outcome = "undefined" => wire = <<>>

RowsAreOwed ==
  ~cut /\ Recordings = {TRUE} =>
    \A by \in Party : attempts[by] <= RowsOf(by) + (IF by = By /\ Owed THEN 1 ELSE 0)

RowsInv == SendingInv /\ UndefinedIsUnsent /\ RowsAreOwed

RowsAt(by) == {k \in DOMAIN history : history[k].by = by /\ history[k].how # "undefined"}

LEMMA RowsAreCounted ==
  ASSUME SendingTypeOK, NEW by
  PROVE  IsFiniteSet(RowsAt(by)) /\ RowsOf(by) = Cardinality(RowsAt(by)) /\ RowsOf(by) \in Nat
<1>1. history \in Seq(Row) /\ Len(history) \in Nat
  BY DEF SendingTypeOK
<1>2. RowsAt(by) \subseteq 1..Len(history)
  BY <1>1 DEF RowsAt
<1>3. IsFiniteSet(1..Len(history))
  BY <1>1, FS_Interval
<1>4. IsFiniteSet(RowsAt(by))
  BY ONLY <1>2, <1>3, FS_Subset
<1> QED
  BY <1>4, FS_CardinalityType DEF RowsOf, RowsAt

\* With a store that works, a row is one more for whom it names.
LEMMA RowIsAdded ==
  ASSUME SendingTypeOK, Recordings = {TRUE}, NEW by \in Party, NEW how \in Outcome, Recorded(by, how)
  PROVE  /\ \A party \in Party : RowsOf(party)' \in Nat /\ RowsOf(party)' >= RowsOf(party)
         /\ how # "undefined" => RowsOf(by)' = RowsOf(by) + 1
<1> DEFINE row == [by |-> by, how |-> how]
           n   == Len(history)
<1>1. history' = Append(history, row) /\ history \in Seq(Row) /\ row \in Row /\ row.by = by /\ row.how = how
  BY DEF Recorded, SendingTypeOK, Row
<1> HIDE DEF row
<1>2. /\ n \in Nat /\ DOMAIN history = 1..n /\ DOMAIN history' = 1..(n + 1)
      /\ \A k \in 1..n : history'[k] = history[k]
      /\ history'[n + 1] = row
  BY <1>1, Appended
<1> HIDE DEF n
<1>3. \A party \in Party : RowsOf(party)' = Cardinality(RowsAt(party)')
  BY DEF RowsOf, RowsAt
<1>4. ASSUME NEW party \in Party
      PROVE  /\ RowsAt(party) \subseteq 1..n
             /\ IF row.by = party /\ row.how # "undefined"
                  THEN RowsAt(party)' = RowsAt(party) \union {n + 1}
                  ELSE RowsAt(party)' = RowsAt(party)
  BY <1>2 DEF RowsAt
<1>5. \A party \in Party : n + 1 \notin RowsAt(party)
  BY <1>2, <1>4
<1>6. ASSUME NEW party \in Party
      PROVE  Cardinality(RowsAt(party) \union {n + 1}) = Cardinality(RowsAt(party)) + 1
  BY <1>5, RowsAreCounted, FS_AddElement
<1>7. ASSUME NEW party \in Party
      PROVE  \/ RowsOf(party)' = RowsOf(party)
             \/ RowsOf(party)' = RowsOf(party) + 1
  BY <1>3, <1>4, <1>6, RowsAreCounted
<1>8. how # "undefined" => RowsOf(by)' = RowsOf(by) + 1
  BY <1>1, <1>3, <1>4, <1>6, RowsAreCounted
<1> QED
  BY <1>7, <1>8, RowsAreCounted

LEMMA RowsAreKept ==
  ASSUME SendingTypeOK, UNCHANGED history
  PROVE  \A party \in Party : RowsOf(party)' = RowsOf(party) /\ RowsOf(party) \in Nat
BY RowsAreCounted DEF RowsOf

\* A step of a call that adds no row: what it tries, it owes.
LEMMA TriesOwe ==
  ASSUME RowsInv, UNCHANGED <<history, cut>>, By' = By, Owed => Owed',
         UNCHANGED attempts \/ (Tried(By) /\ ~Owed /\ Owed')
  PROVE  RowsAreOwed'
<1> SUFFICES ASSUME ~cut', Recordings = {TRUE}, NEW by \in Party
             PROVE  attempts'[by] <= RowsOf(by)' + (IF by = By' /\ Owed' THEN 1 ELSE 0)
  BY DEF RowsAreOwed
<1>1. RowsOf(by)' = RowsOf(by) /\ RowsOf(by) \in Nat /\ attempts[by] \in Nat /\ By \in Party
  BY RowsAreKept, ByIsAParty DEF RowsInv, SendingInv, SendingTypeOK
<1>2. attempts[by] <= RowsOf(by) + (IF by = By /\ Owed THEN 1 ELSE 0)
  BY DEF RowsInv, RowsAreOwed
<1>3. CASE UNCHANGED attempts
  BY <1>1, <1>2, <1>3
<1>4. CASE Tried(By) /\ ~Owed /\ Owed'
  <2>1. attempts'[by] = IF by = By THEN attempts[by] + 1 ELSE attempts[by]
    BY <1>1, <1>4 DEF Tried, RowsInv, SendingInv, SendingTypeOK
  <2> QED
    BY <1>1, <1>2, <1>4, <2>1
<1> QED
  BY <1>3, <1>4

LEMMA NothingOwed ==
  ASSUME UNCHANGED cut, ~Owed',
         ~cut /\ Recordings = {TRUE} =>
           \A by \in Party : attempts'[by] <= RowsOf(by)' /\ RowsOf(by)' \in Nat
  PROVE  RowsAreOwed'
<1> SUFFICES ASSUME ~cut', Recordings = {TRUE}, NEW by \in Party
             PROVE  attempts'[by] <= RowsOf(by)' + (IF by = By' /\ Owed' THEN 1 ELSE 0)
  BY DEF RowsAreOwed
<1>1. (IF by = By' /\ Owed' THEN 1 ELSE 0) = 0
  OBVIOUS
<1>2. attempts'[by] <= RowsOf(by)' /\ RowsOf(by)' \in Nat
  OBVIOUS
<1>3. attempts'[by] <= RowsOf(by)' + 0
  BY <1>2
<1> QED
  BY <1>1, <1>3

\* Asking begins with nothing owed, and with nothing sent.
LEMMA AskedOwes == RowsInv /\ Asked => UndefinedIsUnsent' /\ RowsAreOwed'
<1> SUFFICES ASSUME RowsInv, Asked PROVE UndefinedIsUnsent' /\ RowsAreOwed'
  OBVIOUS
<1>1. /\ stage = "idle" /\ wire' = <<>> /\ stage' \in {"idle", "ready"} /\ UNCHANGED cut
      /\ UNCHANGED <<history, attempts>> \/ RefuseFirst
  BY DEF Asked, SendForUser, SendForAgent, RunFlowForAgent, Ask, Settle, RefuseFirst
<1>2. ~Owed /\ ~Owed' /\ UndefinedIsUnsent'
  BY <1>1 DEF Owed, UndefinedIsUnsent
<1>3. ASSUME ~cut, Recordings = {TRUE}, NEW by \in Party
      PROVE  attempts'[by] <= RowsOf(by)' /\ RowsOf(by)' \in Nat
  <2>1. attempts[by] <= RowsOf(by) + 0
    BY <1>2, <1>3 DEF RowsInv, RowsAreOwed
  <2>2. attempts[by] \in Nat /\ SendingTypeOK /\ RowsOf(by) \in Nat
    BY RowsAreCounted DEF RowsInv, SendingInv, SendingTypeOK
  <2>3. CASE UNCHANGED <<history, attempts>>
    BY <2>1, <2>2, <2>3, RowsAreKept
  <2>4. CASE RefuseFirst
    <3>1. Recorded("agent", "refused") /\ Tried("agent") /\ "agent" \in Party /\ "refused" \in Outcome
      BY <2>4 DEF RefuseFirst, Party, Outcome
    <3>2. RowsOf(by)' \in Nat /\ RowsOf(by)' >= RowsOf(by) /\ RowsOf("agent")' = RowsOf("agent") + 1
      BY <1>3, <2>2, <3>1, RowIsAdded
    <3>3. attempts'[by] = IF by = "agent" THEN attempts[by] + 1 ELSE attempts[by]
      BY <3>1 DEF Tried, RowsInv, SendingInv, SendingTypeOK
    <3> QED
      BY <2>1, <2>2, <3>2, <3>3
  <2> QED
    BY <1>1, <2>3, <2>4
<1> QED
  BY <1>1, <1>2, <1>3, NothingOwed

LEMMA PrepareOwes == RowsInv /\ Prepare => UndefinedIsUnsent' /\ RowsAreOwed'
<1> SUFFICES ASSUME RowsInv, Prepare PROVE UndefinedIsUnsent' /\ RowsAreOwed'
  OBVIOUS
<1>1. stage = "ready" /\ wire = <<>> /\ outcome = "none" /\ UNCHANGED <<wire, call, history, cut>>
  BY DEF Prepare, Keep, RowsInv, SendingInv, Chain, CountedHops
<1>2. ~Owed /\ UndefinedIsUnsent' /\ By' = By
  BY <1>1 DEF Owed, UndefinedIsUnsent, By
<1>3. UNCHANGED attempts \/ (Tried(By) /\ Owed')
  BY DEF Prepare, End, Owed
<1> QED
  BY <1>1, <1>2, <1>3, TriesOwe

LEMMA TransmitOwes == RowsInv /\ Transmit => UndefinedIsUnsent' /\ RowsAreOwed'
<1> SUFFICES ASSUME RowsInv, Transmit PROVE UndefinedIsUnsent' /\ RowsAreOwed'
  OBVIOUS
<1> DEFINE sent == [at |-> request.at, method |-> request.method,
                    body |-> BodyIsSent, creds |-> request.creds]
<1>1. stage = "sending" /\ UNCHANGED <<call, history, cut>> /\ By' = By /\ stage' \in {"ended", "waiting"}
      /\ outcome' # "undefined"
  BY DEF Transmit, Keep, By, End, RowsInv, SendingInv, Chain, CountedHops
<1>2. UNCHANGED wire \/ wire' = Append(wire, sent)
  BY DEF Transmit
<1>3. wire \in Seq(Sent) /\ sent \in Sent
  BY DEF RowsInv, SendingInv, SendingTypeOK, Sent, BodyIsSent
<1> HIDE DEF sent
<1>4. Append(wire, sent) # <<>>
  BY ONLY <1>3
<1>5. Owed => Owed'
  BY <1>1, <1>2, <1>4 DEF Owed
<1>6. UNCHANGED attempts \/ (Tried(By) /\ ~Owed /\ Owed')
  BY <1>1, <1>2, <1>4 DEF Transmit, Owed, sent
<1> QED
  BY <1>1, <1>5, <1>6, TriesOwe DEF UndefinedIsUnsent

LEMMA AnsweredOwes == RowsInv /\ Answered => UndefinedIsUnsent' /\ RowsAreOwed'
<1> SUFFICES ASSUME RowsInv, Answered PROVE UndefinedIsUnsent' /\ RowsAreOwed'
  OBVIOUS
<1>1. /\ stage = "waiting" /\ stage' # "idle" /\ UNCHANGED <<wire, attempts, call, history, cut>>
      /\ outcome' # "undefined"
  BY DEF Answered, Fail, Finish, BadRedirect, Redirect, End, Keep, RowsInv, SendingInv, Chain, CountedHops
<1>2. By' = By /\ (Owed => Owed') /\ UndefinedIsUnsent'
  BY <1>1 DEF By, Owed, UndefinedIsUnsent
<1> QED
  BY <1>1, <1>2, TriesOwe

\* The row that was owed is written, or nothing was owed.
LEMMA ConcludePays == RowsInv /\ Conclude => UndefinedIsUnsent' /\ RowsAreOwed'
<1> SUFFICES ASSUME RowsInv, Conclude PROVE UndefinedIsUnsent' /\ RowsAreOwed'
  OBVIOUS
<1>1. stage = "ended" /\ UNCHANGED <<attempts, cut>> /\ stage' \in {"idle", "ready"}
      /\ (stage' = "ready" => wire' = <<>>)
  BY DEF Conclude
<1>2. ~Owed' /\ UndefinedIsUnsent'
  BY <1>1 DEF Owed, UndefinedIsUnsent
<1>3. ASSUME ~cut, Recordings = {TRUE}, NEW by \in Party
      PROVE  attempts'[by] <= RowsOf(by)' /\ RowsOf(by)' \in Nat
  <2>1. /\ attempts[by] <= RowsOf(by) + (IF by = By /\ Owed THEN 1 ELSE 0)
        /\ attempts[by] \in Nat /\ SendingTypeOK /\ RowsOf(by) \in Nat /\ By \in Party
    BY <1>3, RowsAreCounted, ByIsAParty DEF RowsInv, RowsAreOwed, SendingInv, SendingTypeOK
  <2>2. CASE outcome = "undefined"
    <3>1. ~Owed /\ UNCHANGED history
      BY <1>1, <2>2 DEF Conclude, Owed, RowsInv, UndefinedIsUnsent
    <3> QED
      BY <1>1, <2>1, <3>1, RowsAreKept
  <2>3. CASE outcome # "undefined"
    <3>1. PICK me \in Party, how \in Outcome : me = By /\ how = outcome
      BY <2>1 DEF SendingTypeOK
    <3>2. Recorded(me, how)
      BY <2>3, <3>1 DEF Conclude
    <3>3. /\ RowsOf(by)' \in Nat /\ RowsOf(by)' >= RowsOf(by)
          /\ by = me => RowsOf(by)' = RowsOf(by) + 1
      BY <1>3, <2>1, <2>3, <3>1, <3>2, RowIsAdded
    <3> QED
      BY <1>1, <2>1, <3>1, <3>3
  <2> QED
    BY <2>2, <2>3
<1> QED
  BY <1>1, <1>2, <1>3, NothingOwed

LEMMA RowsInvStarts == SendingInit => RowsInv
<1> SUFFICES ASSUME SendingInit PROVE RowsInv
  OBVIOUS
<1>1. SendingInv
  BY InitSound
<1>2. UndefinedIsUnsent /\ ~Owed /\ \A by \in Party : attempts[by] = 0
  BY DEF SendingInit, UndefinedIsUnsent, Owed
<1>3. \A by \in Party : RowsOf(by) \in Nat
  BY <1>1, RowsAreCounted DEF SendingInv
<1>4. RowsAreOwed
  <2> SUFFICES ASSUME NEW by \in Party
               PROVE  attempts[by] <= RowsOf(by) + (IF by = By /\ Owed THEN 1 ELSE 0)
    BY DEF RowsAreOwed
  <2>1. (IF by = By /\ Owed THEN 1 ELSE 0) = 0
    BY <1>2
  <2>2. attempts[by] <= RowsOf(by) + 0
    BY <1>2, <1>3
  <2> QED
    BY <2>1, <2>2
<1> QED
  BY <1>1, <1>2, <1>4 DEF RowsInv

LEMMA RowsInvIsKept == RowsInv /\ [SendingNext]_sendingVars => RowsInv'
<1> SUFFICES ASSUME RowsInv, [SendingNext]_sendingVars PROVE UndefinedIsUnsent' /\ RowsAreOwed'
  BY NextSound DEF RowsInv
<1>1. CASE Asked
  BY <1>1, AskedOwes
<1>2. CASE Engine
  BY <1>2, PrepareOwes, TransmitOwes, AnsweredOwes, ConcludePays DEF Engine
<1>3. CASE Quit
  BY <1>3 DEF Quit, UndefinedIsUnsent, RowsAreOwed
<1>4. CASE (\E list \in Policy \union {Broken} : EditAllow(list)) \/ UNCHANGED sendingVars
  <2>1. UNCHANGED <<callVars, history, attempts, cut>>
    BY <1>4 DEF EditAllow, sendingVars
  <2>2. By' = By /\ Owed' = Owed /\ UndefinedIsUnsent'
    BY <2>1 DEF callVars, By, Owed, UndefinedIsUnsent, RowsInv
  <2> QED
    BY <2>1, <2>2, TriesOwe
<1> QED
  BY <1>1, <1>2, <1>3, <1>4 DEF SendingNext

\* "History shows what an agent tried as well as what it did" (rl-core: send,
\* send_for_agent, run_flow_for_agent): with a store that works, whatever reached
\* a server or was refused has its row under the name of who sent it, unless the
\* process quit.
THEOREM TriesAreTold == SendingSpec => []HistoryShowsWhatWasTried
<1>1. RowsInv => HistoryShowsWhatWasTried
  <2> SUFFICES ASSUME RowsInv, stage = "idle", ~cut, Recordings = {TRUE}, NEW by \in Party
               PROVE  attempts[by] <= RowsOf(by)
    BY DEF HistoryShowsWhatWasTried
  <2>1. attempts[by] <= RowsOf(by) + 0
    BY DEF RowsInv, RowsAreOwed, Owed
  <2> QED
    BY <2>1, RowsAreCounted DEF RowsInv, SendingInv
<1> QED
  BY <1>1, RowsInvStarts, RowsInvIsKept, PTL DEF SendingSpec

=============================================================================
