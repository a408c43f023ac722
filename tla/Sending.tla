------------------------------ MODULE Sending ------------------------------
(***************************************************************************)
(* A request on its way out: RouteLogic::send, send_for_agent and          *)
(* run_flow_for_agent (rl-core), and HttpEngine::execute_guarded, which    *)
(* follows redirects by hand (rl-http).                                    *)
(*                                                                         *)
(* One call at a time: the desktop and the agent server each hold their    *)
(* application lock while a call is out.  Servers answer as they like, the *)
(* allow list is edited while calls run, and the process may quit.         *)
(***************************************************************************)
EXTENDS Naturals, Sequences, FiniteSets

CONSTANTS
  Origin, Loopback,   \* Scheme, host and port; those an agent may always reach
  Method,
  Draft,              \* Requests as asked for
  Recordings,         \* Whether the history store takes a row
  max_redirects,
  MaxCalls, MaxSteps, MaxEdits,   \* Bounds: calls, requests of a flow, edits
  Policy,             \* Allow lists: for each origin, the methods of its rules
  Broken              \* An allow list that does not parse

Credential == {"authorization", "cookie"}
Party      == {"user", "agent"}
Fault      == {"none", "undefined", "url", "header", "file"}
Nothing    == [o \in Origin |-> {}]

ASSUME SendingAssumption ==
  /\ Loopback \subseteq Origin /\ "GET" \in Method
  /\ Draft \subseteq [at: Origin, method: Method, body: BOOLEAN,
                      creds: SUBSET Credential, follow: BOOLEAN, fault: Fault]
  /\ Draft # {} /\ Origin # {}
  /\ Recordings \subseteq BOOLEAN /\ Recordings # {}
  /\ max_redirects \in Nat /\ MaxCalls \in Nat /\ MaxSteps \in Nat /\ MaxEdits \in Nat
  /\ Policy \subseteq [Origin -> SUBSET Method] /\ Nothing \in Policy
  /\ Broken \notin Policy

VARIABLES
  allow,     \* agent.allow in workspace.yaml
  stage,     \* Where the call under way is
  call,      \* What was asked for: kind, policy, draft, steps left
  request,   \* The hop being sent: at, method, creds, send_body
  hops,      \* Response.redirects so far
  wire,      \* What has reached servers for this draft, in order
  outcome,   \* What the engine or the checks before it came to
  history,   \* Rows: who sent, how it ended
  attempts,  \* By whom, requests that reached a server or were refused
  cut,       \* A quit cut a call off
  calls, edits

callVars    == <<stage, call, request, hops, wire, outcome>>
sendingVars == <<allow, callVars, history, attempts, cut, calls, edits>>

Stage   == {"idle", "ready", "sending", "waiting", "ended"}
Outcome == {"none", "answered", "refused", "failed", "undefined"}
Hop     == [from: Origin, to: Origin, stripped: BOOLEAN]
Sent    == [at: Origin, method: Method, body: BOOLEAN, creds: SUBSET Credential]
Row     == [by: Party, how: Outcome]

By == IF call.kind = "user" THEN "user" ELSE "agent"

\* AgentPolicy::check: loopback with every method, anything else as listed.
Allows(policy, method, at) == at \in Loopback \/ method \in policy[at]

\* The guard: none for the user.
Guard(method, at) == call.kind = "user" \/ Allows(call.policy, method, at)

(***************************************************************************)
(* Asking.                                                                 *)
(***************************************************************************)
Ask(kind, draft, steps) ==
  /\ stage = "idle" /\ calls < MaxCalls
  /\ calls' = calls + 1
  /\ call' = [kind |-> kind, draft |-> draft, steps |-> steps,
              policy |-> IF allow = Broken THEN Nothing ELSE allow]
  /\ hops' = <<>> /\ wire' = <<>>
  /\ UNCHANGED <<allow, request, cut, edits>>

\* A call that comes to an end before anything is handed to the engine.
Settle(how) == stage' = "idle" /\ outcome' = how

\* resolve: undefined variables are reported before anything is sent.
SendForUser(draft) ==
  /\ Ask("user", draft, 0)
  /\ IF draft.fault = "undefined"
       THEN Settle("undefined")
       ELSE stage' = "ready" /\ outcome' = "none"
  /\ UNCHANGED <<history, attempts>>

Tried(by) == attempts' = [attempts EXCEPT ![by] = @ + 1]

Recorded(by, how) ==
  \E ok \in Recordings :
    history' = IF ok THEN Append(history, [by |-> by, how |-> how]) ELSE history

\* Mutation: a refusal is not worth a row.
RefuseQuietly == Settle("refused") /\ Tried("agent") /\ UNCHANGED history

\* send_for_agent's own check, so that a refusal comes back structured.
RefuseFirst == Settle("refused") /\ Tried("agent") /\ Recorded("agent", "refused")

SendForAgent(draft) ==
  /\ Ask("agent", draft, 0)
  /\ IF allow = Broken \/ draft.fault \in {"url", "header"}
       THEN Settle("failed") /\ UNCHANGED <<history, attempts>>
     ELSE IF draft.fault = "undefined"
       THEN Settle("undefined") /\ UNCHANGED <<history, attempts>>
     ELSE IF ~Allows(allow, draft.method, draft.at)
       THEN RefuseFirst
     ELSE stage' = "ready" /\ outcome' = "none" /\ UNCHANGED <<history, attempts>>

\* The list is read once for all the requests of the flow.
RunFlowForAgent(draft, steps) ==
  /\ Ask("flow", draft, steps)
  /\ IF allow = Broken THEN Settle("failed") ELSE stage' = "ready" /\ outcome' = "none"
  /\ UNCHANGED <<history, attempts>>

(***************************************************************************)
(* HttpEngine::execute_guarded.                                            *)
(***************************************************************************)
\* Mutation: an error does not leave the loop.
EndOfTurn(how) == outcome' = how /\ UNCHANGED stage

End(how) == stage' = "ended" /\ outcome' = how

Keep == UNCHANGED <<allow, call, history, cut, calls, edits>>

\* Up to the loop: the URL, the guard, the headers, in that order.  In a flow the
\* variables of a step are resolved only here.
Prepare ==
  LET draft == call.draft IN
  /\ stage = "ready"
  /\ request' = [at |-> draft.at, method |-> draft.method, creds |-> draft.creds,
                 send_body |-> TRUE]
  /\ \/ /\ draft.fault = "undefined"
        /\ End("undefined")
        /\ UNCHANGED attempts
     \/ /\ draft.fault = "url"
        /\ End("failed")
        /\ UNCHANGED attempts
     \/ /\ draft.fault \notin {"undefined", "url"}
        /\ ~Guard(draft.method, draft.at)
        /\ End("refused")
        /\ Tried(By)
     \/ /\ draft.fault \notin {"undefined", "url"}
        /\ Guard(draft.method, draft.at)
        /\ IF draft.fault = "header" THEN End("failed") ELSE stage' = "sending" /\ UNCHANGED outcome
        /\ UNCHANGED attempts
  /\ UNCHANGED <<hops, wire>>
  /\ Keep

\* A body goes with every method but HEAD.
BodyIsSent == request.send_body /\ call.draft.body /\ request.method # "HEAD"

Transmit ==
  /\ stage = "sending"
  /\ IF BodyIsSent /\ call.draft.fault = "file"
       THEN End("failed") /\ UNCHANGED <<wire, attempts>>
       ELSE /\ wire' = Append(wire, [at |-> request.at, method |-> request.method,
                                     body |-> BodyIsSent, creds |-> request.creds])
            /\ stage' = "waiting"
            /\ IF wire = <<>> THEN Tried(By) ELSE UNCHANGED attempts
            /\ UNCHANGED outcome
  /\ UNCHANGED <<request, hops>>
  /\ Keep

\* No connection, or none within the timeout; or a body that breaks off.
Fail ==
  /\ stage = "waiting"
  /\ End("failed")
  /\ UNCHANGED <<request, hops, wire, attempts>>
  /\ Keep

\* Any other status, or a redirect the draft does not follow.
Finish ==
  /\ stage = "waiting"
  /\ End("answered")
  /\ UNCHANGED <<request, hops, wire, attempts>>
  /\ Keep

\* Mutation: credentials go wherever the redirect leads.
Forwarded(creds, from, to) == creds

Carried(creds, from, to) ==
  IF from # to /\ "authorization" \in creds THEN {} ELSE creds

\* 303 always becomes GET; 301 and 302 do so for POST.
Downgrades(status) == status = 303 \/ (status \in {301, 302} /\ request.method = "POST")

\* Mutation: whether the body goes again is asked anew for every hop.
BodyOfThisHop(status) == ~Downgrades(status)

\* Cleared by a downgrade and never set again.
SendBody(status) == request.send_body /\ ~Downgrades(status)

TooMany(followed) == followed >= max_redirects

\* Mutation: the next hop is not put to the guard.
Unguarded(method, to) == TRUE

NextHop(method, to) == Guard(method, to)

HopTo(to, creds) == [from |-> request.at, to |-> to, stripped |-> creds # request.creds]

Redirect(status, to) ==
  LET method == IF Downgrades(status) THEN "GET" ELSE request.method
      creds  == Carried(request.creds, request.at, to) IN
  /\ stage = "waiting" /\ call.draft.follow
  /\ IF TooMany(Len(hops))
       THEN End("failed") /\ UNCHANGED <<hops, request>>
       ELSE /\ hops' = Append(hops, HopTo(to, creds))
            /\ request' = [at |-> to, method |-> method, creds |-> creds,
                           send_body |-> SendBody(status)]
            /\ IF NextHop(method, to)
                 THEN stage' = "sending" /\ UNCHANGED outcome
                 ELSE End("refused")
  /\ UNCHANGED <<wire, attempts>>
  /\ Keep

\* A redirect to nowhere: its location is not a URL.
BadRedirect ==
  /\ stage = "waiting" /\ call.draft.follow
  /\ End("failed")
  /\ UNCHANGED <<request, hops, wire, attempts>>
  /\ Keep

(***************************************************************************)
(* After the engine.                                                       *)
(***************************************************************************)
MoreToRun == call.steps > 0

\* The row, unless the step of a flow never got as far as the engine; and the
\* answer, or the next request of the flow.
Conclude ==
  /\ stage = "ended"
  /\ IF outcome = "undefined" THEN UNCHANGED history ELSE Recorded(By, outcome)
  /\ \/ /\ ~MoreToRun
        /\ stage' = "idle"
        /\ UNCHANGED <<call, outcome, hops, wire>>
     \/ /\ MoreToRun
        /\ \E draft \in Draft : call' = [call EXCEPT !.draft = draft, !.steps = @ - 1]
        /\ stage' = "ready" /\ outcome' = "none" /\ hops' = <<>> /\ wire' = <<>>
  /\ UNCHANGED <<allow, request, attempts, cut, calls, edits>>

\* The allow list is edited by hand.
EditAllow(list) ==
  /\ edits < MaxEdits /\ list # allow
  /\ allow' = list
  /\ edits' = edits + 1
  /\ UNCHANGED <<callVars, history, attempts, cut, calls>>

\* The process ends with a call under way.
Quit ==
  /\ stage # "idle"
  /\ stage' = "idle" /\ cut' = TRUE
  /\ UNCHANGED <<allow, call, request, hops, wire, outcome, history, attempts, calls, edits>>

----------------------------------------------------------------------------
SendingInit ==
  /\ allow \in Policy \union {Broken}
  /\ stage = "idle" /\ outcome = "none" /\ hops = <<>> /\ wire = <<>>
  /\ call = [kind |-> "user", draft |-> CHOOSE d \in Draft : TRUE, steps |-> 0,
             policy |-> Nothing]
  /\ request = [at |-> CHOOSE o \in Origin : TRUE, method |-> "GET", creds |-> {},
                send_body |-> FALSE]
  /\ history = <<>> /\ attempts = [p \in Party |-> 0] /\ cut = FALSE
  /\ calls = 0 /\ edits = 0

Asked ==
  \E draft \in Draft :
    \/ SendForUser(draft) \/ SendForAgent(draft)
    \/ \E steps \in 0..MaxSteps : RunFlowForAgent(draft, steps)

Answered ==
  \/ Fail \/ Finish \/ BadRedirect
  \/ \E status \in {301, 302, 303, 307, 308}, to \in Origin : Redirect(status, to)

Engine == Prepare \/ Transmit \/ Answered \/ Conclude

SendingNext ==
  Asked \/ Engine \/ Quit \/ (\E list \in Policy \union {Broken} : EditAllow(list))

\* The client's timeout answers for a server that does not.
SendingSpec == SendingInit /\ [][SendingNext]_sendingVars /\ WF_sendingVars(Engine)

----------------------------------------------------------------------------
SendingTypeOK ==
  /\ allow \in Policy \union {Broken}
  /\ stage \in Stage /\ outcome \in Outcome
  /\ call \in [kind: {"user", "agent", "flow"}, draft: Draft, steps: Nat, policy: Policy]
  /\ request \in [at: Origin, method: Method, creds: SUBSET Credential, send_body: BOOLEAN]
  /\ hops \in Seq(Hop) /\ wire \in Seq(Sent)
  /\ history \in Seq(Row) /\ attempts \in [Party -> Nat] /\ cut \in BOOLEAN
  /\ calls \in Nat /\ edits \in Nat

\* "So an allowed host cannot hand the request on": whatever redirects lead to,
\* nothing an agent sends reaches a server but as the allow list it was asked
\* under says.
AgentsReachOnlyAllowedHosts ==
  call.kind # "user" =>
    \A i \in DOMAIN wire : Allows(call.policy, wire[i].method, wire[i].at)

\* "Dropping credentials when the origin changes": once a chain has left an
\* origin its Authorization is on no later request, not even one back at home.
CredentialsStayAtTheirOrigin ==
  \A i \in DOMAIN wire :
    "authorization" \in wire[i].creds =>
      \A j \in 1..i : wire[j].at = call.draft.at

\* A body goes out again only with the method it was written for: after a
\* redirect has turned a request into a GET, no later hop brings the body back.
BodiesKeepTheirMethod ==
  \A i \in DOMAIN wire :
    wire[i].body =>
      /\ call.draft.body
      /\ \A j \in 1..i : wire[j].method = call.draft.method

\* At most max_redirects hops, and one request more, for any chain of servers.
RedirectsAreBounded == Len(hops) <= max_redirects /\ Len(wire) <= max_redirects + 1

\* "History shows what an agent tried as well as what it did": with a store that
\* works, whatever reached a server or was refused has its row, under the name
\* of who sent it, unless the process quit.
RowsOf(by) == Cardinality({k \in DOMAIN history : history[k].by = by /\ history[k].how # "undefined"})

HistoryShowsWhatWasTried ==
  stage = "idle" /\ ~cut /\ Recordings = {TRUE} =>
    \A by \in Party : attempts[by] <= RowsOf(by)

\* Every call is answered, however the servers behave.
CallsAreAnswered == (stage # "idle") ~> (stage = "idle")

=============================================================================
