---------------------------- MODULE FlowPromise ----------------------------
(***************************************************************************)
(* What running a flow promises about its steps, without an order, without *)
(* variables and without what the steps do: the contract in the module     *)
(* documentation of rl-flow's runner.                                      *)
(*                                                                         *)
(*   - an edge from a step that failed, or was blocked by one that did, is *)
(*     dead, and one dead edge is enough to block a step;                  *)
(*   - an edge out of a condition's untaken output, or from a step that    *)
(*     was bypassed, is inactive; a step runs as long as one edge is live; *)
(*   - a step nothing feeds always runs;                                   *)
(*   - a step outside the run counts as one that passed.                   *)
(*                                                                         *)
(* Steps that do not wait for each other may run in any order, or at once. *)
(***************************************************************************)
EXTENDS Naturals

CONSTANTS NodeId, Handles

VARIABLES
  steps,    \* The steps of the run
  edges,    \* The edges of the document: [from, to, handle] records
  status,   \* What became of each step
  branch    \* The output a condition took, "none" for any other step

vars == <<steps, edges, status, branch>>

Into(n)    == {e \in edges : e.to = n}
Settled(n) == status[n] \notin {"waiting", "running"}

Dead(e)     == e.from \in steps /\ status[e.from] \in {"failed", "blocked"}
Inactive(e) == /\ e.from \in steps
               /\ \/ status[e.from] = "bypassed"
                  \/ /\ status[e.from] = "passed"
                     /\ branch[e.from] # "none" /\ e.handle # "none"
                     /\ branch[e.from] # e.handle
Live(e)     == \/ e.from \notin steps
               \/ status[e.from] = "passed" /\ ~Inactive(e)

Fed(n) == \A e \in Into(n) : e.from \in steps => Settled(e.from)

Init ==
  /\ steps \subseteq NodeId
  /\ status = [n \in NodeId |-> "waiting"]
  /\ branch = [n \in NodeId |-> "none"]

\* A step that may run runs, at once or over a while, and passes or fails.
Run(n) ==
  /\ n \in steps /\ status[n] = "waiting"
  /\ Fed(n)
  /\ \A e \in Into(n) : ~Dead(e)
  /\ Into(n) = {} \/ \E e \in Into(n) : Live(e)
  /\ \E s \in {"running", "passed", "failed"} : status' = [status EXCEPT ![n] = s]
  /\ \E h \in Handles : branch' = [branch EXCEPT ![n] = h]
  /\ UNCHANGED <<steps, edges>>

End(n) ==
  /\ status[n] = "running"
  /\ \E s \in {"passed", "failed"} : status' = [status EXCEPT ![n] = s]
  /\ UNCHANGED <<steps, edges, branch>>

Block(n) ==
  /\ n \in steps /\ status[n] = "waiting"
  /\ \E e \in Into(n) : Dead(e)
  /\ status' = [status EXCEPT ![n] = "blocked"]
  /\ UNCHANGED <<steps, edges, branch>>

Bypass(n) ==
  /\ n \in steps /\ status[n] = "waiting"
  /\ Into(n) # {}
  /\ \A e \in Into(n) : Inactive(e)
  /\ status' = [status EXCEPT ![n] = "bypassed"]
  /\ UNCHANGED <<steps, edges, branch>>

Next == \E n \in NodeId : Run(n) \/ End(n) \/ Block(n) \/ Bypass(n)

Spec == Init /\ [][Next]_vars

=============================================================================
