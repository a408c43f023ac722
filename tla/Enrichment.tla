----------------------------- MODULE Enrichment -----------------------------
(***************************************************************************)
(* What the source says and what the running application says, made one    *)
(* list (rl-discovery: enrich/merge.rs; rl-core: run_enrich).  Each of the *)
(* passes of `merge` goes through its list, one endpoint a step.           *)
(*                                                                         *)
(* An endpoint is its method, its path, where the code is, whether the     *)
(* application could not say its methods, and the mark of the last merge.  *)
(* Methods and segments are numbered as they sort.  The rest of what is    *)
(* known of an endpoint, and the counts of the report, are left out.       *)
(***************************************************************************)
EXTENDS Facts

CONSTANTS
  Nowhere,            \* No source location
  MaxEnriches         \* Bound: how often the application is asked

ASSUME EnrichmentAssumption ==
  /\ {rest, gap, param} \subseteq Nat \ {0} /\ Cardinality({rest, gap, param}) = 3
  /\ MaxEnriches \in Nat

VARIABLES
  specs,       \* scan.endpoints
  merging,     \* `merge` is under way
  left,        \* static_specs, what the first pass has yet to look at
  unmatched,   \* What the second pass has yet to look at
  withGaps,    \* What the third pass has yet to look at
  unclaimed,   \* Runtime endpoints nothing was merged with
  claimed,     \* Those the second pass claimed
  out,
  served,      \* What the application listed when it was last asked, by id
  asked        \* How often it was

mergeVars      == <<left, unmatched, withGaps, unclaimed, claimed, out>>
enrichmentVars == <<specs, merging, mergeVars, served, asked>>

Endpoint(method, path, source) ==
  [method |-> method, path |-> path, source |-> source, unknown |-> FALSE, mark |-> "none"]

Id(e) == <<e.method, e.path>>

Unresolved(path) == gap \in ToSet(path)

\* Sequences of numbers as strings sort.
Less(p, q) ==
  \E i \in DOMAIN q :
    /\ \A j \in 1..(i - 1) : j \in DOMAIN p /\ p[j] = q[j]
    /\ i \notin DOMAIN p \/ p[i] < q[i]

\* A BTreeMap goes by id.
InIdOrder(S) ==
  InTurn(S, {p \in S \X S : Less(<<p[1].method>> \o p[1].path, <<p[2].method>> \o p[2].path)})

\* By path, then by method; a stable sort.
Sorted(s) ==
  LET Key(i) == s[i].path \o <<0, s[i].method>>
      Precedes(i, j) == Less(Key(i), Key(j)) \/ (Key(i) = Key(j) /\ i < j)
      at == InTurn(DOMAIN s, {p \in (DOMAIN s) \X (DOMAIN s) : Precedes(p[1], p[2])})
  IN [k \in DOMAIN s |-> s[at[k]]]

\* loose_path
Flattened(path) == [k \in DOMAIN path |-> IF path[k] = rest THEN param ELSE path[k]]

SameLoosely(d, e) == Flattened(d.path) = Flattened(e.path)

\* fills_gap: what is before the first gap and after the last one lines up, and
\* something is left for the gap.
FillsGap(path, actual) ==
  LET gaps == {k \in DOMAIN path : path[k] = gap}
      head == Min(gaps) - 1
      tail == Len(path) - Max(gaps)
      Same(a, b) == (a = b /\ a # gap) \/ (a \in {param, rest} /\ b \in {param, rest})
  IN /\ gaps # {}
     /\ Len(actual) >= head + tail + 1
     /\ \A k \in 1..head : Same(path[k], actual[k])
     /\ \A k \in 0..(tail - 1) : Same(path[Len(path) - k], actual[Len(actual) - k])

Mark(e, as) == [e EXCEPT !.mark = as]

\* Mutation: the merged endpoint is where the runtime says, that is nowhere.
WithoutSource(spec, runtime, as) == Mark([runtime EXCEPT !.unknown = @ \/ spec.unknown], as)

\* combine: runtime detail on a static location; metadata of either is kept.
Combine(spec, runtime, as) ==
  Mark([runtime EXCEPT !.source = spec.source, !.unknown = @ \/ spec.unknown], as)

\* The map by id that the answer is put in: of what has one id, one stays.
ById(runtime) ==
  {S \in SUBSET runtime : /\ \A r \in runtime : \E d \in S : Id(d) = Id(r)
                         /\ \A d, e \in S : Id(d) = Id(e) => d = e}

(***************************************************************************)
(* run_enrich, from the answer of the helper on.                           *)
(***************************************************************************)
Ask(runtime) ==
  /\ ~merging /\ asked < MaxEnriches
  /\ merging' = TRUE /\ asked' = asked + 1
  /\ unclaimed' \in ById(runtime) /\ served' = unclaimed'
  /\ left' = specs
  /\ unmatched' = <<>> /\ withGaps' = <<>> /\ claimed' = <<>> /\ out' = <<>>
  /\ UNCHANGED specs

\* The first pass: by identity.
ByIdentity ==
  /\ left # <<>>
  /\ left' = Tail(left)
  /\ LET spec == Head(left)
         same == {r \in unclaimed : Id(r) = Id(spec)}
     IN \/ \E r \in same : /\ out' = Append(out, Combine(spec, r, "matched"))
                           /\ unclaimed' = unclaimed \ {r}
                           /\ UNCHANGED <<unmatched, withGaps>>
        \/ /\ same = {} /\ Unresolved(spec.path)
           /\ withGaps' = Append(withGaps, spec)
           /\ UNCHANGED <<unmatched, unclaimed, out>>
        \/ /\ same = {} /\ ~Unresolved(spec.path)
           /\ unmatched' = Append(unmatched, spec)
           /\ UNCHANGED <<withGaps, unclaimed, out>>
  /\ UNCHANGED <<specs, merging, claimed, served, asked>>

\* Where else the application may have listed a path, and where it did without
\* knowing the methods there.
Elsewhere == InIdOrder(unclaimed) \o claimed \o out

Siblings(spec) == {k \in DOMAIN Elsewhere : SameLoosely(Elsewhere[k], spec) /\ Elsewhere[k].unknown}

\* The second pass: by identity with catch-alls flattened, then by path alone
\* when the application did not know the methods there.
Loosely ==
  /\ left = <<>> /\ unmatched # <<>>
  /\ unmatched' = Tail(unmatched)
  /\ LET spec == Head(unmatched)
         same == {r \in unclaimed : r.method = spec.method /\ SameLoosely(r, spec)}
         found == Head(InIdOrder(same))
     IN \/ /\ same # {}
           /\ unclaimed' = unclaimed \ {found}
           /\ claimed' = Append(claimed, found)
           /\ out' = Append(out, Combine(spec, found, "matched"))
        \/ /\ same = {}
           /\ out' = Append(out,
                IF Siblings(spec) = {} THEN Mark(spec, "static_only")
                ELSE Combine(spec, [Elsewhere[Min(Siblings(spec))] EXCEPT !.method = spec.method], "matched"))
           /\ UNCHANGED <<unclaimed, claimed>>
  /\ UNCHANGED <<specs, merging, left, withGaps, served, asked>>

\* Mutation: the method need not agree.
FittingAnyMethod(spec) == {r \in unclaimed : FillsGap(spec.path, r.path)}

Candidates(spec) == {r \in unclaimed : r.method = spec.method /\ FillsGap(spec.path, r.path)}

\* The third pass: gaps.
Gaps ==
  /\ left = <<>> /\ unmatched = <<>> /\ withGaps # <<>>
  /\ withGaps' = Tail(withGaps)
  /\ LET spec == Head(withGaps) IN
       \/ \E r \in Candidates(spec) :
            /\ Candidates(spec) = {r}
            /\ unclaimed' = unclaimed \ {r}
            /\ out' = Append(out, Combine(spec, r, "gap_filled"))
       \/ /\ Cardinality(Candidates(spec)) # 1
          /\ out' = Append(out, Mark(spec, "static_only"))
          /\ UNCHANGED unclaimed
  /\ UNCHANGED <<specs, merging, left, unmatched, claimed, served, asked>>

\* What is left is the application's alone.
Merged ==
  /\ merging /\ left = <<>> /\ unmatched = <<>> /\ withGaps = <<>>
  /\ merging' = FALSE
  /\ specs' = Sorted(out \o [k \in DOMAIN InIdOrder(unclaimed) |->
                               Mark(InIdOrder(unclaimed)[k], "runtime_only")])
  /\ unclaimed' = {} /\ claimed' = <<>> /\ out' = <<>>
  /\ UNCHANGED <<left, unmatched, withGaps, served, asked>>

EnrichmentInit ==
  /\ specs = <<>> /\ merging = FALSE /\ served = {} /\ asked = 0
  /\ left = <<>> /\ unmatched = <<>> /\ withGaps = <<>>
  /\ unclaimed = {} /\ claimed = <<>> /\ out = <<>>

Merging == ByIdentity \/ Loosely \/ Gaps \/ Merged

----------------------------------------------------------------------------
\* Paths that match the same requests, but for how much a parameter takes.
Alike(p, q) ==
  /\ Len(p) = Len(q)
  /\ \A k \in DOMAIN p : p[k] = q[k] \/ {p[k], q[k]} = {param, rest}

\* How many endpoints of a list are of a place in the source and a method.
At(s, source, method) ==
  Cardinality({k \in DOMAIN s : s[k].source = source /\ s[k].method = method})

=============================================================================
