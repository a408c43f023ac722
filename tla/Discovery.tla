------------------------------ MODULE Discovery ------------------------------
(***************************************************************************)
(* A scan and what comes of it (rl-discovery: scan.rs; rl-core:            *)
(* project_scan, run_enrich): the walk of the registration graph lists the *)
(* routes, the scan turns them into endpoints, and the running application *)
(* may be asked about them, again and again, until the next scan.          *)
(***************************************************************************)
EXTENDS Registration, Enrichment

CONSTANT Runtimes   \* What an application may answer: sets of endpoints

\* The answer is a description of the application that is parsed (rl-import: openapi.rs):
\* no place in the source and no gap in a path.
ASSUME RuntimesAssumption ==
  /\ Nowhere \notin Nat
  /\ \A runtime \in Runtimes :
       /\ IsFiniteSet(runtime)
       /\ \A r \in runtime :
            /\ r \in [method : Nat, path : Seq(Nat), source : {Nowhere}, unknown : BOOLEAN, mark : {"none"}]
            /\ ~Unresolved(r.path)

discoveryVars == <<registrationVars, enrichmentVars>>

\* scan_project: one endpoint for each row, in the order of the tree.  That a
\* handler may restrict the methods of a route without any (Go) is left out.
Scanned ==
  Sorted([k \in DOMAIN listed |-> Endpoint(listed[k].method, listed[k].path, listed[k].route)])

\* The first scan, or another one.
Scan ==
  /\ Done /\ ~merging
  /\ specs # Scanned
  /\ specs' = Scanned /\ served' = {}
  /\ UNCHANGED <<registrationVars, merging, mergeVars, asked>>

RunEnrich(runtime) ==
  /\ Done /\ specs # <<>>
  /\ facts.enrichable
  /\ Ask(runtime)
  /\ UNCHANGED registrationVars

DiscoveryInit == RegistrationInit /\ EnrichmentInit

DiscoveryNext ==
  \/ RegistrationNext /\ UNCHANGED enrichmentVars
  \/ Scan
  \/ \E runtime \in Runtimes : RunEnrich(runtime)
  \/ Merging /\ UNCHANGED registrationVars

DiscoverySpec == DiscoveryInit /\ [][DiscoveryNext]_discoveryVars

----------------------------------------------------------------------------
\* The list as it is after the application was asked.
Enriched == ~merging /\ served # {}

\* Whatever the application said, and however often: each endpoint that was
\* scanned is still there, under its method and with its place in the source,
\* and every method and path that the application listed is there.
NothingIsForgotten ==
  Enriched =>
    /\ LET scanned == Scanned IN
         \A k \in DOMAIN scanned : LET s == scanned[k] IN
           At(specs, s.source, s.method) = At(scanned, s.source, s.method)
    /\ \A r \in served : \E k \in DOMAIN specs : Id(specs[k]) = Id(r)

\* An endpoint that leads to a place in the source is what the source says
\* there: of its method, and at its path or at one that fills its gaps.  "Ambiguity
\* leaves it open": where a gap was closed, no other route that fits is left over.
LinksFit ==
  ~merging =>
    LET scanned == ToSet(Scanned) IN
    \A k \in DOMAIN specs : specs[k].source # Nowhere =>
      \E s \in scanned :
        /\ s.source = specs[k].source /\ s.method = specs[k].method
        /\ \/ Alike(s.path, specs[k].path)
           \/ /\ FillsGap(s.path, specs[k].path)
              /\ specs[k].mark = "gap_filled" =>
                   \A i \in DOMAIN specs :
                     specs[i].mark = "runtime_only" /\ specs[i].method = s.method
                       => ~FillsGap(s.path, specs[i].path)

\* What only the source has and what only the application has are not one
\* route: not by method and path, nor by path where the methods are unknown.
LeftoversDiffer ==
  Enriched =>
    \A j, k \in DOMAIN specs :
      /\ specs[j].mark = "static_only" /\ ~Unresolved(specs[j].path)
      /\ specs[k].mark = "runtime_only"
      => ~(Alike(specs[j].path, specs[k].path)
             /\ (specs[k].unknown \/ specs[j].method = specs[k].method))

\* The two lists are matched as far as they can be and no further: what is
\* linked belongs together, and what is left over on both sides does not.
MatchesAreSound == LinksFit /\ LeftoversDiffer

=============================================================================
