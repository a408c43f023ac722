----------------------------- MODULE Detection ------------------------------
(***************************************************************************)
(* Which frameworks a project is seen to use, and which of its files are   *)
(* read for each (rl-discovery: project.rs, and detect and candidate_files *)
(* of the adapters).  A scan lists the files it does not ignore, and keeps *)
(* the manifests.  How strong the evidence is matters to what is shown,    *)
(* not to what is read, and is left out.                                   *)
(*                                                                         *)
(* The filter of the Django adapter on what a file mentions is left out:   *)
(* it lets through every file that has anything for the adapter.           *)
(***************************************************************************)
EXTENDS NextJs

\* The frameworks of Go, and the manifests of Next.js.
Frameworks  == {"gin", "echo", "chi", "fiber", "mux"}
NextConfigs == {"next.config.js", "next.config.mjs", "next.config.ts"}

(***************************************************************************)
(* ProjectContext.  A manifest is the set of the names in it, under the    *)
(* name of its file.                                                       *)
(***************************************************************************)
FilesOf(project, language) == SelectSeq(project.files, LAMBDA f : f.language = language)

\* manifest
InManifest(project, manifest, name) ==
  manifest \in DOMAIN project.manifests /\ name \in project.manifests[manifest]

\* declares_dependency: in whichever manifest.
Declares(project, name) == \E manifest \in DOMAIN project.manifests : InManifest(project, manifest, name)

Mentioned(project, language, name) ==
  \E f \in ToSet(FilesOf(project, language)) : name \in f.mentions

(***************************************************************************)
(* detect: any evidence will do, and any number of adapters may match.     *)
(***************************************************************************)
FastApiDetected(project) == Declares(project, "fastapi") \/ Mentioned(project, "python", "fastapi")

FlaskDetected(project) == Declares(project, "flask") \/ Mentioned(project, "python", "flask")

DjangoDetected(project) ==
  \/ "manage.py" \in DOMAIN project.manifests
  \/ Declares(project, "django")
  \/ \E name \in {"django", "rest_framework"} : Mentioned(project, "python", name)

IsRouteFile(f) == f.at # None /\ PathAt(f.at) # None

NextDetected(project) ==
  \/ InManifest(project, "package.json", "next")
  \/ DOMAIN project.manifests \intersect NextConfigs # {}
  \/ \E f \in ToSet(project.files) : IsRouteFile(f)

ExpressDetected(project) ==
  InManifest(project, "package.json", "express") \/ Mentioned(project, "js", "express")

\* Every program in Go imports net/http: only registering on it tells.
GoDetected(project) ==
  \/ \E name \in Frameworks : InManifest(project, "go.mod", name)
  \/ \E name \in Frameworks \union {"http"} : Mentioned(project, "go", name)

Detected(project, adapter) ==
  CASE adapter = "fastapi" -> FastApiDetected(project)
    [] adapter = "flask"   -> FlaskDetected(project)
    [] adapter = "django"  -> DjangoDetected(project)
    [] adapter = "nextjs"  -> NextDetected(project)
    [] adapter = "express" -> ExpressDetected(project)
    [] adapter = "go"      -> GoDetected(project)

(***************************************************************************)
(* candidate_files: of the language, and not tests or the like.            *)
(***************************************************************************)
Outside(files, places) == SelectSeq(files, LAMBDA f : f.place \notin places)

PythonCandidates(project)  == Outside(FilesOf(project, "python"), {"tests", "migrations"})
ExpressCandidates(project) == Outside(FilesOf(project, "js"), {"tests", "types", "config"})
GoCandidates(project)      == Outside(FilesOf(project, "go"), {"tests", "testdata", "generated"})
NextCandidates(project)    == SelectSeq(project.files, IsRouteFile)

Candidates(project, adapter) ==
  CASE adapter \in {"fastapi", "flask", "django"} -> PythonCandidates(project)
    [] adapter = "nextjs"  -> NextCandidates(project)
    [] adapter = "express" -> ExpressCandidates(project)
    [] adapter = "go"      -> GoCandidates(project)

=============================================================================
