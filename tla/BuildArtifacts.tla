--------------------------- MODULE BuildArtifacts ----------------------------
(***************************************************************************)
(* How a build's package reaches the upload step: build_debs_in_docker.sh  *)
(* stages it, xgc2_artifact_manifest.py describes and verifies it, and a   *)
(* job runs the three one after the other in one workspace.                *)
(*                                                                         *)
(* A job may fail or be killed at any step, and the next one may find      *)
(* anything it left: the script's EXIT trap does not run when it is        *)
(* killed.  A file is its directory, its name (a package is named after    *)
(* its version) and the build it is of, which stands for its digest.       *)
(***************************************************************************)
EXTENDS Naturals, FiniteSets

CONSTANTS Versions,     \* product versions, each the name of its package
          Runs,         \* CI run ids; a run is of one source revision
          MaxBuilds     \* how many builds may be begun

ASSUME BuildAssumption == "evidence" \notin Versions /\ MaxBuilds \in Nat

Identities == [version : Versions, run : Runs]

VARIABLES at,          \* the step the job is at, or how the last one ended
          job,         \* the identity the job was started with
          builds,      \* builds so far: the current one, while a job runs
          files,       \* packages and evidence, wherever they are
          manifests,   \* build manifests, wherever they are
          match,       \* name and digest of the package verify_build matched
          dirty        \* history: the job did not start in an empty workspace

vars == <<at, job, builds, files, manifests, match, dirty>>

Resting == {"idle", "refused", "stopped", "verified"}
Truncated == 0   \* the "build" of a copy that was begun and not ended

FileOf(dir, name) == [dir |-> dir, name |-> name, build |-> builds]
In(dir) == {f \in files : f.dir = dir}

\* The files of the job's own staging directory; mktemp made it for this build.
Staged == {f \in In("staging") : f.build = builds}

\* The file system with f in place of what had its directory and its name.
With(f) == {g \in files : <<g.dir, g.name>> # <<f.dir, f.name>>} \cup {f}

Init == /\ at = "idle"
        /\ job \in Identities
        /\ builds = 0
        /\ files = {} /\ manifests = {}
        /\ match = [name |-> job.version, build |-> 0]
        /\ dirty = FALSE

------------------------------------------------------------------------------
\* The workspace between two jobs loses a directory, as a checkout or its user
\* removes it.
Tidy(dir) == /\ at \in Resting
             /\ at' = "idle"
             /\ files' = files \ In(dir)
             /\ manifests' = {m \in manifests : m.dir # dir}
             /\ UNCHANGED <<job, builds, match, dirty>>

Start(i) == /\ at \in Resting /\ builds < MaxBuilds
            /\ at' = "check"
            /\ job' = i
            /\ dirty' = (files # {} \/ manifests # {})
            /\ UNCHANGED <<builds, files, manifests, match>>

\* The job is killed, the runner is lost, or a step of the manifest tool fails:
\* nothing is cleaned up.
Kill == /\ at \notin Resting
        /\ at' = "stopped"
        /\ UNCHANGED <<job, builds, files, manifests, match, dirty>>

------------------------------------------------------------------------------
(***************************************************************************)
(* build_debs_in_docker.sh.                                                *)
(***************************************************************************)

\* Mutant of Stage: the output directory need not be empty.
StageAnyway == /\ at = "check"
               /\ at' = "package" /\ builds' = builds + 1
               /\ UNCHANGED <<job, files, manifests, match, dirty>>

\* An output directory that holds anything is refused; otherwise a staging
\* directory is made beside it.
Stage == /\ at = "check"
         /\ IF In("debs") = {}
            THEN at' = "package" /\ builds' = builds + 1
            ELSE at' = "refused" /\ UNCHANGED builds
         /\ UNCHANGED <<job, files, manifests, match, dirty>>

\* The container writes the package, and after testing it the evidence.
Package == /\ at = "package"
           /\ at' = "evidence"
           /\ files' = files \cup {FileOf("staging", job.version)}
           /\ UNCHANGED <<job, builds, manifests, match, dirty>>

WriteEvidence == /\ at = "evidence"
                 /\ at' = "move deb"
                 /\ files' = files \cup {FileOf("staging", "evidence")}
                 /\ UNCHANGED <<job, builds, manifests, match, dirty>>

\* One step of the loop that moves the two staged files in the order of their
\* names; a rename within one file system, which replaces.
Move(name) == files' = With(FileOf("debs", name)) \ {FileOf("staging", name)}

MoveDeb == /\ at = "move deb" /\ Cardinality(Staged) = 2
           /\ at' = "move evidence"
           /\ Move(job.version)
           /\ UNCHANGED <<job, builds, manifests, match, dirty>>

MoveEvidence == /\ at = "move evidence"
                /\ at' = "describe"
                /\ Move("evidence")
                /\ UNCHANGED <<job, builds, manifests, match, dirty>>

\* A command fails: the script exits, and its trap removes its staging directory.
Exit == /\ at \in {"package", "evidence", "move deb", "move evidence"}
        /\ at' = "stopped"
        /\ files' = files \ Staged
        /\ UNCHANGED <<job, builds, manifests, match, dirty>>

------------------------------------------------------------------------------
(***************************************************************************)
(* xgc2_artifact_manifest.py.                                              *)
(***************************************************************************)
\* len(...) == 1.
Unique(S) == \E x \in S : S = {x}

ManifestOf(dir, package) == [dir |-> dir, identity |-> job,
                             name |-> package.name, build |-> package.build]

\* Mutant of WithManifest: manifests of different builds have different names.
WithManifestBeside(m) == manifests \cup {m}

\* A manifest is named after product, distribution and architecture alone, so a
\* directory holds one.
WithManifest(m) == {n \in manifests : n.dir # m.dir} \cup {m}

\* The one package of the output directory, of the version asked for, gets its
\* manifest.  write_json renames a finished file, so a kill leaves no half of
\* one under the name that verify_build looks for.
create_build ==
    LET packages == {f \in In("debs") : f.name # "evidence"}
    IN /\ at = "describe"
       /\ IF /\ Unique(packages)
             /\ \A deb \in packages : deb.name = job.version
          THEN /\ at' = "verify"
               /\ \E deb \in packages :
                    manifests' = WithManifest(ManifestOf("build-manifests", deb))
          ELSE at' = "refused" /\ UNCHANGED manifests
       /\ UNCHANGED <<job, builds, files, match, dirty>>

\* What verify_build finds under the workspace: manifests of this identity and
\* run, and the files of a name, in whatever directory.
Ours == {m \in manifests : m.identity = job}
Candidates(name) == {f \in files : f.name = name}

\* Every manifest must be readable, and one alone be ours; the one file of its
\* name must have the digest it declares.
verify_build ==
    /\ at = "verify"
    /\ IF /\ \A m \in manifests : m.build # Truncated
          /\ Unique(Ours)
          /\ \A m \in Ours : /\ Unique(Candidates(m.name))
                             /\ \A f \in Candidates(m.name) : f.build = m.build
       THEN /\ at' = "open deb"
            /\ \E m \in Ours : match' = [name |-> m.name, build |-> m.build]
       ELSE at' = "refused" /\ UNCHANGED match
    /\ UNCHANGED <<job, builds, files, manifests, dirty>>

\* It then copies the two, in place: a copy is opened, then filled.
CopyDeb(label, next, file) == /\ at = label
                              /\ at' = next
                              /\ files' = With(file)
                              /\ UNCHANGED <<job, builds, manifests, match, dirty>>

CopyManifest(label, next, manifest) == /\ at = label
                                       /\ at' = next
                                       /\ manifests' = WithManifest(manifest)
                                       /\ UNCHANGED <<job, builds, files, match, dirty>>

HandOn ==
    LET deb == [dir |-> "verified-debs", name |-> match.name, build |-> match.build]
        manifest == ManifestOf("verified-manifests", match)
    IN \/ CopyDeb("open deb", "fill deb", [deb EXCEPT !.build = Truncated])
       \/ CopyDeb("fill deb", "open manifest", deb)
       \/ CopyManifest("open manifest", "fill manifest",
                       [manifest EXCEPT !.build = Truncated])
       \/ CopyManifest("fill manifest", "verified", manifest)

------------------------------------------------------------------------------
Directories == {"staging", "debs", "build-manifests", "verified-debs",
                "verified-manifests"}

Next == \/ \E dir \in Directories : Tidy(dir)
        \/ \E i \in Identities : Start(i)
        \/ Kill
        \/ Stage \/ Package \/ WriteEvidence \/ MoveDeb \/ MoveEvidence \/ Exit
        \/ create_build \/ verify_build \/ HandOn

Spec == Init /\ [][Next]_vars

------------------------------------------------------------------------------
\* The output directory never holds a package and evidence of different builds,
\* whatever step a job was stopped at and whatever the next one found.
OutputIsOfOneBuild == \A f, g \in In("debs") : f.build = g.build

\* A job that ends well hands on the package, the evidence and the manifest of
\* its own build, and its copies are of that build too.  A job is refused only
\* for what was there before it, never for its own staging or copies.
VerifiesItsOwnBuild ==
    /\ at = "verified" =>
         /\ In("debs") = {FileOf("debs", job.version), FileOf("debs", "evidence")}
         /\ {f \in In("verified-debs") : f.name = job.version}
              = {FileOf("verified-debs", job.version)}
         /\ manifests = {ManifestOf(dir, [name |-> job.version, build |-> builds]) :
                           dir \in {"build-manifests", "verified-manifests"}}
    /\ at = "refused" => dirty
==============================================================================
