------------------------- MODULE BuildArtifactsProofs ------------------------
(***************************************************************************)
(* Proofs about BuildArtifacts, for any versions, runs and number of       *)
(* builds: the output directory is of one build, and a job hands on the    *)
(* artifacts of its own build or is refused for those of another.          *)
(***************************************************************************)
EXTENDS BuildArtifacts, FiniteSetTheorems, TLAPS

Building  == {"package", "evidence", "move deb", "move evidence", "describe"}
Described == {"verify", "open deb", "fill deb", "open manifest", "fill manifest",
              "verified"}
Matched   == Described \ {"verify"}
Copied    == {"open manifest", "fill manifest", "verified"}

\* The output directory once both files are moved, and the build's manifest.
Output == {FileOf("debs", job.version), FileOf("debs", "evidence")}
OwnManifest(dir) == ManifestOf(dir, [name |-> job.version, build |-> builds])
ManifestsIn(dir) == {m \in manifests : m.dir = dir}

TypeInv == /\ at \in Resting \cup Building \cup Described \cup {"check"}
           /\ job \in Identities
           /\ builds \in Nat
           /\ at \in Building \cup Described => builds # Truncated

\* What the output directory holds at each step of a job.
OutputInv ==
    /\ at \in {"package", "evidence", "move deb"} => In("debs") = {}
    /\ at = "move evidence" => In("debs") = {FileOf("debs", job.version)}
    /\ at \in Described \cup {"describe"} => In("debs") = Output
    /\ OutputIsOfOneBuild

\* What the tool has written, from the manifest to the last copy.
ToolInv ==
    /\ \A m \in manifests : m.dir \in {"build-manifests", "verified-manifests"}
    /\ at \in Described => ManifestsIn("build-manifests")
                             = {OwnManifest("build-manifests")}
    /\ at \in Matched => match = [name |-> job.version, build |-> builds]
    /\ at \in Copied => {f \in In("verified-debs") : f.name = job.version}
                          = {FileOf("verified-debs", job.version)}
    /\ at = "verified" => ManifestsIn("verified-manifests")
                            = {OwnManifest("verified-manifests")}

\* All there is in a workspace that was empty when the job began.
CleanInv ==
    ~dirty =>
      /\ at # "refused"
      /\ at \in {"check", "package"} => files = {}
      /\ at = "evidence" => files = {FileOf("staging", job.version)}
      /\ at = "move deb" => files = {FileOf("staging", job.version),
                                     FileOf("staging", "evidence")}
      /\ at = "move evidence" => files = {FileOf("debs", job.version),
                                          FileOf("staging", "evidence")}
      /\ at \in {"describe", "verify"} => files = Output
      /\ at \in {"check", "package", "evidence", "move deb", "move evidence",
                 "describe"} => manifests = {}
      /\ at = "verify" => manifests = {OwnManifest("build-manifests")}

Inv == TypeInv /\ OutputInv /\ ToolInv /\ CleanInv

LEMMA Names == ASSUME job \in Identities
               PROVE  job.version \in Versions /\ job.version # "evidence"
BY BuildAssumption DEF Identities

LEMMA InitInv == Init => Inv
<1> SUFFICES ASSUME Init PROVE Inv
  OBVIOUS
<1>1. TypeInv
  BY DEF Init, TypeInv, Resting, Building, Described
<1>2. OutputInv
  BY DEF Init, OutputInv, OutputIsOfOneBuild, In, Described
<1>3. ToolInv
  BY DEF Init, ToolInv, Described, Matched, Copied
<1>4. CleanInv
  BY DEF Init, CleanInv
<1> QED
  BY <1>1, <1>2, <1>3, <1>4 DEF Inv

(***************************************************************************)
(* The output directory after one operation on the file system.            *)
(***************************************************************************)
DebsOf(S) == {f \in S : f.dir = "debs"}

LEMMA StagedElsewhere ==
    ASSUME NEW name
    PROVE  DebsOf(files \cup {FileOf("staging", name)}) = DebsOf(files)
BY DEF DebsOf, FileOf

LEMMA CopiedElsewhere ==
    ASSUME NEW f, f.dir = "verified-debs"
    PROVE  DebsOf(With(f)) = DebsOf(files)
BY DEF DebsOf, With

LEMMA MovedFirst ==
    ASSUME NEW name, DebsOf(files) = {}
    PROVE  DebsOf(With(FileOf("debs", name)) \ {FileOf("staging", name)})
             = {FileOf("debs", name)}
<1>1. FileOf("debs", name).dir = "debs" /\ FileOf("staging", name).dir = "staging"
  BY DEF FileOf
<1> QED
  BY <1>1 DEF DebsOf, With

LEMMA MovedSecond ==
    ASSUME NEW name, name # "evidence", DebsOf(files) = {FileOf("debs", name)}
    PROVE  DebsOf(With(FileOf("debs", "evidence")) \ {FileOf("staging", "evidence")})
             = {FileOf("debs", name), FileOf("debs", "evidence")}
<1> DEFINE first == FileOf("debs", name)
           second == FileOf("debs", "evidence")
           staged == FileOf("staging", "evidence")
<1>1. /\ first.dir = "debs" /\ first.name = name
      /\ second.dir = "debs" /\ second.name = "evidence"
      /\ staged.dir = "staging"
  BY DEF FileOf
<1>2. first \in files /\ \A f \in files : f.dir = "debs" => f = first
  BY DEF DebsOf
<1> HIDE DEF first, second, staged
<1>3. DebsOf(With(second) \ {staged}) = {first, second}
  BY <1>1, <1>2 DEF DebsOf, With
<1> QED
  BY <1>3 DEF first, second, staged

LEMMA OutputStep == Inv /\ [Next]_vars => OutputInv'
<1> SUFFICES ASSUME Inv, [Next]_vars PROVE OutputInv'
  OBVIOUS
<1> USE DEF Inv, OutputInv, OutputIsOfOneBuild, In
<1>1. ASSUME NEW dir \in Directories, Tidy(dir) PROVE OutputInv'
  BY <1>1 DEF Tidy, Described
<1>2. ASSUME NEW i \in Identities, Start(i) PROVE OutputInv'
  BY <1>2 DEF Start, Described
<1>3. CASE Kill
  BY <1>3 DEF Kill, Described
<1>4. CASE Stage
  BY <1>4 DEF Stage, Described
<1>5. CASE Package
  BY <1>5, StagedElsewhere DEF Package, DebsOf, Described
<1>6. CASE WriteEvidence
  BY <1>6, StagedElsewhere DEF WriteEvidence, DebsOf, Described
<1>7. CASE MoveDeb
  <2>1. In("debs")' = {FileOf("debs", job.version)}
    BY <1>7, MovedFirst DEF MoveDeb, Move, DebsOf
  <2> QED
    BY <1>7, <2>1 DEF MoveDeb, FileOf, Described
<1>8. CASE MoveEvidence
  <2>1. DebsOf(files) = {FileOf("debs", job.version)}
    BY <1>8 DEF MoveEvidence, DebsOf
  <2>2. job.version # "evidence"
    BY Names DEF TypeInv
  <2>3. files' = With(FileOf("debs", "evidence")) \ {FileOf("staging", "evidence")}
    BY <1>8 DEF MoveEvidence, Move
  <2>4. DebsOf(files') = Output
    BY <2>1, <2>2, <2>3, MovedSecond, Zenon DEF Output
  <2>5. Output' = Output /\ at' = "describe"
    BY <1>8 DEF MoveEvidence, Output, FileOf
  <2>6. /\ FileOf("debs", job.version).build = builds
        /\ FileOf("debs", "evidence").build = builds
    BY DEF FileOf
  <2>7. \A f \in Output : f.build = builds
    BY <2>6 DEF Output
  <2> QED
    BY <2>4, <2>5, <2>7 DEF DebsOf, Described
<1>9. CASE Exit
  BY <1>9 DEF Exit, Described
<1>10. CASE create_build
  BY <1>10 DEF create_build, Output, FileOf, Described
<1>11. CASE verify_build
  BY <1>11 DEF verify_build, Output, FileOf, Described
<1>12. CASE HandOn
  <2>1. In("debs")' = In("debs")
    <3>1. CASE files' = files
      BY <3>1
    <3>2. ASSUME NEW f, f.dir = "verified-debs", files' = With(f)
          PROVE  In("debs")' = In("debs")
      BY <3>2, CopiedElsewhere DEF DebsOf
    <3> QED
      BY <1>12, <3>1, <3>2 DEF HandOn, CopyDeb, CopyManifest
  <2>2. at \in Described /\ at' \in Described /\ UNCHANGED <<job, builds>>
    BY <1>12 DEF HandOn, CopyDeb, CopyManifest, Described
  <2> QED
    BY <2>1, <2>2 DEF Output, FileOf, Described
<1>13. CASE UNCHANGED vars
  BY <1>13 DEF vars, Output, FileOf
<1> QED
  BY <1>1, <1>2, <1>3, <1>4, <1>5, <1>6, <1>7, <1>8, <1>9, <1>10, <1>11, <1>12,
     <1>13 DEF Next

LEMMA TypeStep == Inv /\ [Next]_vars => TypeInv'
<1> SUFFICES ASSUME Inv, [Next]_vars PROVE TypeInv'
  OBVIOUS
<1> USE DEF Inv, TypeInv, Resting, Building, Described, Truncated
<1>1. CASE (\E dir \in Directories : Tidy(dir)) \/ Kill
  BY <1>1 DEF Tidy, Kill
<1>2. CASE \E i \in Identities : Start(i)
  BY <1>2 DEF Start
<1>3. CASE Stage
  <2>1. CASE at' = "package" /\ builds' = builds + 1
    BY <1>3, <2>1 DEF Stage
  <2>2. CASE at' = "refused" /\ UNCHANGED builds
    BY <1>3, <2>2 DEF Stage
  <2> QED
    BY <1>3, <2>1, <2>2 DEF Stage
<1>4. CASE Package \/ WriteEvidence \/ MoveDeb \/ MoveEvidence \/ Exit
  BY <1>4 DEF Package, WriteEvidence, MoveDeb, MoveEvidence, Exit
<1>5. CASE create_build \/ verify_build
  BY <1>5 DEF create_build, verify_build
<1>6. CASE HandOn
  BY <1>6 DEF HandOn, CopyDeb, CopyManifest
<1>7. CASE UNCHANGED vars
  BY <1>7 DEF vars
<1> QED
  BY <1>1, <1>2, <1>3, <1>4, <1>5, <1>6, <1>7 DEF Next

LEMMA CopiedOnce ==
    ASSUME NEW dir, NEW name
    PROVE  {f \in With(FileOf(dir, name)) : f.dir = dir /\ f.name = name}
             = {FileOf(dir, name)}
<1>1. FileOf(dir, name).dir = dir /\ FileOf(dir, name).name = name
  BY DEF FileOf
<1> QED
  BY <1>1 DEF With

LEMMA ToolStep == Inv /\ [Next]_vars => ToolInv'
<1> SUFFICES ASSUME Inv, [Next]_vars PROVE ToolInv'
  OBVIOUS
<1> USE DEF Inv, ToolInv, ManifestsIn
<1>1. ASSUME NEW dir \in Directories, Tidy(dir) PROVE ToolInv'
  BY <1>1 DEF Tidy, Described, Matched, Copied
<1>2. ASSUME NEW i \in Identities, Start(i) PROVE ToolInv'
  BY <1>2 DEF Start, Described, Matched, Copied
<1>3. CASE Kill
  BY <1>3 DEF Kill, Described, Matched, Copied
<1>4. CASE Stage \/ Package \/ WriteEvidence \/ MoveDeb \/ MoveEvidence \/ Exit
  BY <1>4 DEF Stage, Package, WriteEvidence, MoveDeb, MoveEvidence, Exit, Described,
              Matched, Copied
<1>10. CASE create_build
  <2> DEFINE packages == {f \in In("debs") : f.name # "evidence"}
  <2>1. packages = {FileOf("debs", job.version)}
    BY <1>10, Names DEF create_build, OutputInv, Output, FileOf, TypeInv, In
  <2>2. CASE at' = "refused"
    BY <1>10, <2>2 DEF create_build, Described, Matched, Copied
  <2>3. CASE at' = "verify"
    <3>1. manifests' = WithManifest(OwnManifest("build-manifests"))
      <4>1. PICK deb \in packages :
              manifests' = WithManifest(ManifestOf("build-manifests", deb))
        BY <1>10, <2>3 DEF create_build
      <4>2. deb.name = job.version /\ deb.build = builds
        BY <2>1 DEF FileOf
      <4> QED
        BY <4>1, <4>2 DEF OwnManifest, ManifestOf
    <3>2. OwnManifest("build-manifests").dir = "build-manifests"
      BY DEF OwnManifest, ManifestOf
    <3>3. UNCHANGED <<job, builds>>
      BY <1>10 DEF create_build
    <3>4. ManifestsIn("build-manifests")' = {OwnManifest("build-manifests")}
      BY <3>1, <3>2 DEF WithManifest
    <3>5. \A m \in manifests' : m.dir \in {"build-manifests", "verified-manifests"}
      BY <3>1, <3>2 DEF WithManifest
    <3> QED
      BY <2>3, <3>3, <3>4, <3>5 DEF OwnManifest, ManifestOf, Described, Matched, Copied
  <2> QED
    BY <1>10, <2>2, <2>3 DEF create_build
<1>11. CASE verify_build
  <2>1. CASE at' = "refused"
    BY <1>11, <2>1 DEF verify_build, Described, Matched, Copied
  <2>2. CASE at' = "open deb"
    <3>1. OwnManifest("build-manifests") \in Ours
      BY <1>11 DEF verify_build, Ours, OwnManifest, ManifestOf, Described
    <3>2. PICK m \in Ours : match' = [name |-> m.name, build |-> m.build]
      BY <1>11, <2>2 DEF verify_build
    <3>3. PICK x \in Ours : Ours = {x}
      BY <1>11, <2>2 DEF verify_build, Unique
    <3>4. m = OwnManifest("build-manifests")
      BY <3>1, <3>2, <3>3
    <3>5. match' = [name |-> job.version, build |-> builds]
      BY <3>2, <3>4 DEF OwnManifest, ManifestOf
    <3> QED
      BY <1>11, <2>2, <3>5
         DEF verify_build, OwnManifest, ManifestOf, Described, Matched, Copied
  <2> QED
    BY <1>11, <2>1, <2>2 DEF verify_build
<1>12. CASE HandOn
  <2>1. UNCHANGED <<job, builds, match>>
    BY <1>12 DEF HandOn, CopyDeb, CopyManifest
  <2>2. match = [name |-> job.version, build |-> builds]
    BY <1>12 DEF HandOn, CopyDeb, CopyManifest, Described, Matched
  <2>3. \A dir : ManifestOf(dir, match) = OwnManifest(dir)
    BY <2>2 DEF OwnManifest
  <2>4. \A dir : OwnManifest(dir)' = OwnManifest(dir)
    BY <2>1 DEF OwnManifest, ManifestOf
  <2>5. ManifestsIn("build-manifests") = {OwnManifest("build-manifests")}
    BY <1>12 DEF HandOn, CopyDeb, CopyManifest, Described
  <2>6. ASSUME NEW file, CopyDeb("open deb", "fill deb", file)
        PROVE  ToolInv'
    BY <2>1, <2>2, <2>4, <2>5, <2>6 DEF CopyDeb, Described, Matched, Copied
  <2>7. CASE CopyDeb("fill deb", "open manifest",
                     [dir |-> "verified-debs", name |-> match.name,
                      build |-> match.build])
    <3>1. files' = With(FileOf("verified-debs", job.version))
      BY <2>2, <2>7 DEF CopyDeb, FileOf
    <3>2. {f \in In("verified-debs")' : f.name = job.version}
             = {FileOf("verified-debs", job.version)}
      BY <3>1, CopiedOnce DEF In
    <3> QED
      BY <2>1, <2>2, <2>4, <2>5, <2>7, <3>2
         DEF CopyDeb, FileOf, Described, Matched, Copied
  <2>8. ASSUME NEW m, m.dir = "verified-manifests",
               CopyManifest("open manifest", "fill manifest", m)
        PROVE  ToolInv'
    <3>1. ManifestsIn("build-manifests")' = ManifestsIn("build-manifests")
      BY <2>8 DEF CopyManifest, WithManifest
    <3>2. \A n \in manifests' : n.dir \in {"build-manifests", "verified-manifests"}
      BY <2>8 DEF CopyManifest, WithManifest
    <3>3. UNCHANGED files /\ at = "open manifest" /\ at' = "fill manifest"
      BY <2>8 DEF CopyManifest
    <3> QED
      BY <2>1, <2>2, <2>4, <2>5, <3>1, <3>2, <3>3
         DEF FileOf, In, Described, Matched, Copied
  <2>9. CASE CopyManifest("fill manifest", "verified",
                          OwnManifest("verified-manifests"))
    <3> DEFINE m == OwnManifest("verified-manifests")
    <3>1. m.dir = "verified-manifests"
      BY DEF OwnManifest, ManifestOf
    <3>2. manifests' = WithManifest(m)
      BY <2>9 DEF CopyManifest
    <3> HIDE DEF m
    <3>3. ManifestsIn("build-manifests")' = ManifestsIn("build-manifests")
      BY <3>1, <3>2 DEF WithManifest
    <3>4. \A n \in manifests' : n.dir \in {"build-manifests", "verified-manifests"}
      BY <3>1, <3>2 DEF WithManifest
    <3>5. ManifestsIn("verified-manifests")' = {m}
      BY <3>1, <3>2 DEF WithManifest
    <3>6. UNCHANGED files /\ at = "fill manifest" /\ at' = "verified"
      BY <2>9 DEF CopyManifest
    <3> QED
      BY <2>1, <2>2, <2>4, <2>5, <3>3, <3>4, <3>5, <3>6
         DEF FileOf, In, Described, Matched, Copied, m
  <2> QED
    BY <1>12, <2>3, <2>6, <2>7, <2>8, <2>9 DEF HandOn, OwnManifest, ManifestOf
<1>13. CASE UNCHANGED vars
  BY <1>13 DEF vars, OwnManifest, ManifestOf, In, FileOf
<1> QED
  BY <1>1, <1>2, <1>3, <1>4, <1>10, <1>11, <1>12, <1>13 DEF Next

LEMMA MovedFromTwo ==
    ASSUME NEW name, name # "evidence",
           files = {FileOf("staging", name), FileOf("staging", "evidence")}
    PROVE  With(FileOf("debs", name)) \ {FileOf("staging", name)}
             = {FileOf("debs", name), FileOf("staging", "evidence")}
BY DEF With, FileOf

LEMMA MovedTheOther ==
    ASSUME NEW name, name # "evidence",
           files = {FileOf("debs", name), FileOf("staging", "evidence")}
    PROVE  With(FileOf("debs", "evidence")) \ {FileOf("staging", "evidence")}
             = {FileOf("debs", name), FileOf("debs", "evidence")}
BY DEF With, FileOf

LEMMA CleanStep == Inv /\ [Next]_vars => CleanInv'
<1> SUFFICES ASSUME Inv, [Next]_vars, ~dirty' PROVE CleanInv'
  BY DEF CleanInv
<1> USE DEF Inv, CleanInv
<1>1. ASSUME NEW dir \in Directories, Tidy(dir) PROVE CleanInv'
  BY <1>1 DEF Tidy
<1>2. ASSUME NEW i \in Identities, Start(i) PROVE CleanInv'
  BY <1>2 DEF Start
<1>3. CASE Kill
  BY <1>3 DEF Kill
<1>4. CASE Stage
  BY <1>4 DEF Stage, In
<1>5. CASE Package
  BY <1>5 DEF Package, FileOf
<1>6. CASE WriteEvidence
  BY <1>6 DEF WriteEvidence, FileOf
<1>7. CASE MoveDeb
  <2>1. files' = {FileOf("debs", job.version), FileOf("staging", "evidence")}
    BY <1>7, Names, MovedFromTwo DEF MoveDeb, Move, TypeInv
  <2> QED
    BY <1>7, <2>1 DEF MoveDeb, FileOf
<1>8. CASE MoveEvidence
  <2>1. files' = Output
    BY <1>8, Names, MovedTheOther DEF MoveEvidence, Move, TypeInv, Output
  <2> QED
    BY <1>8, <2>1 DEF MoveEvidence, FileOf, Output
<1>9. CASE Exit
  BY <1>9 DEF Exit
<1>10. CASE create_build
  <2> DEFINE packages == {f \in In("debs") : f.name # "evidence"}
             deb == FileOf("debs", job.version)
  <2>1. packages = {deb}
    BY <1>10, Names DEF create_build, OutputInv, Output, FileOf, TypeInv, In
  <2>2. deb.name = job.version /\ deb.build = builds
    BY DEF FileOf
  <2>3. Unique(packages) /\ \A f \in packages : f.name = job.version
    BY <2>1, <2>2 DEF Unique
  <2>4. PICK f \in packages :
          manifests' = WithManifest(ManifestOf("build-manifests", f))
    BY <1>10, <2>3 DEF create_build
  <2>5. manifests' = {OwnManifest("build-manifests")}
    BY <1>10, <2>1, <2>2, <2>4
       DEF create_build, WithManifest, OwnManifest, ManifestOf
  <2> QED
    BY <1>10, <2>3, <2>5 DEF create_build, Output, FileOf, OwnManifest, ManifestOf
<1>11. CASE verify_build
  <2> DEFINE m == OwnManifest("build-manifests")
             deb == FileOf("debs", job.version)
  <2>1. m.identity = job /\ m.name = job.version /\ m.build = builds
    BY DEF OwnManifest, ManifestOf
  <2>2. Ours = {m}
    BY <1>11, <2>1 DEF verify_build, Ours
  <2>3. Candidates(job.version) = {deb} /\ deb.build = builds
    <3> DEFINE evidence == FileOf("debs", "evidence")
    <3>1. deb.name = job.version /\ deb.build = builds /\ evidence.name = "evidence"
      BY DEF FileOf
    <3>2. files = {deb, evidence}
      BY <1>11 DEF verify_build, Output
    <3> HIDE DEF deb, evidence
    <3> QED
      BY <3>1, <3>2, Names DEF Candidates, TypeInv
  <2>4. builds # Truncated
    BY <1>11 DEF verify_build, TypeInv, Described
  <2> HIDE DEF m, deb
  <2>5. at' # "refused"
    BY <1>11, <2>1, <2>2, <2>3, <2>4 DEF verify_build, Unique, m
  <2> QED
    BY <1>11, <2>5 DEF verify_build
<1>12. CASE HandOn
  BY <1>12 DEF HandOn, CopyDeb, CopyManifest
<1>13. CASE UNCHANGED vars
  BY <1>13 DEF vars, Output, FileOf, OwnManifest, ManifestOf
<1> QED
  BY <1>1, <1>2, <1>3, <1>4, <1>5, <1>6, <1>7, <1>8, <1>9, <1>10, <1>11, <1>12,
     <1>13 DEF Next

------------------------------------------------------------------------------
LEMMA InvHolds == Spec => []Inv
<1>1. Inv /\ [Next]_vars => Inv'
  BY TypeStep, OutputStep, ToolStep, CleanStep DEF Inv
<1> QED
  BY InitInv, <1>1, PTL DEF Spec

\* The output directory is of one build after any kills, failures and restarts of
\* build_debs_in_docker.sh, because the script refuses a directory that is not
\* empty and moves the package first.
THEOREM BuildOutputIsOfOneBuild == Spec => []OutputIsOfOneBuild
<1>1. Inv => OutputIsOfOneBuild
  BY DEF Inv, OutputInv
<1> QED
  BY <1>1, InvHolds, PTL

\* create_build and verify_build of xgc2_artifact_manifest.py hand on the job's
\* own package, evidence and manifest, and refuse nothing but leftovers.
THEOREM BuildVerifiesItsOwn == Spec => []VerifiesItsOwnBuild
<1>1. Inv => VerifiesItsOwnBuild
  <2> SUFFICES ASSUME Inv PROVE VerifiesItsOwnBuild
    OBVIOUS
  <2>1. CASE at = "verified"
    <3>1. /\ \A m \in manifests : m.dir \in {"build-manifests", "verified-manifests"}
          /\ ManifestsIn("build-manifests") = {OwnManifest("build-manifests")}
          /\ ManifestsIn("verified-manifests") = {OwnManifest("verified-manifests")}
      BY <2>1 DEF Inv, ToolInv, Described
    <3>2. manifests = {OwnManifest("build-manifests"),
                       OwnManifest("verified-manifests")}
      BY <3>1 DEF ManifestsIn
    <3> QED
      BY <2>1, <3>2 DEF Inv, OutputInv, ToolInv, VerifiesItsOwnBuild, Described,
                        Copied, Output, OwnManifest
  <2> QED
    BY <2>1 DEF Inv, CleanInv, VerifiesItsOwnBuild
<1> QED
  BY <1>1, InvHolds, PTL
==============================================================================
