\* Two versions and two runs; jobs are killed, fail and start over.
SPECIFICATION Spec
CONSTANTS
    Versions = {v1, v2}
    Runs = {r1, r2}
    MaxBuilds = 3
INVARIANTS
    OutputIsOfOneBuild
    VerifiesItsOwnBuild
