SPECIFICATION Spec
CONSTANTS
    Caller = {c1}
    Key = {k1}
    Job = {j1, j2, j3, j4, j5}
    NoJob = NoJob
    NoKey = NoKey
    MaxTries = 5
    TimeLimit = FALSE
    Events = {"sweep"}
SYMMETRY Symmetry
PROPERTY
    OnlyGhostLocksRemoved
