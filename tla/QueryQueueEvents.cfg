SPECIFICATION Spec
CONSTANTS
    Caller = {c1, c2}
    Key = {k1, k2}
    Job = {j1, j2}
    NoJob = NoJob
    NoKey = NoKey
    MaxTries = 1
    TimeLimit = TRUE
    Events = {"cancel", "sweep", "jobExpiry"}
SYMMETRY Symmetry
INVARIANT
    LockNamesItsJob
PROPERTY
    KeepsJobPromise
