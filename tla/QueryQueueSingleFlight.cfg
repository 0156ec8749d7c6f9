SPECIFICATION Spec
CONSTANTS
    Caller = {c1}
    Key = {k1}
    Job = {j1, j2, j3, j4, j5, j6, j7}
    NoJob = NoJob
    NoKey = NoKey
    MaxTries = 5
    TimeLimit = FALSE
    Events = {}
SYMMETRY Symmetry
CHECK_DEADLOCK FALSE
INVARIANT
    SingleFlight
