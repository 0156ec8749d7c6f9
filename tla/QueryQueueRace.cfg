SPECIFICATION Spec
CONSTANTS
    Caller = {c1, c2}
    Key = {k1}
    Job = {j1, j2, j3, j4}
    NoJob = NoJob
    NoKey = NoKey
    MaxTries = 2
    TimeLimit = FALSE
    Events = {"cancel", "lockExpiry"}
SYMMETRY Symmetry
CHECK_DEADLOCK FALSE
INVARIANTS
    TypeOK
    CallReturnsItsJob
    NoStaleJobReturned
PROPERTY
    NoLockOverwritten
