SPECIFICATION FairSpec
CONSTANTS
    Caller = {c1}
    Key = {k1}
    Job = {j1, j2, j3}
    NoJob = NoJob
    NoKey = NoKey
    MaxTries = 2
    TimeLimit = TRUE
    Events = {"sweep", "fail", "crash"}
PROPERTIES
    GhostLockRemoved
    EveryJobEnds
