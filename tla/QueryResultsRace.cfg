SPECIFICATION FairSpec
CONSTANTS
    Query = {1, 2}
    Hash = {h1}
    Exec = {e1, e2}
    Editor = {}
    NoExec = NoExec
    NoQuery = NoQuery
    Overlap = TRUE
    Events = {"crash"}
CHECK_DEADLOCK FALSE
PROPERTIES
    AlertSeesResult
    EveryExecutionEnds
    ResultsReachAlerts
