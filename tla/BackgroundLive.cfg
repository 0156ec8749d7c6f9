SPECIFICATION LiveSpec
CONSTANTS
    \* Scheduler
    Query = {1, 2}
    Source = {s1}
    NoSource = gone
    WithEnd = {1}
    TooMany = 1
    MaxMoves = 1
    \* FailureReports
    Owner = {o1, o2}
    MaxReports = 2
    MaxFailures = 3
    \* ResultPolling
    MaxTry = 1
    MaxRuns = 2
INVARIANTS
    LiveTypeOK
    OutcomesAreTrue
PROPERTIES
    DueTextRuns
    PastSchedulesEmptied
    ReportsAreKept
    ReportsAreMailed
    ExecutionSettles
CHECK_DEADLOCK FALSE
