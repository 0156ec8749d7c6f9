SPECIFICATION ResultsDigestSpec
CONSTANTS
    \* QueryResults
    Query = {1, 2}
    Hash = {h1, h2}
    Exec = {e1, e2, e3}
    Editor = {x1}
    NoExec = NoExec
    NoQuery = NoQuery
    Overlap = FALSE
    Events = {"crash", "edit"}
    \* Digest
    Subscription = {d}
    Dispatch = {w1, w2}
    WeekDays = 2
    Hours = 2
    HourTicks = 2
    Patience = 1
    LastTick = 8
SYMMETRY ResultsDigestSymmetry
CHECK_DEADLOCK FALSE
INVARIANTS
    TypeOK
    LatestIsNewest
    FailuresCounted
PROPERTY
    RerunsAreSafe
