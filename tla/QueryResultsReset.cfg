SPECIFICATION Spec
CONSTANTS
    Query = {1}
    Hash = {h1, h2}
    Exec = {e1, e2, e3}
    Editor = {}
    NoExec = NoExec
    NoQuery = NoQuery
    Overlap = TRUE
    Events = {}
SYMMETRY Symmetry
CHECK_DEADLOCK FALSE
PROPERTY
    SuccessResetsFailures
