SPECIFICATION EditsSpec
CONSTANTS
    User = {u1, u2}
    Object = {q1}
    NoObject = none
    Dashboard = {}
    MaxEdits = 2
PROPERTIES
    NoEditLost
CHECK_DEADLOCK FALSE
