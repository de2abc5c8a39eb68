SPECIFICATION Spec
CONSTANTS
    Keys = {k1}
    Values = {v1, v2}
    NoValue = NoValue
    SplitSend = FALSE
    DeleteMayFail = FALSE
    CallsMayFail = FALSE
    TermMayFall = TRUE
    MaxTerm = 2
    MaxLen = 2
    MaxCrashes = 1
    Peers = {p1}
    Electors = {e1}
    Voters = {w1}
    MaxTasks = 2
SYMMETRY Symmetry
INVARIANTS StoreAgrees StoreChosen
CHECK_DEADLOCK FALSE
