SPECIFICATION Spec
CONSTANTS
    Keys = {k1}
    Values = {v1}
    NoValue = NoValue
    SplitSend = FALSE
    DeleteMayFail = FALSE
    CallsMayFail = FALSE
    TermMayFall = TRUE
    MaxTerm = 2
    MaxLen = 2
    MaxCrashes = 0
    Peers = {p1}
    Electors = {e1}
    Voters = {}
    MaxTasks = 2
INVARIANT CommittedAgrees
CHECK_DEADLOCK FALSE
