SPECIFICATION Spec
CONSTANTS
    Keys = {k1}
    Values = {v1}
    NoValue = NoValue
    SplitSend = FALSE
    DeleteMayFail = FALSE
    CallsMayFail = TRUE
    TermMayFall = FALSE
    MaxTerm = 3
    MaxLen = 2
    MaxCrashes = 0
    Peers = {p1}
    Electors = {e1}
    Voters = {w1}
    MaxTasks = 1
INVARIANTS TypeOK LoopMerges CommittedAgrees RowsPresent
CHECK_DEADLOCK FALSE
