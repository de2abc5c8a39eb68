SPECIFICATION BeatSpec
CONSTANTS
    Peers = {p1, p2}
    Putters = {t1}
    Beaters = {b1}
    Electors = {}
    Voters = {}
    Keys = {k1}
    Values = {v1}
    NoValue = NoValue
    None = None
    Promotable = TRUE
    StorageFails = FALSE
    MaxLog = 2
    MaxTerm = 0
    MaxTasks = 0
    MaxFaults = 0
PROPERTY CommitCatchesUp
CHECK_DEADLOCK FALSE
