SPECIFICATION FairSpec
CONSTANTS
    Peers = {p1}
    Putters = {t1}
    Beaters = {}
    Electors = {e1, e2}
    Voters = {w1, w2}
    Keys = {k1}
    Values = {v1}
    NoValue = NoValue
    None = None
    Promotable = TRUE
    StorageFails = TRUE
    MaxLog = 2
    MaxTerm = 1
    MaxTasks = 2
    MaxFaults = 1
PROPERTY PutAnswered
CHECK_DEADLOCK FALSE
