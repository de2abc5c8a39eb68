SPECIFICATION Spec
CONSTANTS
    Peers = {}
    Putters = {t1, t2}
    Beaters = {}
    Electors = {e1}
    Voters = {}
    Keys = {k1}
    Values = {v1, v2}
    NoValue = NoValue
    None = None
    Promotable = FALSE
    StorageFails = FALSE
    MaxLog = 1
    MaxTerm = 1
    MaxTasks = 0
    MaxFaults = 0
INVARIANT QuiescentStore
CHECK_DEADLOCK FALSE
