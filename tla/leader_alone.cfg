SPECIFICATION Spec
CONSTANTS
    Peers = {}
    Putters = {t1}
    Beaters = {}
    Electors = {e1}
    Voters = {}
    Keys = {k1, k2}
    Values = {v1, v2}
    NoValue = NoValue
    None = None
    Promotable = FALSE
    StorageFails = FALSE
    MaxLog = 3
    MaxTerm = 2
    MaxTasks = 0
    MaxFaults = 2
INVARIANTS AckedApplied AckedReadable
CHECK_DEADLOCK FALSE
