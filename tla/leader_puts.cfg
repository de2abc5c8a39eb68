SPECIFICATION Spec
CONSTANTS
    Peers = {p1}
    Putters = {t1, t2}
    Beaters = {}
    Electors = {e1}
    Voters = {w1}
    Keys = {k1}
    Values = {v1}
    NoValue = NoValue
    None = None
    Promotable = TRUE
    StorageFails = TRUE
    MaxLog = 1
    MaxTerm = 1
    MaxTasks = 1
    MaxFaults = 1
SYMMETRY Symmetry
INVARIANTS TypeOK NoMissingRow
PROPERTY LogAppendOnly
CHECK_DEADLOCK FALSE
