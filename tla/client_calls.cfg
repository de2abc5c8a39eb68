SPECIFICATION FairSpec
CONSTANTS
    s1 = s1
    s2 = s2
    NoServer = none
    Servers <- MCServers
    ServerList <- MCList
    NumHosts <- OneHost
    MaxObjects = 2
    MaxAsync = 1
    Keys = {k1}
    Values <- MCValues
    NoValue <- MCNoValue
    MaxCalls = 2
INVARIANTS
    TypeOK
    StubFound
    OneObject
    InitProtects
PROPERTIES
    Implements
    CallReturns
