SPECIFICATION Spec
CONSTANTS
    Keys = {k1}
    Values = {v1, v2}
    NoValue = NoValue
    NoRow = NoRow
    Error = Error
    Entry <- MCEntry
    Indices <- MCIndices
    MaxRows = 2
    MaxOpens = 2
INVARIANTS TypeOK LateRowsLag
PROPERTIES Implements
CHECK_DEADLOCK FALSE
