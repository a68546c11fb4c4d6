CONSTANTS
    MaxCap <- MCMaxCap
    Values = {}
    Keys <- MCKeys
    InitReserve <- MCInitReserve
    Conditions <- MCConditions
    ReserveArgs <- MCReserveArgs
    TrivialNode = FALSE
    NoKey = NoKey
    NoVal = NoVal
    None = None
    NoRet = NoRet
    Exhausted = Exhausted
SPECIFICATION Spec
PROPERTY EraseOfAbsentKeyLeavesTree
