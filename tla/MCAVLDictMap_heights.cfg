CONSTANTS
    MaxCap <- MCMaxCap
    Keys <- MCHeightKeys
    Values <- MCHeightValues
    ValueInit = v0
    v0 = v0
    v1 = v1
    InitReserve <- MCInitReserve
    Conditions <- MCConditions
    ReserveArgs <- MCReserveArgs
    AlterArgs <- MCHeightAlterArgs
    TrivialNode = FALSE
    NoKey = NoKey
    NoVal = NoVal
    None = None
    NoRet = NoRet
    Exhausted = Exhausted
SPECIFICATION Spec
INVARIANT StoredHeightsBalanced
