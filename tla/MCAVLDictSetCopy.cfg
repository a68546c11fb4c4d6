CONSTANTS
    MaxCap <- MCMaxCap
    Values = {}
    Keys <- MCKeys
    InitReserve <- MCInitReserve
    Conditions <- MCConditions
    ReserveArgs <- MCReserveArgs
    Garbage <- MCGarbage
    TrivialNode = FALSE
    NoKey = NoKey
    NoVal = NoVal
    None = None
    NoRet = NoRet
    Exhausted = Exhausted
SPECIFICATION SpecWithCopy
INVARIANT NilSentinel
