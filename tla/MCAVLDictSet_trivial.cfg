CONSTANTS
    MaxCap <- MCSmallCap
    Values = {}
    Keys <- MCSmallKeys
    InitReserve <- MCInitReserve
    Conditions <- MCSmallConditions
    ReserveArgs <- MCSmallReserveArgs
    TrivialNode = TRUE
    NoKey = NoKey
    NoVal = NoVal
    None = None
    NoRet = NoRet
    Exhausted = Exhausted
SPECIFICATION Spec
PROPERTY SetRefinesOrderedSet
