CONSTANTS
    MaxCap <- MCMaxCap
    Keys <- MCKeys
    Values = {}
    InitReserve <- MCInitReserve
    Conditions = {}
    ReserveArgs <- MCReserveArgs
    TrivialNode = FALSE
    NoKey = NoKey
    NoVal = NoVal
    None = None
    NoRet = NoRet
    Exhausted = Exhausted
SPECIFICATION Spec
CONSTRAINT SizeBound
INVARIANT StoredHeightsBalanced
PROPERTY MultisetRefinesOrderedMultimap
