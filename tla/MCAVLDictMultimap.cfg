CONSTANTS
    MaxCap <- MCMaxCap
    Keys <- MCKeys
    Values <- MCValues
    v0 = v0
    v1 = v1
    InitReserve <- MCInitReserve
    Conditions = {}
    ReserveArgs <- MCReserveArgs
    AlterArgs <- MCAlterArgs
    TrivialNode = FALSE
    NoKey = NoKey
    NoVal = NoVal
    None = None
    NoRet = NoRet
    Exhausted = Exhausted
SPECIFICATION Spec
INVARIANT TypeOK
INVARIANT PoolAccountsForEverySlot
INVARIANT KeysInOrder
PROPERTY MultimapRefinesOrderedMultimap
