CONSTANTS
    MaxCap <- MCMaxCap
    Values = {}
    Keys <- MCKeys
    InitReserve <- MCInitReserve
    Conditions <- MCConditions
    ReserveArgs <- MCReserveArgs
    TrivialNode = FALSE
    NoKey = NoKey
    NoVal = NoVal
    None = None
    NoRet = NoRet
    Exhausted = Exhausted
SPECIFICATION Spec
INVARIANT TypeOK
INVARIANT PoolAccountsForEverySlot
INVARIANT SearchTreeOrdered
INVARIANT StoredHeightsBalanced
INVARIANT NilSentinel
PROPERTY SetRefinesOrderedSet
INVARIANT QueriesAnswerFromTheSet
INVARIANT CopyIsDeepAndTransactional
