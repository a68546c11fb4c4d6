CONSTANTS
    Inputs <- MCInputs
    Patterns <- MCPatterns
    ExeBuf <- MCExeBuf
    ExeBigBuf <- MCExeBigBuf
    DeletedSuffix <- MCDeletedSuffix
    Throws = Throws
SPECIFICATION Spec
INVARIANT ClassesMatchCLocale
INVARIANT NumbersMatchGrammar
INVARIANT AffixesMatchSequences
INVARIANT GetExecReturnsWholeLink
INVARIANT ProcessMatchedExactly
