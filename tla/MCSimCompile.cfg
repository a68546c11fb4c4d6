CONSTANTS
    TimeLimits <- MCTimeLimits
    MaxElapsed <- MCMaxElapsed
    NoLimit = NoLimit
SPECIFICATION Spec
INVARIANT TypeOK
INVARIANT NoChildOutlivesCompile
INVARIANT ChildErrorThrown
PROPERTY TimeLimitedCompileEnds
PROPERTY CompileEndsOnceCompilerExits
