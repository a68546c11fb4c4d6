CONSTANTS
    TimeLimits <- MCTimeLimits
    MaxElapsed <- MCMaxElapsed
    NoLimit = NoLimit
SPECIFICATION Spec
INVARIANT SigKillOnlyToOwnChild
