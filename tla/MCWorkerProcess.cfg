CONSTANTS
    Closers = {c1}
    Lifetime = 2
    OutputBytes = 1
    MaxFaults = 1
SPECIFICATION FairSpec
INVARIANTS CleanupHonest
PROPERTIES OnlyDueExpires EndsUnsupervised PhaseEnds CloseReturns
