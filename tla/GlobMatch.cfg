SPECIFICATION FairSpec
CONSTANTS
    PatternChars <- Globs
    ValueChars <- Letters
    MaxPattern = 4
    MaxValue = 4
INVARIANTS
    TypeOK
    GlobIsCorrect
    LastStarSuffices
    GlobInv
PROPERTIES
    TurnsGoForward
    GlobReturns
