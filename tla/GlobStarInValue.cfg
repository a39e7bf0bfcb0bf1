SPECIFICATION Spec
CONSTANTS
    PatternChars <- Globs
    ValueChars <- LettersStars
    MaxPattern = 2
    MaxValue = 2
INVARIANTS
    GlobIsCorrect
