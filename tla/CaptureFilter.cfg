SPECIFICATION Spec
CONSTANTS
    NoLength = NoLength
    Lengths = {0, 1, 2}
    MaxBytes = 4
    MaxBrigade = 3
INVARIANTS
    TypeOK
    NoTempLeft
    PublishedIsWhole
    PublishedAsDeclared
    CutShortNotPublished
    FilterInv
