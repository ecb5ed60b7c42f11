SPECIFICATION Spec
CONSTANTS
    Keys = {k1, k2}
    Rate = 1
    Token = 2
    Burst = 2
    CleanupInterval = 3
    NoBucket = NoBucket
    NoAnswer = NoAnswer
    MaxTime = 6
SYMMETRY Symmetry
INVARIANTS
    TypeOK
    RateBound
PROPERTY
    ImplementsIdeal
