SPECIFICATION QSpec
CONSTANTS
    Keys = {k1, k2}
    Data <- Results
    TTLs = {1, 2}
    MaxSize = 1
    DefaultTTL = 1
    MaxTime = 4
    Requests = {r1, r2}
    Writes = {}
    NoResult = NoResult
    Timeout = 1
    Deaf = {k2}
    MaxClears = 1
SYMMETRY Symmetry
INVARIANTS
    CachedAtOnce
    BoundedAge
    ClearForgetsOld
CONSTRAINT OneLateAnswer
