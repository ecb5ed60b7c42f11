SPECIFICATION QSpec
CONSTANTS
    Keys = {k1}
    Data <- Results
    TTLs = {1}
    MaxSize = 1
    DefaultTTL = 2
    MaxTime = 2
    Requests = {r1, r2}
    Writes = {k1}
    NoResult = NoResult
    Timeout = 1
    Deaf = {}
    MaxClears = 1
INVARIANT
    WritesAreExecuted
