SPECIFICATION CacheSpec
CONSTANTS
    Keys = {k1, k2, k3, k4}
    Data = {d}
    TTLs = {0, 1}
    MaxSize = 3
    DefaultTTL = 2
    MaxTime = 5
SYMMETRY Symmetry
INVARIANTS
    OrderMatchesEntries
    OrderIsRecency
    SizeBound
PROPERTY
    LiveEntriesStay
