SPECIFICATION Spec
CONSTANTS
    i1 = i1
    i2 = i2
    i3 = i3
    IDs = {i1, i2, i3}
    NameOf <- Naming
    Queries = {q1}
    Requests = {r1, r2}
    None = None
    Torn = Torn
    MaxRuns = 2
    MaxStarts = 1
SYMMETRY Symmetry
INVARIANTS
    FileIsCurrent
    UsageIsEarned
PROPERTY
    ResumesWhatWasSaved
CHECK_DEADLOCK FALSE
