SPECIFICATION AFairSpec
CONSTANTS
    Cap = 2
    Absent = Absent
    Torn = Torn
    MaxID = 4
    Requests = {r1, r2}
    NoRequest = NoRequest
    MaxEpoch = 2
INVARIANTS
    IDsConsecutive
    AnsweredIsListed
PROPERTIES
    ResumesWhatWasSaved
    RequestsEnd
    SignalEnds
CHECK_DEADLOCK FALSE
