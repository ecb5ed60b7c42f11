SPECIFICATION ASpec
CONSTANTS
    Cap = 2
    Absent = Absent
    Torn = Torn
    MaxID = 3
    Requests = {r1, r2}
    NoRequest = NoRequest
    MaxEpoch = 1
PROPERTY
    HistorySurvivesShutdown
CHECK_DEADLOCK FALSE
