SPECIFICATION Spec
CONSTANTS
    Null = Null
    Ids <- FiveIds
    At <- Times
    Group <- Groups
    MainKey = 2
    Dotted <- Paths
    Workloads <- AllWorkloads
    MaxPages = 5
INVARIANTS
    CursorPagesLoseNothing
    OffsetPagesPartition
    AnswersAreWhole
    ExportedFileIsTheResult
    DiscoveredSchemaIsReal
    JoinIsTheReference
PROPERTY
    CallsEnd
CHECK_DEADLOCK FALSE
