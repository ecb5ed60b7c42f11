SPECIFICATION FairSpec
CONSTANT
    MaxLines = 3
INVARIANTS
    OneLateLine
PROPERTIES
    EveryLineAnswered
    ClientGone
CHECK_DEADLOCK FALSE
