SPECIFICATION FairSpec
CONSTANT
    MaxLines = 3
PROPERTY
    SignalEnds
CHECK_DEADLOCK FALSE
