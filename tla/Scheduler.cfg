SPECIFICATION FairSpec
CONSTANTS
    Jobs = {j1, j2}
    JobIDs = {i1, i2}
    NameOf <- SharedName
    Timers = {t1, t2, t3}
    NoJob = NoJob
    NoTimer = NoTimer
    NoID = NoID
    MaxPending = 1
    MaxRunning = 2
INVARIANTS
    TypeOK
    TimersTracked
    NeverLost
PROPERTIES
    ForkOnlyByCaller
    EnabledJobsKeepRunning
    UnscheduledJobsDieOut
