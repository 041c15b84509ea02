SPECIFICATION FairSpec
CONSTANTS
    NumTasks = 2
    SampleTicks <- MCSampleTicks
    OffsetTicks <- MCOffsetTicks
    MaxTicks = 3
    MaxFired = 3
INVARIANTS
    TypeOK
    TasksLiveWhileUsed
    TicksReachAllTasks
    AtMostOneLateStep
    CleanEnd
PROPERTY
    StartAndStopReturn
