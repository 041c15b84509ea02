SPECIFICATION Spec
CONSTANTS
    NumTasks = 2
    SampleTicks <- MCSampleTicks
    OffsetTicks <- MCOffsetTicks
    MaxTicks = 3
    MaxFired = 3
INVARIANT
    NoNewStepOnceMasterIsJoined
