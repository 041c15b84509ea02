SPECIFICATION FairSpec
CONSTANTS
    Task <- MCTask
    SampleTicks <- MCSampleTicks
    OffsetTicks <- MCOffsetTicks
    MaxTicks = 8
INVARIANTS
    TypeOK
    ExactSchedule
    TokenMatchesJob
PROPERTIES
    AcceptedJobCompletes
    ImplementsSchedule
