SPECIFICATION FairSpec
CONSTANTS
    Process = {p1, p2}
    NoProcess = NoProcess
    MaxRequests = 2
INVARIANTS
    TypeOK
    OneModelOnTarget
    PostsReachSemaphore
PROPERTY
    RequestEndsProcess
