SPECIFICATION FairSpec
CONSTANTS
    NumServices = 2
    Task = {t1, t2}
    Group = {g1, g2}
    NoGroup = NoGroup
    MaxFaults = 2
INVARIANTS
    TypeOK
    JoinedGroupsDescribeSocket
    ServicesStableInLoop
PROPERTIES
    SocketsGetBound
    ClearReturns
