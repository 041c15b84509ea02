SPECIFICATION FairSpec
CONSTANT MaxFired = 5
INVARIANTS
    TypeOK
    TickAccounting
PROPERTY
    CancelWakesWaiter
