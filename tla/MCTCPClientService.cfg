SPECIFICATION FairSpec
CONSTANTS
    Server = {s1, s2}
    Nowhere = Nowhere
INVARIANTS
    TypeOK
    SleepsOnlyWhenDone
    OnlyConnectedSocketIsUsed
PROPERTIES
    CommandIsServed
    DestroyReturns
