SPECIFICATION FairSpec
CONSTANTS
    Server = {s1, s2}
    Nowhere = Nowhere
PROPERTY
    FlagIsForAddress
