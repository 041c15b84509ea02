SPECIFICATION FairSpec
CONSTANTS
    NumSamplesPerFile = 2
    MaxSamples = 5
    MaxFaults = 2
INVARIANTS
    TypeOK
    NothingLostOnTheWay
    FilesAreFull
    NoFileOverwritten
PROPERTIES
    BacklogIsWritten
    StopEnds
