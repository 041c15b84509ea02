SPECIFICATION Spec
CONSTANTS
    Models <- ModelsOfLibrary
    Connected <- WidthsOfSignals
    MaxRuns = 2
    MaxFaults = 1
    MaxTime = 3
INVARIANTS
    TypeOK
    DriversStayInPorts
    BlocksGetWhatTheyAskFor
    NothingSurvives
    FilesOfARun
    TimeStartsAtZero
CHECK_DEADLOCK FALSE
