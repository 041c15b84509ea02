SPECIFICATION Spec
CONSTANTS
    NumSamplesPerFile = 2
    MaxSamples = 5
    MaxFaults = 1
INVARIANT
    OnlyWrittenIsRemoved
