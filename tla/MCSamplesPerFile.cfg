SPECIFICATION Spec
CONSTANTS
    NumSamplesPerFile = 2
    MaxSamples = 5
    MaxFaults = 0
INVARIANT
    SamplesPerFileLimit
