SPECIFICATION Spec
CONSTANTS
    Boxes <- MCBoxes
    MaxBlobs = 2
    MaxTracks = 2
    DieThreshold = 2
    Word = 64
    MaxFrames = 2
    MaxStops = 0
    BenchSize = 1
    BenchCosts = {0}
INVARIANT MaxCoverage
CHECK_DEADLOCK FALSE
