SPECIFICATION Spec
CONSTANTS
    Boxes <- MCBoxes
    MaxBlobs = 2
    MaxTracks = 2
    DieThreshold = 2
    Word = 64
    MaxFrames = 4
    MaxStops = 1
    BenchSize = 3
    BenchCosts = {0, 1, 2}
INVARIANTS LeastCost BlobsTracked DiesInTime
PROPERTIES SolveEnds
CHECK_DEADLOCK FALSE
