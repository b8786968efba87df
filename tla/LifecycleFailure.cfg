SPECIFICATION FairSpec
CONSTANTS
    Elements = {1, 2, 3}
    Producers = {1}
    Graphs = {"ok", "pins", "cycle"}
    Faults <- AllFaults
    MaxStarts = 2
CHECK_DEADLOCK FALSE
INVARIANTS AllOrNothing 
PROPERTY FailureStops
