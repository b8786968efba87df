SPECIFICATION Spec
CONSTANTS
    Elements = {1, 2, 3}
    Producers = {1}
    Graphs = {"ok"}
    Faults <- StartFaults
    MaxStarts = 2
CHECK_DEADLOCK FALSE
INVARIANT NoAbort
