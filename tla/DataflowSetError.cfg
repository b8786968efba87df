SPECIFICATION Spec
CONSTANTS
    Producers = {"cam", "kinect"}
    Processors = {"mix"}
    Pins = {"camOut", "kinOut"}
    Connections = {0, 1}
    owner <- PairOwner
    from <- PairFrom
    to <- PairTo
    Sync = {0, 1}
    MayBeNull = {}
    Leaves = {}
    Threshold = 2
    FirstSerial = 1
    MaxUInt = 4
    LastSerial = 4
    StopAt = {2, 3}
    Faults <- PairSetError
INVARIANT QuietWhenStopped
