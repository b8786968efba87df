SPECIFICATION Spec
CONSTANTS
    Producers = {"cam"}
    Processors = {"left", "right", "mix"}
    Pins = {"camOut", "leftOut", "rightOut"}
    Connections = {0, 1, 2, 3}
    owner <- DiamondOwner
    from <- DiamondFrom
    to <- DiamondTo
    Sync = {0, 1, 2, 3}
    MayBeNull = {3}
    Leaves = {2}
    Threshold = 1
    FirstSerial = 1
    MaxUInt = 3
    LastSerial = 3
    StopAt = {2}
    Faults <- DiamondFaults
INVARIANTS FramesAligned RunQueueExact Bookkeeping QuietWhenStopped
PROPERTY ImplementsFrameOrder
