SPECIFICATION ReadySpec
CONSTANTS
    Producers = {"cam"}
    Processors = {"blur", "show"}
    Pins = {"camOut", "blurOut", "flagOut"}
    Connections = {0, 1, 2}
    owner <- FlagOwner
    from <- FlagFrom
    to <- FlagTo
    Sync = {0, 1}
    MayBeNull = {}
    Leaves = {0}
    Threshold = 1
    FirstSerial = 1
    MaxUInt = 4
    LastSerial = 4
    StopAt = {2}
    Faults <- BlurThrow
INVARIANT ChainBound
PROPERTIES EveryFrameProcessed ProductionGoesOn StopTerminates
