SPECIFICATION Spec
CONSTANTS
    Producers = {"kinect"}
    Processors = {"mix", "show"}
    Pins = {"depthOut", "videoOut"}
    Connections = {0, 1, 2}
    owner <- KinectOwner
    from <- KinectFrom
    to <- KinectTo
    Sync = {0, 1, 2}
    MayBeNull = {}
    Leaves = {}
    Threshold = 1
    FirstSerial = 1
    MaxUInt = 2
    LastSerial = 3
    StopAt = {}
    Faults <- KinectFaults
INVARIANTS AlignedAfterWrap SourceBound
