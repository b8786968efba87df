SPECIFICATION PluginsSpec
CONSTANTS
    MaxBuffer = 3
    MaxFrames = 7
    MaxSessions = 3
    LastDevice = 1
    MaxAlerts = 2
    MaxPosted = 2
    MaxRounds = 2
    MaxQueue = 1
    Limits = {0, 1, 2}
    LastSerial = 4
    MaxCuts = 1
    Lengths = {1, 2}
    MaxEvents = 3
    LastFrame = 5
    Depths = {"8U", "16U", "32F"}
    Channels = {1, 3, 4}
    Sizes <- SomeSizes
    Values <- SomeValues
    MaxMargin = 2
    MaxSteps = 6
    MaxGiven = 7
INVARIANTS DeviceHeld FramesInTurn KinectQuiet StreamOrder QueueBound StallHasAck ResyncAfterCut ViewerOrder RunsLegal SessionMemory
PROPERTIES CleanRelease FramesRenewed KinectStops StallEnds ViewerRenewed
CHECK_DEADLOCK FALSE
