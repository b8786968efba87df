SPECIFICATION FairSpec
CONSTANTS
    MaxBuffer = 3
    MaxFrames = 7
    MaxSessions = 3

PROPERTIES ReleaseReturns
CHECK_DEADLOCK FALSE
