SPECIFICATION WBSpec
CONSTANTS
    Types = {"camera", "server"}
    Dynamic = {"server"}
    DataTypes = {"image"}
    inType <- MCInType
    outType <- MCOutType
    propertyType <- MCPropertyType
    EnumItems = {"fast", "slow"}
    EnumDefault = "slow"
    Texts <- MCTexts
    FileNames = {"saved", "served"}
    InitialFiles <- WBFiles
    SaveNames = {"saved"}
    UserValues = {"2"}
    MaxElements = 2
    MaxConnections = 1
    MaxSaved = 2
    MaxSelected = 2
INVARIANTS SceneInSync ChangesAsked
PROPERTIES GraphFixedWhileRunning
CHECK_DEADLOCK FALSE
