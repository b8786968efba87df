SPECIFICATION OrderingSpec
CONSTANTS
    Types = {"camera", "sobel", "server"}
    Dynamic = {"server"}
    DataTypes = {"image"}
    inType <- MCInType
    outType <- MCOutType
    propertyType <- MCPropertyType
    EnumItems = {"fast", "slow"}
    EnumDefault = "slow"
    Texts <- MCTexts
    FileNames = {"saved", "hand", "ring", "fork"}
    InitialFiles <- MCFiles
    SaveNames = {"saved"}
    UserValues = {"y"}
    MaxElements = 2
    MaxConnections = 2
    MaxSaved = 2
INVARIANTS GraphSound RoundTrip ElementsSaved OrderingSound
ACTION_CONSTRAINT StartsBeforeSaves
