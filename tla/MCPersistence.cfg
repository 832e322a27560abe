CONSTANTS
    NFields = 2
    StoreNames = {"title"}
    None = None
    Null = Null
    MaxShortIds = 2
    MaxFieldSlots = 6
    MaxDepth = 2
    Budget = 268435456
    Ids <- MCIds
    Contents <- MCContentsByField
    StoredValues <- MCStoredValues
    MaxNext = 2
    MaxDirt = 1
SPECIFICATION Spec
INVARIANTS TypeOK EngineIsValid
PROPERTY LoadRestores
