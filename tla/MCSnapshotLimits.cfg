CONSTANTS
    NFields = 2
    StoreNames = {"title"}
    None = None
    Null = Null
    MaxShortIds = 10
    MaxFieldSlots = 80
    MaxDepth = 128
    Budget = 1342
    Ids <- MCIds
    Contents <- MCAlike
    StoredValues <- MCStored
    MaxNext = 3
    MaxDirt = 0
SPECIFICATION Spec
INVARIANT SavedIsLoadable
