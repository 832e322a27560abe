CONSTANTS
    Keys <- MCKeys
    Values = {v1, v2}
    None = None
    HighSurrogates = {"H", "G"}
    Queries <- MCQueries
    Distances <- MCDistances
    WordBits = 3
    Ordinary = 1
    MaxCells = 34
    CellSize = 65536
SPECIFICATION Spec
INVARIANTS TypeOK PrefixFindsAll FuzzyFindsAll EachTermOnce
PROPERTY ImplementsUpstream
