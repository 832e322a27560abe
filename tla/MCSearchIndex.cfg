SPECIFICATION Spec
CONSTANTS
    a = a
    b = b
    t = t
    u = u
    f = f
    g = g
    NoId = NoId
    NoDocument = NoDocument
    Ids <- MCIds
    Terms <- MCTerms
    Fields <- MCFields
    Contents <- MCContents
    MaxShortId = 3
    MaxVersion = 2
    MaxDirt = 2
    AutoVacuum = TRUE
    MinDirtCount = 2
    MinDirtPercent = 50
SYMMETRY Symmetry
INVARIANTS
    TypeOK
    QueriesFindLiveDocuments
    CleanUnlessChanged
    SnapshotLoads
    CachedHandlesCurrent
PROPERTIES
    IdTableVersioned
    ImplementsDocuments
