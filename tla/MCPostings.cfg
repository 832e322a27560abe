SPECIFICATION Spec
CONSTANTS
    MaxDoc = 4
    MaxFrequency = 2
    Docs <- MCDocs
INVARIANTS
    TypeOK
    LengthCountsPostings
    AtMostHalfTombstones
PROPERTIES
    ImplementsMap
