SPECIFICATION Spec
CONSTANTS
    a = a
    b = b
    Ids <- MCIds
    NoId = NoId
    NoDocument = NoDocument
    FieldCount = 2
    Unfit = {0, 2}
    MaxShortId = 3
    MaxVersion = 4
    Batch = 2
    Slack = 1
    MaxDepth = 3
    CallbackCalls = {"add", "addAll", "remove", "discard", "read"}
    AnyTarget = FALSE
SYMMETRY MCSymmetry
INVARIANTS
    TypeOK
    SameDocumentsAsUpstream
    SameNumbering
    TableIsCurrent
