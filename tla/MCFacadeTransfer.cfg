SPECIFICATION Spec
CONSTANTS
    a = a
    b = b
    Ids <- MCIds
    NoId = NoId
    NoDocument = NoDocument
    FieldCount = 2
    Unfit = {0}
    MaxShortId = 3
    MaxVersion = 5
    Batch = 2
    Slack = 1
    MaxDepth = 3
    CallbackCalls = {"read", "promote"}
    AnyTarget = FALSE
INVARIANTS
    SameDocumentsAsUpstream
