SPECIFICATION Spec
CONSTANTS
    d1 = d1
    d2 = d2
    t = t
    u = u
    Docs <- MCDocs
    Terms <- MCTerms
    Fields = {1, 2}
    Wrap = 3
    MaskBits = 1
    MaxSpecs = 3
    MaxHits = 4
SYMMETRY Symmetry
INVARIANTS
    TypeOK
    StampsAreCurrent
    FusedEqualsCombined
