CONSTANTS
    Docs = {1, 2, 3}
    Terms <- MCTerms
    Fields <- MCFields
    PrefixOf <- MCPrefixOf
    FuzzyOf <- MCFuzzyOf
    Unboosted = {2}
    GlobalOptions <- MCGlobalOptions
    Queries <- MCQueries
    Contents <- MCContents
    NoAnswer = NoAnswer
    MaxDirt = 3
SPECIFICATION Spec
INVARIANTS TypeOK PlainSearchIsConverged AveragesAreMeans
PROPERTY ImplementsUpstream
VIEW AllButAnswer
