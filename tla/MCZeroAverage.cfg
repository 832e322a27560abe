CONSTANTS
    Docs = {1, 2, 3}
    Terms <- MCTerms
    Fields <- MCFields
    PrefixOf <- MCPrefixOf
    FuzzyOf <- MCFuzzyOf
    Unboosted = {2}
    GlobalOptions <- MCGlobalOptions
    Queries <- MCQueries
    Contents <- ZeroContents
    NoAnswer = NoAnswer
    MaxDirt = 3
SPECIFICATION Spec
PROPERTY ImplementsUpstream
