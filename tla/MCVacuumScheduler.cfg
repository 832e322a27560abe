SPECIFICATION FairSpec
CONSTANTS
    Docs = {0, 1, 2}
    Terms = {t, u}
    Calls = {1, 2}
    BatchSizes = {1}
    AutoBatchSize = 1
    MinDirtCount = 1
    MinDirtPercent = 50
    MaxHandSteps = 2
INVARIANTS
    TypeOK
    FulfilledMeansCleaned
    DirtCoversStale
PROPERTIES
    Settles
    AskedIsCleaned
