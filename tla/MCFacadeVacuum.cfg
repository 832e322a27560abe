CONSTANTS
    Docs = {0, 1}
    Terms = {t, u}
    Calls = {1, 2, 3}
    BatchSize = 1
    MinDirtCount = 1
    MinDirtPercent = 25
    DefaultMinDirtCount = 2
    DefaultMinDirtPercent = 10
SPECIFICATION FairSpec
INVARIANTS TypeOK NoOrphanRun FulfilledMeansCleaned
PROPERTIES Settles AskedIsCleaned
CHECK_DEADLOCK FALSE
