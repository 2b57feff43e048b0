SPECIFICATION FairSpec
CONSTANTS
    NItems = 3
    MaxConcurrency = 2
    MaxRetries = 1
INVARIANTS
    TypeOK
    ResultsBelongToItems
    NoWastedRequest
    CountersAreExact
PROPERTIES
    BatchReturns
    RefinesScoreBatch
CHECK_DEADLOCK FALSE
