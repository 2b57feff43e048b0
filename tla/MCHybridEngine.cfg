SPECIFICATION Spec
CONSTANTS
    WorldSize = 4
    TPSize = 2
    Batches <- MCBatches
    MaxTokenLen = 5
    MiniBatchSize = 2
    OffloadParam = TRUE
    OffloadOptimizer = TRUE
    MaxCalls = 4
INVARIANTS
    TypeOK
    RowsComeBack
    FreshSamples
    KVCacheFits
    CallGoesOn
PROPERTIES
    SharesAreEven
CHECK_DEADLOCK FALSE
