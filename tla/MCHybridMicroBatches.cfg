SPECIFICATION Spec
CONSTANTS
    WorldSize = 4
    TPSize = 2
    Batches <- MCBatches
    MaxTokenLen = 5
    MiniBatchSize = 2
    OffloadParam = TRUE
    OffloadOptimizer = TRUE
    MaxCalls = 1
INVARIANTS
    MicroBatchesFit
CHECK_DEADLOCK FALSE
