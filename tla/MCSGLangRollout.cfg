SPECIFICATION FairSpec
CONSTANTS
    Requests = {r1, r2}
    Tools <- MCTools
    RateLimit = 1
    NumWorkers = 2
    CallLists <- MCCallLists
    Kinds <- MCTrain
    MaxBatches = 2
    MaxTurns = 3
    PromptLen = 2
    ResponseLength = 1
    MaxModelLen = 14
    HeaderLen = 1
    EndLen = 1
    ToolResponseLens <- MCLens
INVARIANTS
    TypeOK
    TokensAreConserved
    InstancesOutliveCalls
    EveryCallIsAnswered
PROPERTIES
    RefinesRateLimit
    BatchEnds
CHECK_DEADLOCK FALSE
