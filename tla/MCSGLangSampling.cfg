SPECIFICATION Spec
CONSTANTS
    Requests = {r1, r2}
    Tools <- MCTools
    RateLimit = 1
    NumWorkers = 1
    CallLists <- MCCallLists
    Kinds <- MCValidate
    MaxBatches = 1
    MaxTurns = 1
    PromptLen = 2
    ResponseLength = 3
    MaxModelLen = 6
    HeaderLen = 1
    EndLen = 1
    ToolResponseLens <- MCLens
CHECK_DEADLOCK FALSE
INVARIANT
    ParametersFallBack
