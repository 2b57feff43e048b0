SPECIFICATION Spec
CONSTANTS
    NGroups = 1
    N = 3
    WorldSize = 2
    JudgeScores <- MCScores3
    CriticWarmup = 0
    TotalSteps = 1
    SaveFreq = 0
    MaxCrashes = 0
INVARIANT
    FailedVerdictIsMaskedOut
CHECK_DEADLOCK FALSE
