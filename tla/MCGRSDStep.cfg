SPECIFICATION FairSpec
CONSTANTS
    NGroups = 2
    N = 2
    WorldSize = 5
    JudgeScores <- MCScores
    CriticWarmup = 2
    TotalSteps = 2
    SaveFreq = 1
    MaxCrashes = 1
INVARIANTS
    TypeOK
    OneSnapshot
    RewardIsOfThisStep
    ReflectionGradientIsCentred
    ResumesTheSameRun
PROPERTIES
    StepEnds
CHECK_DEADLOCK FALSE
