SPECIFICATION Spec
CONSTANTS
    r0 = r0
    r1 = r1
    Ranks <- MCRanks
    NFiles = 1
    TotalSteps = 3
    SaveFreq = 1
    MaxKeep = 1
    UseCritic = FALSE
    ResumeModes <- AutoMode
    MaxRuns = 2
INVARIANT
    TrackerNamesComplete
CHECK_DEADLOCK FALSE
