SPECIFICATION FairSpec
CONSTANTS
    r0 = r0
    r1 = r1
    Ranks <- MCRanks
    NFiles = 1
    TotalSteps = 3
    SaveFreq = 1
    MaxKeep = 2
    UseCritic = TRUE
    ResumeModes <- AllModes
    MaxRuns = 3
INVARIANTS
    TypeOK
    TrackerNamesComplete
    NeverRedoesSavedStep
    KeepsAtMostPerRun
PROPERTIES
    ResumesAtTracker
    RotationSparesOtherRuns
    SaveTerminates
CHECK_DEADLOCK FALSE
