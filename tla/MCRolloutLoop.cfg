SPECIFICATION Spec
CONSTANTS
    k1 = k1
    k2 = k2
    Groups = 2
    N = 2
    MaxSteps = 2
    MaxTries = 2
    FilterModes <- BothModes
    EnvNames <- AllEnvs
    Kinds <- MCKinds
    Divisor = 10
INVARIANTS
    EpisodesEndAtDone
    SuccessMatchesReward
    GroupsStayWhole
    CollectsTheTarget
    RowsAreTheEpisodes
    BatchDivides
SYMMETRY KindSymmetry
CHECK_DEADLOCK FALSE
