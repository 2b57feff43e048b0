SPECIFICATION Spec
CONSTANTS
    k1 = k1
    k2 = k2
    Groups = 1
    N = 2
    MaxSteps = 2
    MaxTries = 3
    FilterModes <- Dynamic
    EnvNames <- SearchOnly
    Kinds <- MCKinds
    Divisor = 1
INVARIANT
    KeepsSampling
CHECK_DEADLOCK FALSE
