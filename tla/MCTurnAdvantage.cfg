SPECIFICATION Spec
CONSTANTS
    r1 = r1
    r2 = r2
    r3 = r3
    c1 = c1
    d1 = d1
    c2 = c2
    c3 = c3
    g1 = g1
    g2 = g2
    Rows <- MCRows
    Cells <- MCCells
    RowOf <- MCRowOf
    FirstCells <- MCFirst
    Uids <- MCUids
    Scores <- MCScores
    Gaps <- MCGaps
    ExpClip = 2
    Expm1 <- MCExpm1
    One = 100
    Lambdas <- MCLambdas
    Eta = 20
    GHatMax = 300
    Norms <- MCNorms
INVARIANTS
    VerifierDecidesSign
    ScaleIsGroupLocal
    CreditFollowsTeacher
SYMMETRY BatchSymmetry
CHECK_DEADLOCK FALSE
