SPECIFICATION Spec
CONSTANTS
    Id = {i1, i2, i3}
    Vector <- Vectors
    Dim = 3
    Lanes = 2
    Scale = 6
    NaN = NaN
    Term = {"a", "b", "c"}
    Text <- Texts
    Idf <- IdfOf
    KConst = 60
    Unit = 238266
    Query <- Queries
    CANDIDATE_POOL_MULTIPLIER = 2
    MIN_CANDIDATE_POOL = 2
    Delete = Delete
    None = None
    Doc <- DocsWithNaN
    IoErrors = FALSE
    MaxWrites = 3
INVARIANT
    NaNNeverWins
SYMMETRY Symmetry
CHECK_DEADLOCK FALSE
