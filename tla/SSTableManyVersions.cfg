SPECIFICATION Spec
CONSTANTS
    Key <- Keys
    Val = {v1}
    Delete = Delete
    None = None
    SeqMax = 4
    SPARSE_INTERVAL = 2
    BITS_PER_KEY = 2
    MinBits = 4
    NumHashes = 2
    HashSize = 16
    Hash1 <- Hash1Of
    Hash2 <- Hash2Of
    Expected = {0, 1, 5}
    MaxVersions = 4
    MaxEntries = 0
    Inputs = {}
INVARIANT
    LookupIsExact
CHECK_DEADLOCK FALSE
