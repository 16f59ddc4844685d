SPECIFICATION Spec
CONSTANTS
    Key <- Keys
    Val = {v1}
    Delete = Delete
    None = None
    SeqMax = 3
    SPARSE_INTERVAL = 2
    BITS_PER_KEY = 2
    MinBits = 4
    NumHashes = 2
    HashSize = 16
    Hash1 <- Hash1Of
    Hash2 <- Hash2Of
    Expected = {0, 1, 2, 3, 4}
    MaxVersions = 3
    MaxEntries = 4
    Inputs <- InputLists
INVARIANTS
    BuildTypeOK
    HeapIsBuffered
    LookupIsExact
    OutputIsMerge
    MergeKeepsReads
PROPERTIES
    WriterContract
    EveryBuildEnds
CHECK_DEADLOCK FALSE
