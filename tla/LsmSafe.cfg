SPECIFICATION Spec
CONSTANTS
    Key = {k1, k2}
    Val = {v1}
    Delete = Delete
    None = None
    Torn = Torn
    SeqMax = 4
    FlushThreshold = 2
    COMPACTION_TRIGGER = 2
    CrashPoints <- SafeCrashPoints
    FailPoints <- SafeFailPoints
    TornWrites = FALSE
    FlushAfterFailure = FALSE
    MaxCrashes = 1
    MaxFails = 1
INVARIANTS
    LogIsDurable
    IterAllAgrees
    SeqStrictlyIncreasing
PROPERTIES
    SnapshotStable
    ImplementsKVStore
CHECK_DEADLOCK FALSE
SYMMETRY Symmetry
