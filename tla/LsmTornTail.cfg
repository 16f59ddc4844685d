SPECIFICATION Spec
CONSTANTS
    Key = {k1, k2}
    Val = {v1}
    Delete = Delete
    None = None
    Torn = Torn
    SeqMax = 3
    FlushThreshold = 2
    COMPACTION_TRIGGER = 9
    CrashPoints = {"sync"}
    FailPoints = {}
    TornWrites = TRUE
    FlushAfterFailure = FALSE
    MaxCrashes = 1
    MaxFails = 1
INVARIANT
    LogIsDurable
CHECK_DEADLOCK FALSE
