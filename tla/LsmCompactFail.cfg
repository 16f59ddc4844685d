SPECIFICATION Spec
CONSTANTS
    Key = {k1, k2}
    Val = {v1}
    Delete = Delete
    None = None
    Torn = Torn
    SeqMax = 3
    FlushThreshold = 2
    COMPACTION_TRIGGER = 2
    CrashPoints = {}
    FailPoints = {"crename"}
    TornWrites = FALSE
    FlushAfterFailure = FALSE
    MaxCrashes = 1
    MaxFails = 1
PROPERTY
    FailedCompactionIsHarmless
CHECK_DEADLOCK FALSE
