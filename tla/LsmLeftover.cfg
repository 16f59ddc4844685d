SPECIFICATION Spec
CONSTANTS
    Key = {k1, k2}
    Val = {v1}
    Delete = Delete
    None = None
    Torn = Torn
    SeqMax = 4
    FlushThreshold = 5
    COMPACTION_TRIGGER = 9
    CrashPoints = {"idle"}
    FailPoints = {"write"}
    TornWrites = FALSE
    FlushAfterFailure = TRUE
    MaxCrashes = 1
    MaxFails = 1
INVARIANT
    LogIsDurable
SYMMETRY Symmetry
CHECK_DEADLOCK FALSE
