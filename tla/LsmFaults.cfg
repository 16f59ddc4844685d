SPECIFICATION Spec
CONSTANTS
    Key = {k1}
    Val = {v1}
    Delete = Delete
    None = None
    Torn = Torn
    SeqMax = 2
    FlushThreshold = 2
    COMPACTION_TRIGGER = 2
    CrashPoints <- AllCrashPoints
    FailPoints <- AllFailPoints
    TornWrites = TRUE
    FlushAfterFailure = TRUE
    MaxCrashes = 2
    MaxFails = 1
INVARIANTS
    TypeOK
    TiersServe
    OutputIsFresh
PROPERTIES
    CallsReturn
CHECK_DEADLOCK FALSE
