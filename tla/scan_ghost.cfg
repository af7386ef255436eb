SPECIFICATION Spec
CONSTANTS
    StorageMode = "full"
    NCycles = 1
    NSizes = 1
    NBuckets = 1
    MaxPending = 1
    Grades = {"rich"}
    Stages <- OneStage
    MayBreak = {}
    MaxSignals = 1
    MaxErrors = 0
INVARIANTS
    GhostAsDocumented
CHECK_DEADLOCK FALSE
