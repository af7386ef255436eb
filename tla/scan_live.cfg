SPECIFICATION FairSpec
CONSTANTS
    StorageMode = "full"
    NCycles = 1
    NSizes = 1
    NBuckets = 1
    MaxPending = 1
    Grades = {"rich"}
    Stages <- OneStage
    MayBreak = {"simulate", "write", "cancel"}
    MaxSignals = 2
    MaxErrors = 1
INVARIANTS
    OneWriterPerFile
    MissedOnlyWhenCancelled
    NoFollowUpOutlivesRun
    SignalsAccounted
PROPERTIES
    RunEnds
CHECK_DEADLOCK FALSE
