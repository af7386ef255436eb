SPECIFICATION Spec
CONSTANTS
    StorageMode = "compact"
    NCycles = 2
    NSizes = 1
    NBuckets = 2
    MaxPending = 1
    Grades = {"rich", "dead"}
    Stages <- FewStages
    MayBreak = {"simulate", "write", "cancel"}
    MaxSignals = 1
    MaxErrors = 0
INVARIANTS
    LatencyLineHasSignal
    SignalFullyObserved
    VerdictsTruthful
CHECK_DEADLOCK FALSE
