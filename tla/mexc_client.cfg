SPECIFICATION FairSpec
CONSTANTS
    Monitored <- MCMonitored
    MaxStreams = 1
    QueueSize = 1
    MaxRetries = 1
    RetryCap = 2
    Told = {1, 3}
    MaxUpdates = 2
INVARIANTS
    UpdatesAccounted
PROPERTIES
    LossesShowAsGaps
    RetriesAsTold
    NothingHangs
CHECK_DEADLOCK FALSE
