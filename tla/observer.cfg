SPECIFICATION FairSpec
CONSTANTS
    MaxCheckpoints = 2
    MaxCancelPoints = 2
CHECK_DEADLOCK FALSE
INVARIANTS
    LatestIsFinal
    HistoryIsPublished
    ManagerStopsFirst
    EndsClean
PROPERTIES
    RunEnds
