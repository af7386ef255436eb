SPECIFICATION FeedSpec
CONSTANTS
    Prices = {1, 2}
    Quantities = {0, 1}
    MaxDepth = 1
    SnapshotLimit = 2
    Policy = "binance"
    MaxId = 3
    Histories <- MCHistories
INVARIANTS
    Faithful
    Complete
    CrossedOnlyWithExchange
