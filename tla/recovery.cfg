SPECIFICATION FairSpec
CONSTANTS
    Prices = {1, 2, 3}
    Quantities = {0, 1, 2}
    MaxDepth = 1
    SnapshotLimit = 1
    Policy = "binance"
    Symbols = {btc}
    Shards = {h1}
    ShardOf <- OneShard
    MaxBuffer = 1
    SyncMaxAttempts = 2
    ApiCalls = {"replay"}
    MaxId = 2
    Truth <- MCTruth
    MaxToken = 2
PROPERTIES
    Recovers
    StopCompletes
