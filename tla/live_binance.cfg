SPECIFICATION Spec
CONSTANTS
    Prices = {1, 2, 3}
    Quantities = {0, 1, 2}
    MaxDepth = 1
    SnapshotLimit = 1
    Policy = "binance"
    Symbols = {btc}
    Shards = {h1}
    ShardOf <- OneShard
    MaxBuffer = 2
    SyncMaxAttempts = 2
    ApiCalls = {"resync"}
    MaxId = 3
    Truth <- MCTruth
    MaxToken = 3
INVARIANTS
    BooksFaithful
    ConnectedOnlyOverOpenShard
    NoLostWakeup
PROPERTIES
    ImplementsReplica
