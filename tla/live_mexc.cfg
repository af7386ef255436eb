SPECIFICATION Spec
CONSTANTS
    Prices = {1, 2, 3}
    Quantities = {0, 1, 2}
    MaxDepth = 1
    SnapshotLimit = 1
    Policy = "mexc"
    Symbols = {btc, eth}
    Shards = {h1}
    ShardOf <- OneShard
    MaxBuffer = 2
    SyncMaxAttempts = 2
    ApiCalls = {}
    MaxId = 2
    Truth <- MCTruth
    MaxToken = 3
SYMMETRY Interchangeable
INVARIANTS
    NeverStranded
PROPERTIES
    GapIsIsolated
    ImplementsReplica
