SPECIFICATION FairSpec
CONSTANTS
    Usdt = 5
    Bps = 10
    Scale = 4
    Symbols = {1, 2, 3, 4, 5, 6, 7, 8, 9}
    Whole = 9
    RowSets <- MCRowSets
    MaxExplicitSymbols = 4
    RateLimitRetries = 1
    MaxChecks = 1
    Markets <- MCMarkets
    SettingsChoices <- MCSettings
    FeeRate = 1
    MaxRuns = 2
CHECK_DEADLOCK FALSE
INVARIANTS
    SelectionWhole
    NoPairLeftOut
    FeesConservative
    OnlyWholeChecksCount
PROPERTIES
    CheckEnds
