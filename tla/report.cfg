SPECIFICATION Spec
CONSTANTS
    Cycles = {"c1", "c2"}
    Ids = {i1, i2, i3}
    Signals <- MCSignals
    Checks <- MCChecks
    Healths <- MCHealths
    Buckets = {1, 3}
    Tolerance = 1
    FeeCosts = {0, 3}
    SampleLimit = 1
    TopLimit = 2
    Gates <- MCGates
    MaxHealth = 1
    MaxCheckpoints = 3
SYMMETRY Alike
INVARIANTS
    StreamIsExact
    VerdictsEarned
CHECK_DEADLOCK FALSE
