SPECIFICATION Spec
CONSTANTS
    Routes <- MCRoutes
    Amounts <- MCAmounts
    Haircut <- Quarter
    Shock <- Tenth
    Digits = 2
    MaxDecimals = 8
    Tolerance <- Fifth
INVARIANTS
    OrdersMeetEveryFilter
    NeverBeatsGross
    LotsAreWhole
    SizeIsLargest
CHECK_DEADLOCK FALSE
