CONSTANTS
    OrderIds = {o1, o2, o3, o4}
    Prices = {1, 2, 3}
    Quantities = {1, 2}
    MaxDeliveries = 2
SYMMETRY IdSymmetry
SPECIFICATION Spec
INVARIANTS
    TypeOK
    IndexesAreFresh
    FillsAccountForAcceptances
    NotCrossed
    SettledWithinLimits
PROPERTIES
    RestsOnlyWhenExhausted
    MatchesAreTraded
    BuyersGetTheCheapestAsks
CHECK_DEADLOCK FALSE
