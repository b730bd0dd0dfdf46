CONSTANTS
    OrderIds = {o1, o2, o3}
    Prices = {1, 2, 3}
    Quantities = {1, 2}
    MaxDeliveries = 1
SPECIFICATION Spec
INVARIANT
    SnapshotIsFullState
CHECK_DEADLOCK FALSE
