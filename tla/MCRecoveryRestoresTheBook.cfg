CONSTANTS
    OrderIds <- MCOrderIds
    Prices <- MCPrices
    Quantities <- MCQuantities
    Orders <- ThreeOrders
    SnapshotInterval = 2
    MaxRedelivered = 0
SPECIFICATION Spec
INVARIANT RecoveryRestoresTheBook
