CONSTANTS
    alice = alice
    bob = bob
    OrderIds <- MCOrderIds
    Prices <- MCPrices
    Quantities <- MCQuantities
    Orders <- MCOrders
    Traders <- MCTraders
    OrdersOf <- MCOrdersOf
SPECIFICATION Spec
INVARIANTS
    TypeOK
    FillsAreJournaled
    NotOverfilled
    NothingIsForgotten
PROPERTY
    TradesAreSettled
