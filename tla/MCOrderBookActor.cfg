CONSTANTS
    OrderIds <- MCOrderIds
    Prices <- MCPrices
    Quantities <- MCQuantities
    Orders <- ThreeOrders
    SnapshotInterval = 4
    MaxRedelivered = 1
SPECIFICATION Spec
INVARIANTS
    TypeOK
    EngineMatchesJournal
    JournalAccountsForTheBook
    ConfirmedIsJournaled
    PublishedFollowsJournal
    NothingNeededIsDeleted
    SnapshotsAreSoundCuts
PROPERTY
    ImplementsOrderBook
