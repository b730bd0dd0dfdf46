CONSTANTS
    SampleSize = 2
    SnapshotEveryN = 2
    Clients = {c1}
    MaxMatches = 2
    MaxUpdates = 4
    MaxCrashes = 2
SPECIFICATION Spec
INVARIANTS
    TypeOK
    RecoveryKeepsTheAverages
    FullHistoryIsRestored
    JournalFollowsPublications
    AveragesExtendTheStored
PROPERTIES
    AggregatorComesBack
    ImplementsPriceSeries
