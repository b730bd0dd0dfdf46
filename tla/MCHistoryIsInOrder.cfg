CONSTANTS
    SampleSize = 3
    SnapshotEveryN = 2
    Clients = {c1}
    MaxMatches = 1
    MaxUpdates = 3
    MaxCrashes = 1
SPECIFICATION Spec
INVARIANT HistoryIsInOrder
