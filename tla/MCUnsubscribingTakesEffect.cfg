CONSTANTS
    SampleSize = 3
    SnapshotEveryN = 2
    Clients = {c1}
    MaxMatches = 1
    MaxUpdates = 3
    MaxCrashes = 0
SPECIFICATION InsistentSpec
PROPERTY UnsubscribingTakesEffect
