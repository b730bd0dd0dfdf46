CONSTANTS
    Nodes = {n1, n2}
    NoNode = none
    Symbols = {"MSFT"}
    Symbol = "MSFT"
    Tracker = "tracker"
    MaxKills = 1
    MaxMoves = 1
    MaxUpdates = 3
    MaxFaults = 1
SPECIFICATION Spec
INVARIANTS
    TypeOK
    LiveIsHeardOrAsking
PROPERTIES
    ShownInOrder
    NoGapOnceLive
    OneFaultIsSurvived
