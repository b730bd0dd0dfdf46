CONSTANTS
    Nodes = {n1, n2}
    NoNode = none
    Symbols = {"MSFT"}
    Symbol = "MSFT"
    Tracker = "tracker"
    MaxKills = 1
    MaxMoves = 0
    MaxUpdates = 3
    MaxFaults = 0
SPECIFICATION Spec
PROPERTY FailoverIsFollowed
