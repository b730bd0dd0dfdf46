CONSTANTS
    Nodes = {n1, n2}
    NoNode = none
    Symbols = {"AMD", "MSFT"}
    MaxKills = 1
    MaxMoves = 1
    MaxFaults = 1
SPECIFICATION Spec
INVARIANT
    TypeOK
PROPERTIES
    SilenceEnds
    OneRequestIsForAll
