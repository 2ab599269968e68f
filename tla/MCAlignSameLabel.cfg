SPECIFICATION Spec
CONSTANTS
    Targets = {1, 2, 3}
    Rows <- SameLabel
    Tables <- MCTables
    TGraphs <- MCTGraphs
    CGraphs <- MCCGraphs
    Unit = 60
    Weight = 60
    Threshold = 42
    Floor = 12
    Rounds = 2
INVARIANTS
    OrderIndependent
