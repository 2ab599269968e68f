SPECIFICATION Spec
CONSTANTS
    Size = 3
    Instrs <- MCInstrs
    VisitCap = 2
    ExploreDepth = 2
    BlanketRestarts = 3
INVARIANTS
    FlipsThePlannedBranch
    RestartsAdvance
    BlanketCoverageIsTotal
