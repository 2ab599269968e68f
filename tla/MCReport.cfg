SPECIFICATION Spec
CONSTANTS
    Inputs <- MCInputs
    SigLen = 6
    BandRows = 3
    Unit = 60
    SameThresh = 53
    MinSim = 36
    Margin = 5
    Floor = 12
    Weight = 60
    Rounds = 2
    MatchThresh = 27
    QueryThresh = 42
    EvalThresh = 12
INVARIANTS
    SelfComparisonIsClean
    NoCloseRowIsMissed
    TriageIsEven
