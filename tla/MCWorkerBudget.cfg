SPECIFICATION BudgetSpec
CONSTANTS
    w1 = w1
    w2 = w2
    w3 = w3
    w4 = w4
    Shards <- TwoShards
    Cores = 4
    TickSecs = 60
INVARIANTS
    DeadlineCatchesOnlyHangs
