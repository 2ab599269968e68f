SPECIFICATION BudgetSpec
CONSTANTS
    w1 = w1
    w2 = w2
    w3 = w3
    w4 = w4
    Shards <- FourShards
    Cores = 1
    TickSecs = 60
INVARIANTS
    BusyWorkerOutlivesDeadline
