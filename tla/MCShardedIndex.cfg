SPECIFICATION FairSpec
CONSTANTS
    NumFuncs = 5
    Usable <- MCUsable
    MaxShards = 3
    Requests <- MCRequests
    InputLens <- MCInputLens
    MaxAggregate = 16
    t1 = t1
    t2 = t2
    Threads <- MCThreads
INVARIANTS
    TypeOK
    ShardingIsInvisible
    NoWorkerOutlivesIndex
    ErrorIsReproducible
PROPERTIES
    IndexEnds
