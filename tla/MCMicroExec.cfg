SPECIFICATION FairRunSpec
CONSTANTS
    Addrs = {1, 2}
    Body = {1}
    FixedRegions <- MCFixed
    Locs <- MCLocs
    SetupPages <- MCPages
    InstrCap = 2
    VisitCap = 1
    MaxEffects = 2
    MaxHeapish = 1
    MaxReads = 1
    MaxMaps = 1
    MemOpsPerInstr = 3
    AfterStop = 1
INVARIANTS
    RunTypeOK
    EffectsBounded
    CleanTraceIsComplete
PROPERTIES
    RunTerminates
