SPECIFICATION Spec
CONSTANTS
    Elfs <- MCElfs
    FileLen = 6
    Top = 31
    Page = 4
    MaxSegMem = 7
    MaxTotalMem = 10
    MaxLoadSegs = 3
    MaxFuncs = 5
    Scratch <- MCScratch
    MaxSetupRuns = 2
    MaxScan = 2
INVARIANTS
    SegmentsDisjoint
    MemoryBounded
    AcceptedFilesRun
    StrippingKeepsTheGraph
