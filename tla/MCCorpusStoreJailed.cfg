SPECIFICATION Spec
CONSTANTS
    w1 = w1
    w2 = w2
    r1 = r1
    Writers <- TwoWriters
    Readers <- OneReader
    BatchLen = 2
    MaxRows = 4
INVARIANTS
    NoHalfCorpusLeftBehind
