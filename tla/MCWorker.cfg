SPECIFICATION PatientSpec
CONSTANTS
    InputLen = 2
    MaxInput = 2
    MaxReply = 2
    ReplyLens <- MCReplyLens
    PipeCap = 1
    MaxErr = 2
    Faults <- AllFaults
    Subreaper = FALSE
INVARIANTS
    TypeOK
    JailBeforeInput
    AcceptedReplyIsWhole
    NoChildLeftBehind
    SignalsOwnChild
    NoSpuriousFailure
    NoUnsupervisedWork
PROPERTIES
    HangsOnlyOnErrorArms
    HonestCallCompletes
    ImplementsCall
