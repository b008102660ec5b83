CONSTANTS
    TxSize = 2
    MaxBytes = 3
    HeldUp = FALSE
    NoByte = NoByte
    RxSize = 3
    MaxFrames = 4
    FifoDepth = 2
    NoData = NoData
SPECIFICATION Spec
INVARIANTS RxInOrder PromisesHold EndIsQuiet
PROPERTY ImplementsHalves
