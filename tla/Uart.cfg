SPECIFICATION UartSpec
CONSTANTS
    TxSize = 3
    MaxBytes = 6
    HeldUp = FALSE
    NoByte = NoByte
    Image <- MCImage
    Own <- MCOwn
    PageBytes = 4
    MaxSessions = 2
    MaxFaults = 1
INVARIANTS IrqHasData NothingCut FlashIsSent
PROPERTIES CallsReturn TxIsAChannel BootEnds
