SPECIFICATION TwiFairSpec
CONSTANTS
    Message = {m1}
    BufferLength = 2
    Lengths = {2}
    ForeignMax = 4
    OtherMasters = TRUE
    HeldUp = FALSE
INVARIANTS ReadIsFresh HeldOnly AckedIsGiven
PROPERTIES CallsReturn
