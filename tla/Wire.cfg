SPECIFICATION WireSpec
CONSTANTS
    Message = {m1}
    BufferLength = 2
    Lengths = {0, 1, 2}
    ForeignMax = 4
    OtherMasters = TRUE
    HeldUp = FALSE
INVARIANTS SentIsWanted ReadIsDue
