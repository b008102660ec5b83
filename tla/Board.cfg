SPECIFICATION BoardSpec
CONSTANTS
    DisplaySize = 2
    TextBufferSize = 3
    ScrollDefault = 1
    DelayDefault = 1
    Texts <- MCTexts
    Ports = {"s1", "s2"}
    Inverted = {"s2"}
    MaxBuff = 3
    Bits = 3
    Heard = {1, 2}
    PageSize = 264
    Cells = {0, 263}
    Pages = {127, 128}
    Data = {7}
    MaxFlashCalls = 5
    BlockSize = 3
    Blocks = {1, 2}
    SketchPins = {11, 12}
    HandlerPins = {15}
    DataPin = 12
    ClockPin = 11
    Duties = {0, 100, 200, 255}
    ShiftBits = 2
    Timeouts = {0, 1, 2, 3}
    MaxLine = 8
    ClockBits = 3
    IntBits = 8
    Letters = {"a", "A", " "}
    MaxText = 3
    GrowFinds = {1}
    LongBits = 16
    Longs = {0, 1, 9, 10, 99, 100, 499, 500, 999, 1000, 1995, 1996, 9999, 12345, 32767, 32768, 40000, 65535, 65531, 65036}
    Letter = {1, 2}
    MaxTarget = 3
    MaxHeard = 6
    Length = 3
    CellBits = 2
    MaxObject = 2
    Readings <- MCReadings
    Noise = 1
INVARIANTS LcdShows PortKept TransactionsHold CalledWhole CardKept PinsAndWaits ConversionsHold
PROPERTY StoresKept
CHECK_DEADLOCK FALSE
