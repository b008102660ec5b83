SPECIFICATION TimersSpec
CONSTANTS
    Top = 3
    Half = 4
    MILLIS_INC = 1
    FRACT_INC = 2
    FRACT_MAX = 5
    Scale = 2
    Milli = 5
    Delays = {0, 1, 3}
    MaxTicks = 70
    MAX_NUMBER_OF_EVENTS = 2
    Periods = {1, 2}
    Repeats = {1, 2}
    MaxCalls = 2
    Second = 3
    DEFAULT_LEASE = 9
    Terms = {0, 6, 16}
    T1Named = TRUE
    MaxGap = 7
    MaxRequest = 2
    TonePins = {"a", "b"}
    Base = 4
    MaxToggles = 5
    ServoPins = {1, 2}
    MaxServos = 2
    Widths = {1, 2}
    RefreshInterval = 5
    Margin = 2
    Wrap = 8
    MaxLate = 1
INVARIANTS ClockKept NoDrift LeaseInTime TonePulses
PROPERTIES EventsKept PulsesKept
\* the clock stops at MaxTicks
CHECK_DEADLOCK FALSE
