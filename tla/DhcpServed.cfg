SPECIFICATION DhcpSpec
CONSTANTS
    Servers = {s1, s2}
    None = None
    Tries = 1
    LateBreak = TRUE
    Busy = TRUE
PROPERTY Served
