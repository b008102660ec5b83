SPECIFICATION DhcpSpec
CONSTANTS
    Servers = {s1}
    None = None
    Tries = 1
    LateBreak = TRUE
    Busy = TRUE
PROPERTY RenewalRetried
