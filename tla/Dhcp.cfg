SPECIFICATION DhcpSpec
CONSTANTS
    Servers = {s1, s2}
    None = None
    Tries = 2
    LateBreak = TRUE
    Busy = TRUE
INVARIANT LeaseFromServer
