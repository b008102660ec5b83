SPECIFICATION EthernetFairSpec
CONSTANTS
    MAX_SOCK_NUM = 2
    Clients = {c1}
    Guest = guest
    Udps = {u1}
    Dns = dns
    Sketches = {{"server", "client"}, {"client", "udp"}, {"client", "dns"}, {"udp", "dns"}}
    MaxUses = 3
    MaxBytes = 1
    MaxRx = 5
    MaxCalls = 4
INVARIANTS OwnConnection NoSocketLost DatagramsKept
PROPERTY EthernetReturns
CHECK_DEADLOCK FALSE
