\* One thread, two regions, one recv that returns less than a packet.
SPECIFICATION WireSpec
CONSTANTS
    Threads = {t1}
    Regions = {A, B}
    PacketLen = 2
    MaxTorn = 1
    MaxConns = 1
    MaxRequests = 3
    AllocAlone = TRUE
    ServerFaults = {}
    Junk = Junk
    None = None
INVARIANT
    HandlesGranted
CHECK_DEADLOCK FALSE
