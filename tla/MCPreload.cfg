\* A program of two threads, either of which may be the first to connect.
SPECIFICATION FairSpec
CONSTANTS
    Threads = {t1, t2}
    Regions = {A, B}
    PacketLen = 1
    MaxTorn = 0
    MaxConns = 2
    MaxRequests = 2
    AllocAlone = FALSE
    ServerFaults = {}
    Junk = Junk
    None = None
INVARIANT
    LocalIsHooked
PROPERTY
    MallocReturns
CHECK_DEADLOCK FALSE
