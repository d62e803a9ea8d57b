\* Two threads that allocate and fault at once: the mutex that is unlocked twice.
SPECIFICATION Spec
CONSTANTS
    Threads = {t1, t2}
    Regions = {A, B}
    PacketLen = 1
    MaxTorn = 0
    MaxConns = 1
    MaxRequests = 4
    AllocAlone = FALSE
    ServerFaults = {}
    Junk = Junk
    None = None
INVARIANT
    ConnectedAnswersOwn
CHECK_DEADLOCK FALSE
