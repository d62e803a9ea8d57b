\* Two threads that fault in two regions; torn packets, a server that refuses or dies.
SPECIFICATION FairWireSpec
CONSTANTS
    Threads = {t1, t2}
    Regions = {A, B}
    PacketLen = 2
    MaxTorn = 1
    MaxConns = 1
    MaxRequests = 4
    AllocAlone = TRUE
    ServerFaults = {"refuses", "dies"}
    Junk = Junk
    None = None
INVARIANTS
    WholeAnswersOwn
    InStep
PROPERTY
    ExchangesComplete
CHECK_DEADLOCK FALSE
