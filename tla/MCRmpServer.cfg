\* Two clients of one server: every interleaving of their connections and requests.
SPECIFICATION FairSpec
CONSTANTS
    Clients = {c1, c2}
    Bases = {b1, b2}
    Data = {0, 1}
    Zero = 0
    U32 = 8
    PageSize = 2
    Capacity = 2
    AllocSizes = {1, 2}
    Offsets = {1}
    Named = {0, 1}
    Writes = {1}
    MaxAllocs = 2
    MaxFds = 2
    Null = Null
    None = None
INVARIANTS
    TypeOK
    Backed
    NoLeak
    CopyInBounds
PROPERTIES
    FreedStaysFreed
    Linearizable
    Served
