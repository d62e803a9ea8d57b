\* An allocation whose size in bytes wraps around.
SPECIFICATION Spec
CONSTANTS
    Clients = {c1}
    Bases = {b1}
    Data = {0}
    Zero = 0
    U32 = 8
    PageSize = 2
    Capacity = 2
    AllocSizes = {1, 5}
    Offsets = {0}
    Named = {0}
    Writes = {0}
    MaxAllocs = 1
    MaxFds = 1
    Null = Null
    None = None
INVARIANT
    HugeAllocFails
