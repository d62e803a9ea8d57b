\* Two application threads over two regions: what the mutex still protects.
SPECIFICATION Spec
CONSTANTS
    Threads = {t1, t2}
    Regions = {A, B}
    Pages = {p, q}
    Words = {w}
    Values = {0, 1}
    Zero = 0
    None = None
    FirstPage = p
    PromptStart = TRUE
    RegisterOutcomes = {"watched"}
    Accesses <- LoadAllStoreFirst
SYMMETRY RegionThreadSymmetry
INVARIANTS
    FetchedPageIsCurrent
CHECK_DEADLOCK FALSE
