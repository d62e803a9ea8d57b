\* One application thread, any program over two regions of two pages that it may also
\* unregister at any time; stores go to one page of each and write one value.  A program that
\* has given back all its regions may stop, and a data race ends the run.
SPECIFICATION FairRegionSpec
CONSTANTS
    Threads = {t1}
    Regions = {A, B}
    Pages = {p, q}
    Words = {w}
    Values = {0, 1}
    Zero = 0
    None = None
    FirstPage = p
    PromptStart = TRUE
    RegisterOutcomes = {"watched", "plain"}
    Accesses <- LoadAllStoreFirst
INVARIANTS
    TypeOK
    OneResident
    OwnFaults
    LeftOnlyIfOvertaken
PROPERTIES
    DroppedStoresAreSaved
    AccessesComplete
    UnregisterReturns
CHECK_DEADLOCK FALSE
