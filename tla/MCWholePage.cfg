\* One thread, whole-page programs over two regions of two pages of two words.
SPECIFICATION WPSpec
CONSTANTS
    Threads = {t1}
    Regions = {A, B}
    Pages = {p, q}
    Words = {w, v}
    Values = {0, 1}
    Zero = 0
    None = None
    PromptStart = TRUE
    RegisterOutcomes = {"watched", "plain"}
    Accesses <- LoadsAndMarks
SYMMETRY Symmetry
INVARIANTS
    LoadsSeeStores
    ServerBehindByOne
PROPERTY
    IsMemory
