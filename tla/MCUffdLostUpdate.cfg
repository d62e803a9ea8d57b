\* A store to a page that a load brought in.
SPECIFICATION Spec
CONSTANTS
    Threads = {t1}
    Regions = {A}
    Pages = {p, q}
    Words = {w}
    Values = {0, 1}
    Zero = 0
    None = None
    FirstPage = p
    PromptStart = TRUE
    RegisterOutcomes = {"watched"}
    Accesses <- AnyAccess
INVARIANTS
    LoadsSeeStores
