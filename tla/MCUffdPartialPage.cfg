\* A store to one word of a page that was stored to before.
SPECIFICATION Spec
CONSTANTS
    Threads = {t1}
    Regions = {A}
    Pages = {p, q}
    Words = {w, v}
    Values = {0, 1}
    Zero = 0
    None = None
    FirstPage = p
    PromptStart = TRUE
    RegisterOutcomes = {"watched"}
    Accesses <- StoreFirstLoadRest
INVARIANTS
    ServerBehindByOne
