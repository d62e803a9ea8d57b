\* Two application threads fault in two regions at once.
SPECIFICATION Spec
CONSTANTS
    Threads = {t1, t2}
    Regions = {A, B}
    Pages = {p}
    Words = {w}
    Values = {0}
    Zero = 0
    None = None
    FirstPage = p
    PromptStart = TRUE
    RegisterOutcomes = {"watched"}
    Accesses <- AnyAccess
INVARIANTS
    OwnFaults
CHECK_DEADLOCK FALSE
