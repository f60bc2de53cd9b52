SPECIFICATION ListSpec
CONSTANTS
    MAX_ORDER = 2
    TotalPages = 5
    FirstPage = 1
    Callers = {c1}
    Preemptible = {}
    Areas = {"a"}
    MaxListed = 2
INVARIANTS
    FreesAllocated
