SPECIFICATION Spec
CONSTANTS
    MAX_ORDER = 3
    TotalPages = 16
    FirstPage = 7
    Callers = {c1}
    Preemptible = {}
    Areas = {"a"}
    MaxListed = 1
INVARIANTS
    Partition FailsOnlyWhenFull AllocInv
