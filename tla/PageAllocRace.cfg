SPECIFICATION Spec
CONSTANTS
    MAX_ORDER = 3
    TotalPages = 4
    FirstPage = 1
    Callers = {c1, c2}
    Preemptible = {c1, c2}
    Areas = {"a"}
    MaxListed = 0
INVARIANTS
    LevelsSound
