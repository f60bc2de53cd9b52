SPECIFICATION SliceSpec
CONSTANTS
    BITS_PER_LONG = 4
    LONG_SIZE = 1
    PAGE_SIZE = 10
    obj_size = 1
    Pages = {p1, p2}
    Callers = {c1}
    Preemptible = {}
INVARIANTS
    CanRecycle
