SPECIFICATION FairSpec
CONSTANTS
    GOD = GOD
    RQ = RQ
    Threads = {GOD, k1, u1, u2}
    KernelThreads = {GOD, k1}
    Queues = {"q1"}
    SCHED_MAX_QUANTUM = 3
    IrqBurst = 1
INVARIANTS
    SchedInv
PROPERTIES
    OnlyItselfSleeps NoStarvation
