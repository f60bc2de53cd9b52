SPECIFICATION MCSpec
CONSTANTS
    r1 = r1  w1 = w1  w2 = w2  w3 = w3  u1 = u1  u2 = u2  h1 = h1  h2 = h2
    Readers = {r1}  Writers = {w1, w2, w3}  Threads = {r1, w1, w2, w3}
    Queues = {"sleepers", "tq"}  NoBuf = NoBuf  MaxLen = 2
    Users = {u1, u2}  Null = Null  MAX_COUNT = 2  MaxSize = 2  MaxBytes = 3  OPT_SYSRQ_DEBUG = TRUE
    KEYBOARD_BUFSIZE = 4  Preemptible = FALSE
    VGA_LINES = 3  VGA_COLUMNS = 2  Chars = {"a", "b"}  Newline = "newline"  Blank = "blank"  MaxPrinted = 7
    open = open  other = other  Funcs = {open, other}  PROFBUF_MAX = 2  profiler_triggers <- Triggers  MaxCalls = 4  Flows = {"thread", "handler"}
    HALF = 2  LINES = 3  Handlers = {h1, h2}  MaxRaises = 2  MaxRegs = 3
    QThreads = {"k1", "k2", "k3", "k4"}  QHeads = {"run", "sleep"}
INVARIANTS
    PipeSound SerialSound KeysSound ScreenIsWindow EachEventOnce NoneUnhandled MasksFollowTable
PROPERTIES
    MutexProgress WriteReturns RequestServed QueuesSound
