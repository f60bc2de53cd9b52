SPECIFICATION MCSpec
CONSTANTS
    p1 = p1  p2 = p2  c1 = c1  f1 = f1  u1 = u1  u2 = u2
    BITS_PER_LONG = 4  LONG_SIZE = 1  PAGE_SIZE = 12  obj_size = 2
    Pages = {p1, p2}  Callers = {c1}  Preemptible = {}
    NPOOLS = 4  GALLOC_MIN_CHUNK = 4  CI_SIZE = 4  GPAGE = 64  MaxChunks = 2
    GSizes = {0, 1, 4, 5, 8, 9, 16, 17, 32, 33, 64, 60, 61, 65, 124, 125, 200}
    Procs = {u1, u2}  PAGE = 2  USERMEM_START = 0  USERMEM_STACK = 12  USERMEM_STACKLIM = 6  USERMEM_HEAPLIM = 5
    NPages = 10  Text = 1  Data = 2  MaxAreas = 8  Increments = {2}  Accesses <- MCAccesses
    Threads = {f1}  FS_MAX_FDS = 1  Archive <- MCArchive  Paths <- MCPaths  PipeNames = {"p"}
    MaxInodes = 8  MaxFiles = 3
    FPAGE = 3  Junk = Junk  MaxFileSize = 8
    Dirs = {"root", "virt", "proc", "devices", "file"}  Names = {"a", "b"}  Devs = {"d1", "d2"}
    MaxEntries = 2  SLOTS = 3
    t1 = t1  t2 = t2  t3 = t3  msg1 = msg1  msg2 = msg2
    Tasks = {t1, t2, t3}  Msgs = {msg1, msg2}  Slots = 2  None = None
    Sleepers = {t1, t2, t3}  Delays = {1, 2, 3, 4}  MaxAge = 12  PoolFails = TRUE
    Parts = {"slice", "galloc", "areas", "files", "pages", "dirs", "messages", "timers"}
INVARIANTS
    SlicesSound ChunkFits MapsAreas ForkPrivate FaultsServed FilesCounted FdLeadsToFile BytesOfFile
    MailSound AlarmsTimely
PROPERTIES
    Listings NeverEarly
