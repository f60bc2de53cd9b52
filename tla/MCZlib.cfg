CONSTANTS w_bits = 9  w_size = 16  MAX_MATCH = 5  lit_bufsize = 32  TOO_FAR = 4
CONSTANTS Jobs <- MCJobs  Rooms = {2, 11, 1000}  FlushRoom = 10  Chunks = {1, 4, 9, 200}
CONSTANTS Spaces = {1, 6, 300}  MaxOuts = 5
CONSTANTS Z_BUFSIZE = 16  Z_PRINTF_BUFSIZE = 30  Scripts <- MCScripts  Faults = {0, 1, 2, 3, 4, 5, 6, 7, 9, 10}
CONSTANT Stops <- MCStops
CONSTANTS Lengths0 = {3, 40}  Places = {0, 7, 20}  MaxReads = 3  Sources <- MCSources
CONSTANTS Pieces0 <- MCPieces  MaxPieces = 3  MaxSymbols = 13
SPECIFICATION MCSpec
INVARIANTS
    WriterSound ReaderSound  PartsAgree
CHECK_DEADLOCK FALSE
