CONSTANTS WordChars <- MCWordChars  Units <- MCUnits  MaxWord = 4  MaxPattern = 3
CONSTANTS NumChars <- MCNumChars  MaxNum = 4  UMAX = 127  DECIMALS = 1
CONSTANTS ModeBits = {"RUSR", "XUSR", "SUID", "WGRP", "XGRP", "SGID", "ROTH", "XOTH", "SVTX"}
CONSTANTS RankBits <- MCRanks  PtrBits = 8  SLACK = 12  Flags <- MCFlags  Widths <- MCWidths  Precs <- MCPrecs
CONSTANTS Mods <- MCMods  Convs <- MCConvs  Ints <- MCInts  MaxFlags = 2  FormatRooms = {0, 1, 5}
CONSTANTS HEADER = 2  CHUNK = 8  SBRK_ALIGN = 4  HEAPLIM = 56  SIZE_MAX1 = 32  Limits0 = {0, 4}  Sizes = {0, 1, 9}  MaxLive = 2
CONSTANTS Words <- MCArgs  MaxArgs = 3  OptStrings <- MCOptStrings  LongOpts <- MCLongOpts
CONSTANTS File <- MCFile  Texts <- MCTexts  BUFFER_SIZE = 3  Counts = {1, 2, 3}  ENOENT = 2  MaxWrites = 2
CONSTANTS Names <- MCNames  Values <- MCValues  Puts <- MCPuts  MORE = 1  MaxVars = 3
CONSTANTS Handlers = {"h1", "reg", "again"}  Registers = {"reg"}  Exits = {"again"}  NFD = 4  Paths <- MCPaths
CONSTANTS ExecName <- MCProgram  PATH_MAX = 6  MaxList = 4  MaxDepth = 2
CONSTANTS COUNTBITS = 10  HashPieces = {1, 8, 54, 130}  MaxMessage = 200
CONSTANTS Octets = {0, 9, 10, 255}  START_PORT = 3  END_PORT = 6  Pid = 5  MaxCalls = 3  LIMB = 2
CONSTANTS H = 4  Wide = {0, 1, 2, 3, 5, 7, 8, 15, 16, 17, 100, 127, 128, 129, 200, 254, 255}
CONSTANTS Options <- MCOptions  UserLines <- MCUserLines  MaxLines = 3
CONSTANTS Streams = {"y", "z"}  NBlocks = 11  Fresh <- MCFresh
SPECIFICATION MCSpec
INVARIANTS
    TextRight HeapSound ArithmeticRight KonfigSound ZallocSound
PROPERTIES
    ProgramSound LoopsEnd
CHECK_DEADLOCK FALSE
