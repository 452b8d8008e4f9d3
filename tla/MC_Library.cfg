SPECIFICATION LibrarySpec
CONSTANTS
  alt_heap_start = 5
  alt_heap_limit = 30
  Sizes = {0, 3, 4, 9}
  MaxBlocks = 4
  ALT_MAX_FD = 5
  Devices <- MCDevices
  Stdio <- MCStdio
  Names <- MCNames
  OpenModes = {"O_RDONLY", "O_RDWR"}
  OpenFlags = {"O_NONBLOCK"}
  Settable = {3}
  Characters = {"/", "a"}
  MaxEntry = 3
  MaxName = 4
  Nibbles = 2
  Alphabet = {"%", "0", "3", ".", "l", "d", "u", "o", "x", "c", "s", "a"}
  Numbers = {0, 127, 128, 255}
  MaxLen = 4
  Memory = 5
  LINE_SIZE = 2
  CACHE_SIZE = 4
  Functions = {1, 2}
  MaxCalls = 4
  INCREMENT = 8
  BYTES_PER_BUCKET = 4
  Records = {3, 4}
  TextSizes = {8, 10, 16}
  Rates = {0, 2, 3, 7}
  EchoLen = 3
  Divisor = 3
  Texts <- MCTexts
CHECK_DEADLOCK FALSE
INVARIANTS
  HeapIsSound
  PoolIsSound
  NamesAreExact
  PrintedIsMeant
  LogIsSound
  ProfileIsSound
  CachesAreCoherent
PROPERTIES
  LocksAndModesKept
