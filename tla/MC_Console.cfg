CONSTANTS
  FIFO_DEPTH = 1
  THRESHOLD = 0
  BUF_LEN = 3
  INT_MAX = 5
  DEFAULT_TIMEOUT = 2
  Timeouts = {0}
  MaxSent = 4
  MaxWritten = 4
  MaxSpace = 2
  PolledDepth = 2
  PolledThreshold = 1
  Limit <- ConsoleLimit
SPECIFICATION ConsoleSpec
CHECK_DEADLOCK FALSE
INVARIANTS
  BytesInOrder
PROPERTIES
  LinkIsKept
  CallsComeBack
