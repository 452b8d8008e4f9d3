CONSTANTS
  FIFO_DEPTH = 2
  THRESHOLD = 0
  BUF_LEN = 4
  INT_MAX = 5
  DEFAULT_TIMEOUT = 2
  Timeouts = {0}
  MaxSent = 3
  MaxWritten = 0
  MaxSpace = 1
SPECIFICATION Spec
CHECK_DEADLOCK FALSE
INVARIANTS
  MoreMeansFull
