SPECIFICATION KernelSpec
CONSTANTS
  ALT_NIRQ = 3
  Isrs = {"isr"}
  NestingCalls = FALSE
  Alarms = {"a", "b"}
  AlarmWrap = 6
  Nticks = {0, 1, 4}
  Periods = {0, 1, 5}
  StopsOthers = FALSE
  TimeWrap = 64
  ALT_US = 10
  Rates = {2, 5}
  Settings <- MCSettings
  MaxTicks = 16
  SleepWord = 1024
  FreqMHz = 50
  Cycles = 9
  Longest = 1000
  W = 3
  FrameSize = 3
  Immediates = {0, 3, 4, 7}
  Sources = {"r0", "r2", "r16"}
  Destinations = {"r0", "r2", "r16"}
  Emulated = {2}
  Odd = {3}
  ProgramLength = 4
  HandlerLength = 2
  MaxLines = 3
  Spurious = TRUE
  DataWords = 3
  DeviceWords = {2}
  FileWords = {3}
  BssWords = 2
  Ctors = 2
  ExitCodes = {0, 1}
  MaxResets = 2
CHECK_DEADLOCK FALSE
INVARIANTS
  AlarmsOnTime
  TimeIsKept
  InterruptsOrderly
  ExceptionsInOrder
  StartsAfresh
PROPERTIES
  FirstIsServed
  MatchesInstruction
