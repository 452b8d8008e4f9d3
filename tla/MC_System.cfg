SPECIFICATION SysSpec
CONSTANTS
  Rounds = 5
  WriteData <- MCWriteData
  Programs <- MCPrograms
  BootCycles = 1
  MaxResets = 2
INVARIANTS
  VerdictIsRight
  ResultIsOwn
PROPERTY Ends
