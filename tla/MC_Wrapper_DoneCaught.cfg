SPECIFICATION Spec
CONSTANTS
  Rounds = 1
  WriteData <- MCWriteData
PROPERTY DonePulseIsCaught
