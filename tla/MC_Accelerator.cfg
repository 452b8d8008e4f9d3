SPECIFICATION AcceleratorSpec
CONSTANTS
  KeyHalves <- SomeHalves
  Rounds = 16
  WrapperRounds = 2
  WriteData <- MCWriteData
INVARIANTS
  StreamIsRight
  TestbenchVector
  QuietOperandsGiveResult
  BoxesMeetCriteria
  PermutationsFit
  ScheduleFollowed
PROPERTY SixteenRounds
