SPECIFICATION SSpec
CONSTANTS
  Rounds = 2
  WriteData = {{}, {0, 7, 29}}
INVARIANTS
  OneOperationAtATime
  DoneMeansResult
PROPERTIES
  RunEnds
  ServiceSpec
