SPECIFICATION Spec
CONSTANTS
  Rounds = 3
  Inputs <- MCInputs
INVARIANTS
  KeyTravelsWithBlock
  HalvesOfBlock
  DoneDeliversEncryption
  OutputDeciphers
  ComplementsFollow
PROPERTY EngineSpec
