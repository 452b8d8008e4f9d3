SPECIFICATION FirmwareSpec
CONSTANTS
  Rounds = 16
  WriteData <- FirmwareWriteData
  Programs <- Firmware
  BootCycles = 12
  MaxResets = 2
INVARIANT NeverFails
PROPERTY Passes
