CONSTANTS
  Size = 4
  BlockSize = 2
  W = 2
  Amb = 1
  SimTime = 2
  Half = 8
  TempFile <- MCTempFile
  PowerFile <- MCPowerFile
  GoldFile <- MCGoldFile
  MaxFaults = 0
  StorageFaults = FALSE
  None = None
  Garbled = Garbled
SPECIFICATION Spec
PROPERTY Deterministic
