CONSTANTS
  Size = 2
  BlockSize = 1
  W = 2
  Amb = 1
  SimTime = 2
  Half = 2
  TempFile <- MCTempFile
  PowerFile <- MCPowerFile
  GoldFile <- MCGoldFile
  MaxFaults = 1
  StorageFaults = TRUE
  None = None
  Garbled = Garbled
SPECIFICATION Spec
INVARIANT TypeOK
PROPERTY ReportsLowWord
