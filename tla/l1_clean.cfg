SPECIFICATION Spec
CONSTANTS
  ArraySize = 3
  Bytes <- MCBytes
  MaxFaults = 0
  None = None
  Garbled = Garbled
PROPERTY ReportsFlippedBytes
