CONSTANTS
  B1d = 3
  ParPerBox = 100
  N = 2
  Bits <- MCBits
  Split <- MCSplit
  FileGold <- MCFileGold
  Garbage <- MCGarbage
  PosZero = PosZero
  NegZero = NegZero
  NaN = NaN
  One = One
  None = None
  Garbled = Garbled
  MaxFaults = 1
  StorageFaults = TRUE
SPECIFICATION Spec
INVARIANT TypeOK
INVARIANT NeighboursExact
PROPERTY ReportsVMismatches
