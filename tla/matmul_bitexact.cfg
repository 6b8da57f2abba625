CONSTANTS
  R = 2
  Bits <- MCBits
  FileGold <- MCFileGold
  PosZero = PosZero
  NegZero = NegZero
  NaN = NaN
  One = One
  None = None
  Garbled = Garbled
  MaxFaults = 1
  StorageFaults = FALSE

SPECIFICATION Spec


PROPERTY ReportsBitMismatches
