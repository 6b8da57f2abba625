CONSTANTS
  R = 2
  Bits <- MCBits
  FileGold <- MCFileGold
  PosZero = PosZero
  NegZero = NegZero
  NaN = NaN
  One = One
  None = None
  Garbled = Garbled
  MaxFaults = 2
  StorageFaults = TRUE

SPECIFICATION Spec

INVARIANT TypeOK
INVARIANT SpuriousReportIffOneFileLost
PROPERTY ReportsValueMismatches
