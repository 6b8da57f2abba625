CONSTANTS
  M = 2
  Bits <- MCBits
  InputChunk <- MCInput
  GenRe <- MCGenRe
  GenIm <- MCGenIm
  Zero = Zero
  A = A
  B = B
  None = None
  Garbled = Garbled
  MaxFaults = 1
  StorageFaults = TRUE

SPECIFICATION Spec

INVARIANT TypeOK
PROPERTY ReportsBitMismatches
