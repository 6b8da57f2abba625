CONSTANTS
  M = 2
  Bits <- MCBits
  InputChunk <- MCInput
  GenRe <- MCGenRe
  GenIm <- MCGenIm
  Zero = Zero
  A = A
  B = B
  None = None
  Garbled = Garbled
  MaxFaults = 0
  StorageFaults = FALSE

SPECIFICATION Spec

INVARIANT FaultFreeIterationClean
