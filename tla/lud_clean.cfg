CONSTANTS
  N = 2
  Bits <- MCBits
  Split <- MCSplit
  InputFile <- MCIdentity
  GoldFile <- MCIdentity
  Garbage <- MCGarbage
  LudOf <- MCLudOf
  PosZero = PosZero
  NegZero = NegZero
  NaN = NaN
  One = One
  None = None
  Garbled = Garbled
  MaxFaults = 0

SPECIFICATION Spec

INVARIANT FaultFreeIterationClean
