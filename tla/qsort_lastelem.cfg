SPECIFICATION Spec
CONSTANTS
  N = 3
  MaxThresh = 1
  Vals <- MCVals
  MaxFaults = 1
  StorageFaults = FALSE
  BootFaults = FALSE
  None = None
INVARIANTS
  CountsEveryElement
