SPECIFICATION Spec
CONSTANTS
  N = 7
  MaxThresh = 1
  Vals <- MCVals
  MaxFaults = 0
  StorageFaults = TRUE
  BootFaults = TRUE
  None = None
\* A board whose Initialize fails halts: that end state is not a deadlock.
CHECK_DEADLOCK FALSE
INVARIANTS
  TypeOK
  StackHoldsLarger
  SortsInput
  DependenciesFirst
  RunOnlyWhenReady
PROPERTIES
  SortTerminates
