SPECIFICATION Spec

CONSTANTS
  InitialSize <- MCInitialSize
  Limit = 2
  MaxId = 3
  MaxSize = 3
  MaxFaults = 2

INVARIANTS
  TypeOK
  DoubledByFaults

PROPERTIES
  LossesExplained
  ListedIsResumable
  LostForGood

CHECK_DEADLOCK FALSE
