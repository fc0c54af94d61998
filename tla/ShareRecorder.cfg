SPECIFICATION FairSpec
CONSTANTS
  BufferSize = 2
  Retries = 1
  Allowed = 2
  ImportSize = 2
  Found <- BlockShares
  MaxShares = 4
  MaxFaults = 2
  MaxImports = 2
INVARIANTS
  TypeOK
  CountedOnce
  InOrder
  ImportSkipsNothing
PROPERTIES
  LossesAreLocal
  LeavesMemory
