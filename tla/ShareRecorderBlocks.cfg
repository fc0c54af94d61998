SPECIFICATION Spec
CONSTANTS
  BufferSize = 2
  Retries = 1
  Allowed = 2
  ImportSize = 2
  Found <- BlockShares
  MaxShares = 2
  MaxFaults = 1
  MaxImports = 1
INVARIANT
  BlockRowsUnique
