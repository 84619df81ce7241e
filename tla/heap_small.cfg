SPECIFICATION Spec
CONSTANTS
  UnitsPerCap = 4
  MemSizes = {1, 2}
  MetaUnits = 1
  MgrUnits = 1
  MaxContinus = 5
  MaxChkNum = 2
  FreeSizes <- SmallFreeSizes
  AllocType = "MAX"
  Requests = {8, 40}
INVARIANTS
  TypeOK
  InVirgin
  Separation
  Balanced
  UsedIsLive
  PoolWithinFree
PROPERTIES
  ChunksStay
  FreeUndoesAlloc
  KeepsPromise
