SPECIFICATION LooseSpec
CONSTANTS
  UnitsPerCap = 4
  MemSizes = {1, 2}
  MetaUnits = 1
  MgrUnits = 1
  MaxContinus = 5
  MaxChkNum = 2
  FreeSizes <- SmallFreeSizes
  AllocType = "MAX"
  Requests = {12}
INVARIANT UsedIsLive
CHECK_DEADLOCK FALSE
