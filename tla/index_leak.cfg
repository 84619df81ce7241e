SPECIFICATION LooseSpec
CONSTANTS
  UnitsPerCap = 2
  MemSizes = {1, 3}
  MetaUnits = 1
  MgrUnits = 1
  MaxContinus = 3
  MaxChkNum = 3
INVARIANT Accounted
CHECK_DEADLOCK FALSE
