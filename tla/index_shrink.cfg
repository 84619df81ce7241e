SPECIFICATION LooseSpec
CONSTANTS
  UnitsPerCap = 2
  MemSizes = {1, 3}
  MetaUnits = 1
  MgrUnits = 1
  MaxContinus = 3
  MaxChkNum = 3
INVARIANT GivenBackWhole
CHECK_DEADLOCK FALSE
