SPECIFICATION Spec
CONSTANTS
  UnitsPerCap = 128
  MemSizes = {1, 2, 4, 8, 12, 16}
  MetaUnits = 2
  MgrUnits = 3
  MaxContinus = 511
  MaxChkNum = 2
  Presets <- WidestPresets
  Regions <- FreeRegions
  MaxCalls = 2
PROPERTIES
  AlwaysEnds
CHECK_DEADLOCK FALSE
