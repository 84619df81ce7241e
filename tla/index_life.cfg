SPECIFICATION Spec
CONSTANTS
  UnitsPerCap = 2
  MemSizes = {1, 3}
  MetaUnits = 1
  MgrUnits = 1
  MaxContinus = 3
  MaxChkNum = 3
INVARIANTS
  TypeOK
  GivenBackWhole
  Accounted
  AddrFits
  LayoutKnown
  TotalIsSum
  AddrFindsChk
PROPERTIES
  KeepsContents
