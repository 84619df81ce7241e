SPECIFICATION Spec
CONSTANTS
  Threads = {t1, t2}
  NoThread = NoThread
  Images <- SomeImages
  WordSize = 64
INVARIANTS
  UsedMem
  FreedAsHeld
PROPERTIES
  ModeStays
