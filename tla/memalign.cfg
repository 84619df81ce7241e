SPECIFICATION Spec
CONSTANTS
  Threads = {t1, t2}
  NoThread = NoThread
  ConfChunks = 8
  Kept = 5
  MaxHeld = 5
INVARIANTS
  TypeOK
  OneOwner
  Conserved
  MonitorExact
PROPERTIES
  LazyRefill
  KeepsOwners
  LockReleased
