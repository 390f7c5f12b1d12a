SPECIFICATION Spec
CONSTANTS
  Threads = {t1, t2}
  CapacityBits = 3
  TlCacheSize = 1
  StoreBuffers = FALSE
  MaxSections = 6
  None = None
INVARIANTS BlockGuarded
CHECK_DEADLOCK FALSE
