SPECIFICATION Spec
CONSTANTS
  Threads = {t1, t2}
  CapacityBits = 2
  TlCacheSize = 1
  StoreBuffers = FALSE
  MaxSections = 3
  None = None
SYMMETRY Interchangeable
INVARIANTS Guarded ItemsKept
CHECK_DEADLOCK FALSE
