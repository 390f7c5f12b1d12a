SPECIFICATION BufferedSpec
CONSTANTS
  Threads = {t1, t2}
  CapacityBits = 3
  TlCacheSize = 1
  StoreBuffers = TRUE
  MaxSections = 6
  None = None
INVARIANTS Guarded
CHECK_DEADLOCK FALSE
