SPECIFICATION Spec
CONSTANTS
  Threads = {t1}
  Hashes = {4, 7, 15, 16, 32}
  InitialBuckets = 8
  ReservedBuckets = 32
  EraseSettled = TRUE
VIEW HeldArrays
PROPERTIES KeepsTable
