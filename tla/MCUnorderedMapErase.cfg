SPECIFICATION Spec
CONSTANTS
  Threads = {t1, t2}
  Hashes = {8, 16}
  InitialBuckets = 2
  ReservedBuckets = 4
  EraseSettled = FALSE
VIEW HeldArrays
PROPERTIES KeepsTable
