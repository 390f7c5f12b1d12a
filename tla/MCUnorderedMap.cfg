SPECIFICATION Spec
CONSTANTS
  Threads = {t1, t2}
  Hashes = {8, 16, 24}
  InitialBuckets = 2
  ReservedBuckets = 8
  EraseSettled = TRUE
SYMMETRY Interchangeable
VIEW HeldArrays
INVARIANTS SizeExact OldArraysFrozen
PROPERTIES KeepsTable
