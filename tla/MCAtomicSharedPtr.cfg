SPECIFICATION SafeSpec
CONSTANTS
  Threads = {t1, t2}
  Objects = {o1, o2}
  Versions = 4
  DefaultLocalRefs = 3
  LocalRefFillBoundary = 2
  MaxInstalls = 3
  Null = Null
SYMMETRY Interchangeable
INVARIANTS UseCountExact ReferenceLeft
PROPERTIES KeepsObjects
CHECK_DEADLOCK FALSE
