SPECIFICATION Spec
CONSTANTS
  Threads = {t1, t2}
  Objects = {o1}
  Versions = 4
  DefaultLocalRefs = 3
  LocalRefFillBoundary = 2
  MaxInstalls = 2
  Null = Null
PROPERTIES Reclaimed WordRefills
CHECK_DEADLOCK FALSE
