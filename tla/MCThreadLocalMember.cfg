SPECIFICATION Spec
CONSTANTS
  Threads = {t1, t2}
  Objects = {o1, o2}
  Programs = {"serial", "own"}
  None = None
INVARIANTS OwnValue
PROPERTIES CallsReturn
CHECK_DEADLOCK FALSE
