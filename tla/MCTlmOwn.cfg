SPECIFICATION SafeSpec
CONSTANTS
  Threads = {t1, t2, t3}
  Objects = {o1, o2, o3}
  Programs = {"own"}
  None = None
SYMMETRY Interchangeable
INVARIANTS OwnValue
CHECK_DEADLOCK FALSE
