SPECIFICATION SafeSpec
CONSTANTS
  Threads = {t1, t2}
  Objects = {o1, o2, o3}
  Programs = {"any"}
  None = None
SYMMETRY Interchangeable
INVARIANTS OwnValue
CHECK_DEADLOCK FALSE
