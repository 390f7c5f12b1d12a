SPECIFICATION SafeSpec
CONSTANTS
  BatchJobMaxSlices = 3
  InputSizes = {0, 1}
  AssignedWorkers = {1}
  Kinds = {"update", "inputOutput"}
  OldSize = 1
  OldItem = OldItem
INVARIANTS EmptyOutput NothingLeaks
CHECK_DEADLOCK FALSE
