SPECIFICATION Spec
CONSTANTS
  BatchJobMaxSlices = 3
  InputSizes = {0, 2, 5}
  AssignedWorkers = {2}
  Kinds = {"input", "inputOutput", "update"}
  OldSize = 1
  OldItem = OldItem
INVARIANTS SlicesFit DisjointAccess OutlivesItsJobs FinalOutput
PROPERTIES Finishes
CHECK_DEADLOCK FALSE
