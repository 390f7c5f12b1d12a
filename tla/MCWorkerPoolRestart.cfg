SPECIFICATION Spec
CONSTANTS
  MaxWorkers = 2
  MaxWorkerTargets = 2
  QueueIndices = 2
  Users = {u1}
  MaxThreads = 2
  q1 = q1
  q2 = q2
  waiter = waiter
  leaf = leaf
  other = other
  Queues = {q1, q2}
  assignments <- MCAssignments
  Jobs <- MCJobs
  target <- MCTarget
  dependencies <- MCDependencies
  awaits <- MCAwaits
  consumeFrom <- MCConsumeFrom
  Patient = TRUE
  None = None
PROPERTIES ReplacedWorkersWork
CHECK_DEADLOCK FALSE
