SPECIFICATION Spec
CONSTANTS
  first = first
  second = second
  third = third
  Jobs <- MCJobs
  Links = {l1, l2}
  Workers = {w1, w2}
  MayDepend <- MCMayDepend
  EnableDependencies = 4
  Versions = 5
  None = None
INVARIANTS DependencyCount HandedOnce RunsAfterDependencies NoForgottenDependant
PROPERTIES ScheduledForGood KeepsOrder GraphCompletes
CHECK_DEADLOCK FALSE
