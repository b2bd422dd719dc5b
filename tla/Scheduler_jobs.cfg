SPECIFICATION FairSpec
CONSTANTS
  once = once  skip = skip
  Jobs <- MCJobs
  SkipJobs <- MCSkip
  Finite <- MCJobs
  MaxCrashes = 2
  DbMayFail = TRUE
INVARIANTS
  NoOverlap
  InterruptedRunsFirst
PROPERTIES
  DeletedTimerEnds
CHECK_DEADLOCK FALSE
