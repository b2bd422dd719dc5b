SPECIFICATION FairSpec
CONSTANTS
  once = once  skip = skip
  Jobs <- MCOneJob
  SkipJobs = {}
  Finite = {}
  MaxCrashes = 0
  DbMayFail = FALSE
PROPERTIES
  ResumedJobRuns
CHECK_DEADLOCK FALSE
