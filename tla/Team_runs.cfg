SPECIFICATION FairSpec
CONSTANTS
  a = a  b = b  c = c
  Agents <- MCAgents
  N = 3
  MaxConcurrent = 2
INVARIANTS
  DependenciesFirst
  AtMostConcurrent
  NothingOutlivesResult
PROPERTIES
  TeamEnds
CHECK_DEADLOCK FALSE
