SPECIFICATION Spec
CONSTANTS
  chat = chat
  job = job
  agent = agent
  Runs <- MCRuns
  Agents <- MCAgents
  AgentOf <- MCAgentOf
  Planning = TRUE
  ReflectionInterval = 1
  MaxIterations = 2
  HasFallback = TRUE
  MaxTokensPerRun = 1
  MaxCostPerRun = 1
  MaxCostPerDay = 2
  MaxCallTokens = 1
  MaxToolCalls = 1
  DbMayFail = FALSE
INVARIANTS
  BudgetsHold
  CancelledStopsSoon
  LeakOnlyByDrop
SYMMETRY MCSymmetry
CHECK_DEADLOCK FALSE
