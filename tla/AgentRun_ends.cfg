SPECIFICATION FairSpec
CONSTANTS
  chat = chat
  job = job
  agent = agent
  Runs <- MCOneRun
  Agents <- MCAgents
  AgentOf <- MCOneAgentOf
  Planning = TRUE
  ReflectionInterval = 2
  MaxIterations = 3
  HasFallback = TRUE
  MaxTokensPerRun = 4
  MaxCostPerRun = 1
  MaxCostPerDay = 2
  MaxCallTokens = 2
  MaxToolCalls = 2
  DbMayFail = TRUE
PROPERTIES LifecycleSpec RunEnds
CHECK_DEADLOCK FALSE
