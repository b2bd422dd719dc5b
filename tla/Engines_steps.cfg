SPECIFICATION Spec
CONSTANTS
  r1 = r1  r2 = r2  a1 = a1  a2 = a2  a3 = a3
  Nodes = {"n1", "n2", "n3"}
  Dangling = {"d1"}
  MaxEdges = 3
  MaxRepeats = 1
  MailAgents = {a1, a2, a3}
  MailRuns = {r1, r2}
  MailMembers <- MCMembers
  MaxMail = 2
  ReadLimit = 1
  Answers <- MCAnswers
  MaxReceive = 3
  Primaries = {"anthropic", "claude-code", "openai", "ollama"}
  MaxRounds = 2
  MaxParallel = 2
  ReflectEvery = 2
  Visitors = {1, 2}
  MaxTabs = 3
  GatewayCalls = {1}
  MaxRetries = 2
  EmailRuns = {r1, r2}
  ListLimit = 1
  MaxMails = 2
INVARIANTS
  FollowsDefinition
  RegisteredForARun
  WholeStreamIsMeant
  CallsAreAnswered
  PageKept
  OverlapOnlyAfterTimeout
  EmailAccounted
PROPERTIES
  MailKeepsItsWord
CHECK_DEADLOCK FALSE
