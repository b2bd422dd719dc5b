SPECIFICATION Spec
CONSTANTS
  scribe = scribe  nobody = nobody  fact = fact  trifle = trifle
  m1 = m1  m2 = m2
  Facts = {fact, trifle}
  Substantial = {fact}
  Agents = {scribe}
  Dashboard = nobody
  NewMemories <- MCNewMemories
  MemCalls = {m1, m2}
  TopK = 1
  MaxMemories = 2
  MaxMonths = 1
  Starters = {1, 2}
  Statements = 3
  MaxStarts = 4
  MayFail = TRUE
  Updaters = {1, 2}
  MaxNotes = 4
  Turns = {1, 2, 3}
  Lengths = {4}
  HistoryLimit = 3
  HistoryTokens = 2
  StoreMayFail = TRUE
  AgentIds = {1, 2}
  DefaultAgent = 1
  Presets = {1}
  Models = {"sonnet", "gpt"}
  FirstModel = "sonnet"
  AdminCalls = {1, 2}
  MaxVersion = 2
  MaxBoots = 1
  SkillIds = {"notes", "pdf"}
  Builtin = {"pdf"}
  Daemons = {"daemon"}
  Commands = {"install", "uninstall"}
  MaxSkillRuns = 3
  Writers = {1, 2}
  MaxEvents = 3
  DbMayFail = TRUE
  MayAlter = TRUE
  Spenders = {"chat", "job"}
  CostModels = {"sonnet", "local"}
  Priced = {"sonnet"}
  Periods = {"today", "all"}
  PerDay = 2
  DayBudget = 2
  MaxRecords = 2
  MaxClock = 4
SYMMETRY MCSymmetry
INVARIANTS
  MemoryPromises
  StartsComplete
  NotesLostOnlyByOverlap
  AnswersFollowQuestions
  AnswersAreTrue
  InstalledIsWhole
  VerifiedRowsWereLogged
  CostsAgree
CHECK_DEADLOCK FALSE
