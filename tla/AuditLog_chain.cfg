SPECIFICATION LogSpec
CONSTANTS
  Writers = {"chat", "job"}
  MaxEvents = 3
  DbMayFail = FALSE
  MayAlter = FALSE
INVARIANTS
  ChainIntact
