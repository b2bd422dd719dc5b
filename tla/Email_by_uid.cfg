SPECIFICATION EmailSpec
CONSTANTS
  EmailRuns = {"run"}
  ListLimit = 2
  MaxMails = 2
INVARIANTS
  ReadByUid
CHECK_DEADLOCK FALSE
