SPECIFICATION FairSpec
CONSTANTS
  g1 = g1  g2 = g2  u1 = u1  n1 = n1  dash = dash  cli = cli
  Calls <- MCTwoCalls
  Gated <- MCTwoCalls
  Permitted <- MCTwoCalls
  Deciders <- MCDeciders
  External <- MCExternal
  Timeout = 2
  DbMayFail = FALSE
PROPERTIES
  WaitEnds
  PendingSettles
