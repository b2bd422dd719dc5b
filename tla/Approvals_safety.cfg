SPECIFICATION Spec
CONSTANTS
  g1 = g1  g2 = g2  u1 = u1  n1 = n1  dash = dash  cli = cli
  Calls <- MCCalls
  Gated <- MCGated
  Permitted <- MCPermitted
  Deciders <- MCDeciders
  External <- MCExternal
  Timeout = 1
  DbMayFail = TRUE
INVARIANTS
  GatedRunsOnlyApproved
  OneDecisionAcknowledged
  AnswerAgreesWithRow
PROPERTIES
  GateSpec
