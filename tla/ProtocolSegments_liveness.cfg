CONSTANTS
  c1 = c1
  c2 = c2
  Calls = {c1, c2}
  AnswerCall = AnswerCall
  MaxSegments = 2
  MaxActions = 2
  MaxDrivers = 2
  MaxFaults = 1
SPECIFICATION FairSpec
\* A run may stop: settled, or suspended with nobody left to resume it.
CHECK_DEADLOCK FALSE
PROPERTIES
  AdmittedActionsSettle
  CompletionSettles
