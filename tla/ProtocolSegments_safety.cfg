CONSTANTS
  c1 = c1
  c2 = c2
  c3 = c3
  Calls = {c1, c2, c3}
  AnswerCall = AnswerCall
  MaxSegments = 3
  MaxActions = 3
  MaxDrivers = 2
  MaxFaults = 1
SPECIFICATION Spec
SYMMETRY Symmetry
\* A run may stop: settled, or suspended with nobody left to resume it.
CHECK_DEADLOCK FALSE
INVARIANTS
  TypeOK
  SegmentChain
  StrictSegmentsEndResolved
  BudgetHolds
  RejectionsFailTheRun
  CompletedIsDecided
  CompletedIsDelivered
PROPERTIES
  ActionsSettleOnce
  EndedSegmentsStayEnded
