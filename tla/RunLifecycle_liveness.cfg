CONSTANTS
  Runs = {r1, r2}
  Sessions = {s1}
  Bodies = {b1}
  Requests = {q1, q2}
  Calls = {c1}
  None = None
  MaxCrashes = 1
  MaxExtra = 1
  ReclaimLimit = 1
SPECIFICATION FairSpec
INVARIANTS
  OutcomeIsLoggedOnce
PROPERTIES
  CancelSettles
CHECK_DEADLOCK FALSE
