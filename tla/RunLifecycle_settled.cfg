CONSTANTS
  Runs = {r1, r2}
  Sessions = {s1}
  Bodies = {b1}
  Requests = {q1, q2}
  Calls = {c1}
  None = None
  MaxCrashes = 0
  MaxExtra = 0
  ReclaimLimit = 2
SPECIFICATION Spec
PROPERTIES
  SettledIsFinal
CHECK_DEADLOCK FALSE
