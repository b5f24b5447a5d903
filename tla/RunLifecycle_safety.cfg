CONSTANTS
  Runs = {r1, r2}
  Sessions = {s1, s2}
  Bodies = {b1}
  Requests = {q1, q2, q3}
  Calls = {c1}
  None = None
  MaxCrashes = 1
  MaxExtra = 0
  ReclaimLimit = 1
SPECIFICATION Spec
SYMMETRY Symmetry
INVARIANTS
  TypeOK
  HandleOwnership
  OneOwnerPerRun
  SuspendedIsAnswerable
  ExclusiveUnlessStolen
  WorkerRowIsRunning
PROPERTIES
  SettledChangesExplained
  ImplementsGovernance
CHECK_DEADLOCK FALSE
