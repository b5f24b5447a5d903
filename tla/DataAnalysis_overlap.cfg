CONSTANTS
  i1 = i1
  q1 = q1
  q2 = q2
  m1 = m1
  p1 = p1
  r1 = r1
  r2 = r2
  None = None
  Inspects = {i1}
  Queries = {q1, q2}
  Commits = {}
  Reports = {}
  Requirements = {r1}
  Valued = {r1}
  Parallel = 2
SPECIFICATION Spec
\* The agent stops when its run is decided.
CHECK_DEADLOCK FALSE
SYMMETRY Symmetry
INVARIANTS
  ViolatingSqlIsRejected
