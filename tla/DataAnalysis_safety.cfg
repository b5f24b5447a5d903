CONSTANTS
  i1 = i1
  q1 = q1
  q2 = q2
  m1 = m1
  p1 = p1
  r1 = r1
  r2 = r2
  None = None
  Inspects = {i1}
  Queries = {q1, q2}
  Commits = {m1}
  Reports = {p1}
  Requirements = {r1, r2}
  Valued = {r1}
  Parallel = 2
SPECIFICATION Spec
\* The agent stops when its run is decided.
CHECK_DEADLOCK FALSE
SYMMETRY Symmetry
INVARIANTS
  TypeOK
  EvidenceIsOwn
  ContractedSqlRuns
  ClaimsAreEvidenced
  ReportsFollowClaims
  CompletedIsBacked
PROPERTIES
  RequirementsAdvance
