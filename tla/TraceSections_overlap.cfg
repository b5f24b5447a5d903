CONSTANTS
  k1 = k1
  k2 = k2
  PhaseKeys = {k1, k2}
  MaxCoordinators = 2
  MaxEvents = 11
  MaxCrashes = 0
  StepsPerCheck = 3
  ChunkSteps = 3
  SectionSteps = 16
SPECIFICATION Spec
\* The agent may stop emitting events, and a run ends.
CHECK_DEADLOCK FALSE
INVARIANTS
  TerminalRunCompletes
