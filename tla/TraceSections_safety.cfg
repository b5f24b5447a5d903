CONSTANTS
  k1 = k1
  k2 = k2
  PhaseKeys = {k1, k2}
  MaxCoordinators = 2
  MaxEvents = 6
  MaxCrashes = 1
  StepsPerCheck = 2
  ChunkSteps = 1
  SectionSteps = 2
SPECIFICATION FairSpec
\* The agent may stop emitting events, and a run ends.
CHECK_DEADLOCK FALSE
INVARIANTS
  TypeOK
  EntriesAreServed
  SectionsTile
  OnlyLastIsOpen
  SectionsAreBounded
PROPERTIES
  TerminalCompletes
