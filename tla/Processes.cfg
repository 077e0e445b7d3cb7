SPECIFICATION Spec
CONSTANTS
  Files     <- MCFiles
  MAX_EDITS = 3
  WALL      = 3
  IDLE      = 2
  LIMIT     = 1
  GRACE     = 1
  Traits    <- MCTraits
  Plans     <- MCPlans
INVARIANTS
  TypeOK
  NothingOutlivesTheRun
  LogNamesEveryChange
PROPERTIES
  StoppedForCause
  RunEnds
