SPECIFICATION Spec
CONSTANTS
  Files     <- MCFiles
  MAX_EDITS = 2
  WALL      = 3
  IDLE      = 2
  LIMIT     = 1
  GRACE     = 1
  Traits    <- MCLingering
  Plans     <- MCCommands
PROPERTY
  LimitIsKept
