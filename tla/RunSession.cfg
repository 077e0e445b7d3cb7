SPECIFICATION Spec
CONSTANTS
    Slices = 2
    MaxAttempts = 2
    FindingIds <- MCFindingIds
    AgentIds <- MCAgentIds
    SweepBack = TRUE
    MaxBranches = 1
    MaxCycles = 2
    MaxTotal = 3
    MaxAsides = 1
VIEW MCView
INVARIANTS
    TypeOK
    CheckpointsAreAttempts
    SessionIsTrue
PROPERTIES
    KeyFileGoes
