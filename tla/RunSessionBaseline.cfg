SPECIFICATION Spec
CONSTANTS
    Slices = 2
    MaxAttempts = 1
    FindingIds <- MCFindingIds
    AgentIds <- MCAgentIds
    SweepBack = TRUE
    MaxBranches = 1
    MaxCycles = 1
    MaxTotal = 3
    MaxAsides = 0
INVARIANT
    BaselineBeforeAgent
