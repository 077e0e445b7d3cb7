SPECIFICATION CommandSpec
CONSTANTS
  Setups     <- MCSetups
  Workspaces <- MCWorkspaces
  Tools      <- MCTools
  Replies    <- MCReplies
  Txs        <- MCTxs
  MAX_TXS    = 2
INVARIANTS
  TypeOK
  PassIsEarned
  RepairIsFounded
  NothingLeftBehind
PROPERTIES
  StageEnds
