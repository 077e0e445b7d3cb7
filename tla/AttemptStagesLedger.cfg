SPECIFICATION CommandSpec
CONSTANTS
  Setups     <- MCSetups
  Workspaces <- MCWorkspaces
  Tools      <- MCTools
  Replies    <- MCReplies
  Txs        <- MCTxs
  MAX_TXS    = 2
INVARIANT RepairLedgerIsComplete
