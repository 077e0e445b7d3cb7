SPECIFICATION Spec
CONSTANTS
  FEE_COLLECTOR = 98
  FEE = 3
  WEIBAR_PER_TINYBAR = 10
  Sends <- MCSends
  Bodies <- MCBodies
  Starts = {2, 3}
  TRANSACTION_TYPES = {"ETHEREUMTRANSACTION", "CONSENSUSSUBMITMESSAGE"}
  Queries <- MCQueries
  MAX_LIMIT = 100
  MAX_STAMP = 5
  MAX_TXS = 3
INVARIANTS TypeOK ListedOnce PagesMissNothing
