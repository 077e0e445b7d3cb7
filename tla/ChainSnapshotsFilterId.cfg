SPECIFICATION Spec
CONSTANTS
    t1 = t1
    TxIds <- MCTxIds
    MaxAhead = 1
    Tos = {1, 2}
    MaxMined = 2
    MaxSnapshots = 2
    MaxFilters = 1
    MaxFilings = 2
INVARIANTS
    DroppedFiltersStayGone
