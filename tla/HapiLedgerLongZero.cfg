SPECIFICATION Spec
CONSTANTS
    k1 = k1
    k2 = k2
    TREASURY = 1
    FEE_COLLECTOR = 2
    FIRST_USER_ID = 3
    Users = {3}
    UserBalance = 3
    TOTAL_SUPPLY = 9
    HAPI_FEE = 1
    Keys <- MCKeys
    NoKey = NoKey
    GenesisKey <- MCGenesisKey
    GenesisAlias <- MCGenesisAlias
    VerifySignatures = TRUE
    Aliases <- MCAliases
    NoAlias = NoAlias
    Starts = {0}
    InitialBalances = {2}
    TransferLists <- MCTransferLists
    Messages <- MCMessages
    EmptyMessage = ""
    MaxId = 5
    MaxRecords = 3
VIEW MCView
CHECK_DEADLOCK FALSE
INVARIANTS
    AddressesResolve
