SPECIFICATION EvmSpec
CONSTANTS
    k1 = k1
    TREASURY = 1
    FEE_COLLECTOR = 2
    FIRST_USER_ID = 3
    Users = {3}
    UserBalance = 6
    TOTAL_SUPPLY = 9
    HAPI_FEE = 1
    Keys <- MCKeys
    NoKey = NoKey
    GenesisKey <- MCGenesisKey
    GenesisAlias <- MCGenesisAlias
    VerifySignatures = FALSE
    Aliases <- MCAliases
    NoAlias = NoAlias
    Starts = {0}
    InitialBalances = {}
    TransferLists <- MCTransferLists
    Messages = {}
    EmptyMessage = ""
    MaxId = 5
    MaxRecords = 1
    GAS_PRICE = 1
    Tips = {1}
    Senders <- MCSenders
    Targets <- MCTargets
    Values = {1}
    SystemContracts <- MCSystemContracts
    CheatBalances = {4}
    CheatNonces = {0}
    CheatTargets <- MCCheatTargets
    MaxNonce = 2
    MaxCheats = 1
VIEW MCView
CONSTRAINT MCExplored
CHECK_DEADLOCK FALSE
INVARIANTS
    EvmTypeOK
    EvmSupplyConserved
    EntitiesAreDistinct
PROPERTIES
    OnlyTheSenderActs
