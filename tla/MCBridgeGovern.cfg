CONSTANTS
    V1 = V1
    V2 = V2
    V3 = V3
    U1 = U1
    E1 = E1
    V4 = V4
    LimitProposals <- LimitsTestOnly
    ValidatorLists <- AddV4Only
    MaxWithdrawals = 0
    Accounts = {V1, V2, V3, V4, U1}
    ValidatorAccounts = {V1, V2, V3}
    ValidatorsCount0 = 3
    Users = {}
    Amounts = {40}
    BridgeVoters = {V1, V2}
    Deposits <- NoDeposits
    InitLimits <- MCLimits
    InitBalance <- MCInitBalance
    MaxBalance = 1023
    DAY = 2
    DAY_IN_BLOCKS = 14400
    MaxTime = 0
    UnknownHashes = {}
SPECIFICATION Spec
PROPERTY ClosedByQuorum
CONSTRAINT StateBound
