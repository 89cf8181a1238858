CONSTANTS
    V1 = V1
    V2 = V2
    V3 = V3
    U1 = U1
    E1 = E1
    V4 = V4
    LimitProposals = {}
    ValidatorLists = {}
    MaxWithdrawals = 1
    Accounts = {V1, V2, V3, U1}
    ValidatorAccounts <- ChainSpecValidators
    ValidatorsCount0 = 3
    Users = {U1}
    Amounts = {40}
    BridgeVoters = {V1, V2, V3}
    Deposits <- NoDeposits
    InitLimits <- ChainSpecLimits
    InitBalance <- MCInitBalance
    MaxBalance = 1023
    DAY = 2
    DAY_IN_BLOCKS = 14400
    MaxTime = 1
    H0 = H0
    UnknownHashes = {H0}
SPECIFICATION Spec
PROPERTY NoSupplyChangeWhilePaused
CONSTRAINT StateBound
SYMMETRY ValidatorSymmetry
