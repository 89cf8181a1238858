CONSTANTS
    V1 = V1
    V2 = V2
    V3 = V3
    U1 = U1
    E1 = E1
    V4 = V4
    LimitProposals = {}
    ValidatorLists = {}
    MaxWithdrawals = 2
    Accounts = {V1, V2, V3, U1}
    ValidatorAccounts = {V1, V2, V3}
    ValidatorsCount0 = 3
    Users = {U1}
    Amounts = {40}
    BridgeVoters = {}
    Deposits <- MCDeposits
    InitLimits <- MCLimits
    InitBalance <- MCInitBalance
    MaxBalance = 1023
    DAY = 2
    DAY_IN_BLOCKS = 14400
    MaxTime = 3
    UnknownHashes = {}
SPECIFICATION Spec
INVARIANT TypeOK VotesMatchRecorded
PROPERTY ClosedByQuorum BridgeRefinesDeposits
CONSTRAINT StateBound
SYMMETRY ValidatorSymmetry
