\* The unit tests of bridge.rs, each from the ExtBuilder genesis
CONSTANTS
    V1 = V1  V2 = V2  V3 = V3  V4 = V4
    USER1 = USER1  USER2 = USER2  USER3 = USER3  USER4 = USER4  USER5 = USER5
    USER6 = USER6  USER7 = USER7  USER8 = USER8  USER9 = USER9
    ETH_MESSAGE_ID = ETH_MESSAGE_ID  ETH_MESSAGE_ID1 = ETH_MESSAGE_ID1
    ETH_MESSAGE_ID2 = ETH_MESSAGE_ID2  ETH_MESSAGE_ID3 = ETH_MESSAGE_ID3
    ETH_MESSAGE_ID4 = ETH_MESSAGE_ID4  ETH_MESSAGE_ID5 = ETH_MESSAGE_ID5
    ETH_MESSAGE_ID6 = ETH_MESSAGE_ID6  ETH_MESSAGE_ID7 = ETH_MESSAGE_ID7
    ETH_MESSAGE_ID8 = ETH_MESSAGE_ID8
    Accounts <- TestAccounts
    ValidatorAccounts <- TestValidators
    ValidatorsCount0 = 3
    Users <- TestUserSet
    Amounts = {}
    Deposits = {}
    BridgeVoters = {}
    LimitProposals = {}
    ValidatorLists = {}
    InitLimits <- TestLimits
    InitBalance <- TestBalance
    MaxBalance <- TestMaxBalance
    DAY = 86400
    DAY_IN_BLOCKS = 14400
    MaxTime <- TestMaxTime
    UnknownHashes = {}
INIT TestInit
NEXT TestStep
INVARIANT TestsPass
\* every test is a finite script that stops after its last step
CHECK_DEADLOCK FALSE
