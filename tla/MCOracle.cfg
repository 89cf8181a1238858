CONSTANTS
    DAI = DAI
    USDT = USDT
    USDC = USDC
    CDAI = CDAI
    Symbols <- MCSymbols
    Recorded <- MCRecorded
    FETCHED_CRYPTOS <- MCFetched
    Prices = {1, 2}
    TOKENS_TO_KEEP = 2
    Period = 10
    MaxBalance = 7
    MaxRecords = 3
SPECIFICATION Spec
PROPERTY OracleRefinesAbstract PricesEventuallyAggregated
