------------------------------ MODULE MCOracle ------------------------------
(* Oracle instantiated with the four symbols of FETCHED_CRYPTOS, prices    *)
(* recorded for two of them.                                             *)
EXTENDS Oracle

CONSTANTS DAI, USDT, USDC, CDAI

\* FETCHED_CRYPTOS: DAI, USDT, USDC and cDAI, in this order
MCFetched == <<DAI, USDT, USDC, CDAI>>
MCSymbols == ToSet(MCFetched)
MCRecorded == {DAI, USDT}

=============================================================================
