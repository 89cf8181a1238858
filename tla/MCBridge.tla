------------------------------ MODULE MCBridge ------------------------------
(* Bridge with the genesis of the pallet's tests (bridge.rs ExtBuilder):   *)
(* validators V1..V3, ValidatorsCount 3, limits 100/200/50/400/1.  User U1 *)
(* holds 100 tokens (the 75% rule then allows withdrawals up to 75).       *)
EXTENDS Bridge

CONSTANTS V1, V2, V3, V4, U1, E1,
          MaxWithdrawals \* bound on the set_transfer messages explored

MCDeposits == {[id |-> E1, to |-> U1, amount |-> 40]}
NoDeposits == {}
\* two contents validators may submit for the one deposit E1
MCDepositsConflict == {[id |-> E1, to |-> U1, amount |-> 40], [id |-> E1, to |-> U1, amount |-> 20]}
\* the limits of the tests' GenesisConfig (ExtBuilder::build)
MCLimits == [max_tx_value |-> 100, day_max_limit |-> 200,
             day_max_limit_for_one_address |-> 50, max_pending_tx_limit |-> 400,
             min_tx_value |-> 1]
\* the limits of change_limits_should_work
MCLimitsTest == [max_tx_value |-> 10, day_max_limit |-> 20,
                 day_max_limit_for_one_address |-> 5, max_pending_tx_limit |-> 40,
                 min_tx_value |-> 1]
MCLimitProposals == {MCLimits, MCLimitsTest}
\* the list of update_validator_list_should_work
MCAddV4 == [id |-> 1, quorum |-> 3, accounts |-> <<V1, V2, V3, V4>>]
AddV4Only == {MCAddV4}
LimitsTestOnly == {MCLimitsTest}
\* the bridge genesis of the chain spec (testnet_genesis): three validators
\* and limits 100/200/50/400/10 (in units of 10^18)
ChainSpecValidators == {V1, V2, V3}
ChainSpecLimits == [max_tx_value |-> 100, day_max_limit |-> 200,
                    day_max_limit_for_one_address |-> 50, max_pending_tx_limit |-> 400,
                    min_tx_value |-> 10]
MCInitBalance == [a \in Accounts |-> IF a = U1 THEN 100 ELSE 0]

StateBound == Cardinality(DOMAIN messages \cap WithdrawIds) <= MaxWithdrawals

\* the validators are interchangeable: same genesis role, same inputs
ValidatorSymmetry == Permutations({V1, V2, V3})
=============================================================================
