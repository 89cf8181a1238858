---------------------------- MODULE MCBridgeTests ----------------------------
(***************************************************************************)
(* The unit tests of runtime/src/bridge.rs (mod tests) replayed on the     *)
(* Bridge model.  A test is a script of calls on the genesis storage of    *)
(* ExtBuilder; each step names the dispatchable, its signed origin and     *)
(* argument, the outcome the test asserts (assert_ok!, assert_noop!, an    *)
(* assert_eq! against Err, or `let _ =`) and the assert_eq!s that follow   *)
(* it.  TLC runs every test from its own initial state.                   *)
(*                                                                         *)
(* Not replayed: total_supply (the token pallet keeps it, not modelled),   *)
(* and `transfers(1).open` of the burn tests, which reads a proposal that  *)
(* does not exist and so the Default of BridgeTransfer in types.rs.        *)
(***************************************************************************)
EXTENDS Bridge, SequencesExt

CONSTANTS V1, V2, V3, V4, USER1, USER2, USER3, USER4, USER5, USER6, USER7, USER8, USER9,
          ETH_MESSAGE_ID, ETH_MESSAGE_ID1, ETH_MESSAGE_ID2, ETH_MESSAGE_ID3, ETH_MESSAGE_ID4,
          ETH_MESSAGE_ID5, ETH_MESSAGE_ID6, ETH_MESSAGE_ID7, ETH_MESSAGE_ID8

VARIABLES
    test,    \* the test being run
    pc,      \* the number of its steps done
    block,   \* System::block_number
    result   \* of the last step: [ok, same], `same` when it left storage unchanged

tvars == <<vars, test, pc, block, result>>

\* the accounts of the tests
TestUsers == <<USER1, USER2, USER3, USER4, USER5, USER6, USER7, USER8, USER9>>
TestUserSet == ToSet(TestUsers)
TestAccounts == {V1, V2, V3, V4} \cup TestUserSet
TestMaxBalance == 1000
\* ExtBuilder::build: validators V1-V3, count 3, limits [100, 200, 50, 400, 1],
\* and no token balances
TestValidators == {V1, V2, V3}
TestLimits == [max_tx_value |-> 100, day_max_limit |-> 200,
               day_max_limit_for_one_address |-> 50, max_pending_tx_limit |-> 400,
               min_tx_value |-> 1]
TestBalance == [a \in TestAccounts |-> 0]
\* the last block a test runs to is DAY_IN_BLOCKS * 3, at timestamp 6 per block
TestMaxTime == 6 * 3 * DAY_IN_BLOCKS

\* run_to_block(n): on_finalize of every block before n, the timestamp set
\* to 6 * n after the first; a second on_finalize at the same timestamp
\* finds yesterday's blocklist already cleared, so the rest change nothing
RunToBlock(s, b, n) ==
    IF b >= n THEN s
    ELSE LET t == [OnFinalize(s) EXCEPT !.now = 6 * n] IN
         IF n - b > 1 THEN OnFinalize(t) ELSE t

-----------------------------------------------------------------------------
(* Steps and assertions.                                                   *)

Step(call, by, arg, out) == [call |-> call, by |-> by, arg |-> arg, out |-> out, expect |-> << >>]
Then(st, exps) == [st EXCEPT !.expect = exps]
\* an assert_eq! that follows no call
Check(exps) == Then(Step("none", V1, 0, "ok"), exps)
Is(of, at, v) == [of |-> of, at |-> at, is |-> v]
\* message_id_by_transfer_id(k), and an eth message id
Pid(k) == [pid |-> k]
Eth(e) == [eth |-> e]
Deposit3(e, to, a) == [id |-> e, to |-> to, amount |-> a]
Limits5(tx, day, one, pend, min) ==
    [max_tx_value |-> tx, day_max_limit |-> day, day_max_limit_for_one_address |-> one,
     max_pending_tx_limit |-> pend, min_tx_value |-> min]

\* the getter an assertion reads, on storage s
Observe(s, e) ==
    LET id == IF "pid" \in DOMAIN e.at THEN s.transfers[e.at.pid].messageId
              ELSE <<"deposit", e.at.eth>>
    IN CASE e.of = "messages" -> s.messages[id].status
         [] e.of = "validator_history" -> s.validatorHistory[id].status
         [] e.of = "bridge_messages" -> s.bridgeMessages[id].status
         [] e.of = "transfers_open" -> s.transfers[e.at.pid].open
         [] e.of = "balance_of" -> s.balance[e.at]
         [] e.of = "locked" -> s.locked[e.at]
         [] e.of = "validators_count" -> s.validatorsCount
         [] e.of = "bridge_transfers_count" -> Cardinality(DOMAIN s.transfers)
         [] e.of = "bridge_is_operational" -> s.bridgeIsOperational
         [] e.of = "max_tx_value" -> s.currentLimits.max_tx_value
         [] e.of = "pending_burn_count" -> s.pendingBurn
         [] e.of = "pending_mint_count" -> s.pendingMint
         [] e.of = "daily_blocked" -> s.dailyBlocked[e.at]

\* a step on storage s, started at block b
Run(s, st, b) ==
    LET ref == IF "pid" \in DOMAIN st.arg THEN s.transfers[st.arg.pid].messageId ELSE << >> IN
    CASE st.call = "set_transfer" -> SetTransferCall(s, st.by, st.arg)
      [] st.call = "multi_signed_mint" -> MultiSignedMintCall(s, st.by, st.arg)
      [] st.call = "approve_transfer" -> ApproveTransferCall(s, st.by, ref)
      [] st.call = "confirm_transfer" -> ConfirmTransferCall(s, st.by, ref)
      [] st.call = "cancel_transfer" -> CancelTransferCall(s, st.by, ref)
      [] st.call = "update_limits" -> UpdateLimitsCall(s, st.by, st.arg)
      [] st.call = "update_validator_list" -> UpdateValidatorListCall(s, st.by, st.arg)
      [] st.call = "pause_bridge" -> PauseBridgeCall(s, st.by)
      [] st.call = "resume_bridge" -> ResumeBridgeCall(s, st.by)
      [] st.call = "_mint" -> Mint(s, st.by, st.arg)
      [] st.call = "run_to_block" -> Ok(RunToBlock(s, b, st.arg))
      [] st.call = "none" -> Ok(s)

\* the outcome a test asserts of a call
OutcomeHolds(out, r) ==
    CASE out = "ok" -> r.ok
      [] out = "err" -> ~r.ok
      [] out = "noop" -> ~r.ok /\ r.same
      [] out = "any" -> TRUE

-----------------------------------------------------------------------------
(* The tests.                                                              *)

token_eth2sub_mint_works ==
    LET d == Deposit3(ETH_MESSAGE_ID, USER2, 99) IN
    << Then(Step("multi_signed_mint", V2, d, "ok"), <<Is("messages", Eth(ETH_MESSAGE_ID), "Pending")>>),
       Then(Step("multi_signed_mint", V1, d, "ok"),
            << Is("messages", Eth(ETH_MESSAGE_ID), "Confirmed"), Is("transfers_open", Pid(0), FALSE),
               Is("balance_of", USER2, 99) >>) >>

token_eth2sub_closed_transfer_fail ==
    LET d == Deposit3(ETH_MESSAGE_ID, USER2, 99) IN
    << Step("multi_signed_mint", V2, d, "ok"),
       Step("multi_signed_mint", V1, d, "ok"),
       Then(Step("multi_signed_mint", V3, d, "noop"),
            << Is("balance_of", USER2, 99), Is("transfers_open", Pid(0), FALSE),
               Is("messages", Eth(ETH_MESSAGE_ID), "Confirmed") >>) >>

\* the common start of the burn tests: USER2 gets 600 and withdraws 49
BurnStart ==
    << Step("_mint", USER2, 600, "any"),
       Then(Step("set_transfer", USER2, 49, "ok"),
            << Is("messages", Pid(0), "Withdraw"), Is("locked", USER2, 0) >>) >>
BurnApproved ==
    BurnStart \o
    << Step("approve_transfer", V1, Pid(0), "ok"),
       Then(Step("approve_transfer", V2, Pid(0), "ok"),
            << Is("messages", Pid(0), "Approved"), Is("locked", USER2, 49),
               Is("balance_of", USER2, 600) >>) >>
BurnConfirmed ==
    BurnApproved \o
    << Then(Step("confirm_transfer", V2, Pid(0), "ok"), << Is("messages", Pid(0), "Confirmed") >>),
       Then(Step("confirm_transfer", V1, Pid(0), "ok"), << Is("balance_of", USER2, 551) >>) >>

token_sub2eth_burn_works == BurnConfirmed

token_sub2eth_burn_skipped_approval_should_fail ==
    << Then(Step("_mint", USER2, 600, "any"), << Is("balance_of", USER2, 600) >>) >>
    \o Tail(BurnStart) \o
    << Step("confirm_transfer", V1, Pid(0), "noop") >>

token_sub2eth_burn_cancel_works ==
    BurnApproved \o
    << Step("cancel_transfer", V2, Pid(0), "ok"),
       Then(Step("cancel_transfer", V3, Pid(0), "ok"), << Is("messages", Pid(0), "Canceled") >>) >>

burn_cancel_should_fail ==
    BurnConfirmed \o << Step("cancel_transfer", V2, Pid(0), "noop") >>

update_validator_list_should_work ==
    LET l == [id |-> ETH_MESSAGE_ID, quorum |-> 3, accounts |-> <<V1, V2, V3, V4>>] IN
    << Then(Step("update_validator_list", V2, l, "ok"), << Is("validator_history", Pid(0), "Pending") >>),
       Then(Step("update_validator_list", V1, l, "ok"),
            << Is("validator_history", Pid(0), "Confirmed"), Is("validators_count", 0, 4) >>) >>

pause_the_bridge_should_work ==
    << Then(Step("pause_bridge", V2, 0, "ok"),
            << Is("bridge_transfers_count", 0, 1), Is("bridge_is_operational", 0, TRUE),
               Is("bridge_messages", Pid(0), "Pending") >>),
       Then(Step("pause_bridge", V1, 0, "ok"),
            << Is("bridge_is_operational", 0, FALSE), Is("bridge_messages", Pid(0), "Confirmed") >>) >>

\* both genesis validators needed for a quorum pause the bridge
Paused ==
    << Check(<< Is("bridge_is_operational", 0, TRUE) >>),
       Step("pause_bridge", V2, 0, "ok"),
       Then(Step("pause_bridge", V1, 0, "ok"), << Is("bridge_is_operational", 0, FALSE) >>) >>

extrinsics_restricted_should_fail ==
    Tail(Paused) \o
    << Step("multi_signed_mint", V2, Deposit3(ETH_MESSAGE_ID, USER2, 1000), "noop") >>

double_pause_should_fail == Paused \o << Step("pause_bridge", V1, 0, "noop") >>

pause_and_resume_the_bridge_should_work ==
    Paused \o
    << Step("resume_bridge", V1, 0, "ok"),
       Then(Step("resume_bridge", V2, 0, "ok"), << Is("bridge_is_operational", 0, TRUE) >>) >>

double_vote_should_fail ==
    << Check(<< Is("bridge_is_operational", 0, TRUE) >>),
       Step("pause_bridge", V2, 0, "ok"),
       Step("pause_bridge", V2, 0, "noop") >>

instant_withdraw_should_fail ==
    LET d == Deposit3(ETH_MESSAGE_ID, USER2, 99) IN
    << Step("multi_signed_mint", V2, d, "ok"),
       Step("multi_signed_mint", V1, d, "ok"),
       Then(Step("set_transfer", USER2, 49, "ok"),
            << Is("messages", Pid(1), "Withdraw"), Is("locked", USER2, 0) >>),
       Step("approve_transfer", V1, Pid(1), "ok"),
       Then(Step("approve_transfer", V2, Pid(1), "err"), << Is("messages", Pid(1), "Canceled") >>) >>

change_limits_should_work ==
    LET l == Limits5(10, 20, 5, 40, 1) IN
    << Check(<< Is("max_tx_value", 0, 100) >>),
       Step("update_limits", V2, l, "ok"),
       Then(Step("update_limits", V1, l, "ok"), << Is("max_tx_value", 0, 10) >>) >>

\* MORE_THAN_MAX is u128::max_value()
change_limits_should_fail ==
    << Step("update_limits", V1, Limits5(MaxBalance, 20, 5, 40, 1), "noop") >>

pending_burn_limit_should_work ==
    [i \in 1..9 |-> Step("_mint", TestUsers[i], 60, "any")]
    \o FlattenSeq([k \in 1..8 |-> << Step("set_transfer", TestUsers[k + 1], 49, "ok"),
                                     Step("approve_transfer", V1, Pid(k - 1), "ok") >>])
    \o << Check(<< Is("pending_burn_count", 0, 49 * 8) >>),
          Step("set_transfer", USER1, 49, "noop") >>

pending_mint_limit_should_work ==
    LET ids == <<ETH_MESSAGE_ID, ETH_MESSAGE_ID2, ETH_MESSAGE_ID3, ETH_MESSAGE_ID4,
                 ETH_MESSAGE_ID5, ETH_MESSAGE_ID6, ETH_MESSAGE_ID7, ETH_MESSAGE_ID8>>
    IN [k \in 1..8 |-> Step("multi_signed_mint", V2, Deposit3(ids[k], TestUsers[k + 1], 49), "ok")]
       \o << Check(<< Is("pending_mint_count", 0, 49 * 8) >>),
             Step("multi_signed_mint", V2, Deposit3(ETH_MESSAGE_ID1, USER1, 49 + 5), "noop") >>

\* the second set_transfer is asserted Err with assert_eq!, not
\* assert_noop!: it writes USER2 to DailyBlocked before failing
blocking_account_by_volume_should_work ==
    BurnStart \o
    << Step("approve_transfer", V1, Pid(0), "ok"),
       Step("approve_transfer", V2, Pid(0), "ok"),
       Step("set_transfer", USER2, 49, "err") >>

blocked_account_unblocked_next_day_should_work ==
    << Step("run_to_block", V1, DAY_IN_BLOCKS, "ok") >>
    \o blocking_account_by_volume_should_work \o
    << Check(<< Is("daily_blocked", 1, {USER2}) >>),
       Step("run_to_block", V1, DAY_IN_BLOCKS * 2, "ok"),
       Step("run_to_block", V1, DAY_IN_BLOCKS * 3, "ok"),
       Step("set_transfer", USER2, 49, "ok") >>

Tests ==
    ("token_eth2sub_mint_works" :> token_eth2sub_mint_works) @@
    ("token_eth2sub_closed_transfer_fail" :> token_eth2sub_closed_transfer_fail) @@
    ("token_sub2eth_burn_works" :> token_sub2eth_burn_works) @@
    ("token_sub2eth_burn_skipped_approval_should_fail" :> token_sub2eth_burn_skipped_approval_should_fail) @@
    ("token_sub2eth_burn_cancel_works" :> token_sub2eth_burn_cancel_works) @@
    ("burn_cancel_should_fail" :> burn_cancel_should_fail) @@
    ("update_validator_list_should_work" :> update_validator_list_should_work) @@
    ("pause_the_bridge_should_work" :> pause_the_bridge_should_work) @@
    ("extrinsics_restricted_should_fail" :> extrinsics_restricted_should_fail) @@
    ("double_pause_should_fail" :> double_pause_should_fail) @@
    ("pause_and_resume_the_bridge_should_work" :> pause_and_resume_the_bridge_should_work) @@
    ("double_vote_should_fail" :> double_vote_should_fail) @@
    ("instant_withdraw_should_fail" :> instant_withdraw_should_fail) @@
    ("change_limits_should_work" :> change_limits_should_work) @@
    ("change_limits_should_fail" :> change_limits_should_fail) @@
    ("pending_burn_limit_should_work" :> pending_burn_limit_should_work) @@
    ("pending_mint_limit_should_work" :> pending_mint_limit_should_work) @@
    ("blocking_account_by_volume_should_work" :> blocking_account_by_volume_should_work) @@
    ("blocked_account_unblocked_next_day_should_work" :> blocked_account_unblocked_next_day_should_work)

-----------------------------------------------------------------------------
(* Running the tests.                                                      *)

TestInit ==
    /\ Init
    /\ test \in DOMAIN Tests
    /\ pc = 0 /\ block = 0
    /\ result = [ok |-> TRUE, same |-> TRUE]

\* the next step of the test; a test stops after its last step
TestStep ==
    LET st == Tests[test][pc + 1]
        r == Run(Storage, st, block)
    IN /\ pc < Len(Tests[test])
       /\ Commit(r.s)
       /\ result' = [ok |-> r.ok, same |-> r.s = Storage]
       /\ pc' = pc + 1
       /\ block' = IF st.call = "run_to_block" /\ st.arg > block THEN st.arg ELSE block
       /\ UNCHANGED test

TestSpec == TestInit /\ [][TestStep]_tvars

\* Every test of mod tests passes on the model: after each step, the call
\* returned what the test asserts (Ok, Err, or Err with storage unchanged
\* for assert_noop!) and every assert_eq! that follows it holds.
TestsPass ==
    pc > 0 =>
        LET st == Tests[test][pc] IN
        /\ OutcomeHolds(st.out, result)
        /\ \A i \in DOMAIN st.expect : Observe(Storage, st.expect[i]) = st.expect[i].is

=============================================================================
