# TLA+ models of the akropolisOS bridge and oracle pallets

This directory holds TLA+ models of the runtime of akropolisOS-chain-node.
They cover the Substrate bridge pallet (`src/runtime/src/bridge.rs`), which
mints and burns tokens for a cross-chain (Ethereum) bridge when a committee
of validators votes for it, and the price oracle pallet
(`src/runtime/src/oracle.rs`). It also holds the TLC configurations that check
the models. Every definition is translated from the Rust source.
`PROJECT.json` has the line map from definitions to source, the runs, the
mutants, the findings and the hazard list.

## 1. Inventory

### Components and their state

| Component | Source | State (storage items) | Operations that change state |
|---|---|---|---|
| Voting/quorum engine | bridge.rs 338-378, 500-502, 564-650 | `BridgeTransfers` (proposal: message id, open, votes, kind), `BridgeTransfersCount`, `TransferId`/`MessageId` (index and its inverse), `ValidatorVotes` | `_sign` (called by every voting dispatchable), `create_transfer`, `set_pending`, `update_status`, `reopen_for_burn_confirmation` |
| Transfer state machine | bridge.rs 108-163, 197-205, 281-312, 402-434, 514-548 | `TransferMessages` (id, addresses, amount, status, action) | `set_transfer`, `multi_signed_mint`, `approve_transfer`, `confirm_transfer`, `cancel_transfer`; at quorum, `deposit`, `withdraw`, `execute_burn`, `_cancel_transfer` |
| Pending-volume guard | bridge.rs 450-481, 708-724 | `CurrentPendingBurn`, `CurrentPendingMint` | `add_/sub_pending_*` (checked), `check_pending_*` |
| Daily-volume tracker | bridge.rs 315-332, 381-391, 658-692 | `DailyLimits` (per token and account), `DailyBlocked` (per token and day) | `check_daily_account_volume`, `set_transfer`'s `+=`, `execute_burn`'s `-=`, `on_finalize` (clears yesterday's blocklist and those accounts' `DailyLimits`) |
| 75% rule | bridge.rs 743-767, 405-407 | `DailyHolds` (account: block, message id) | `check_daily_holds` (cancels, then fails), `deposit` (records the first deposit) |
| Pause switch | bridge.rs 232-277, 435-443, 550-562 | `BridgeIsOperational`, `BridgeMessages` | `pause_bridge`, `resume_bridge`, `manage_bridge` |
| Validator set | bridge.rs 209-228, 484-497, 651-656 | `Validators`, `ValidatorsCount`, `Quorum` (never read), `ValidatorHistory`, `ValidatorAccounts` (genesis, never updated) | `update_validator_list`, `manage_validator_list` |
| Limits store | bridge.rs 167-193, 445-449, 726-741 | `CurrentLimits`, `LimitMessages` | `update_limits`, `check_limits`, `_update_limits` |
| Token ledger (token pallet; not in `src/`) | spec.md section 6 | balances, locked amounts, total supply | `_mint`, `_burn`, `lock`, `unlock` |
| Price oracle | oracle.rs | `TokenPriceHistory`, `AggregatedPrices` | `record_price`, `record_aggregated_prices`, `on_finalize` (every 10th block) |
| Chain spec | cli/src/chain_spec.rs | none (genesis configuration) | none |

### How the components interact

All of them share one key-value storage. Each dispatchable runs alone, to
completion, inside a block. There is no concurrency *within* a call. The
hard part is the **interleaving of calls** by independent validators and
users across blocks.

Every voting dispatchable does the same three things:

1. It creates or reuses a proposal through `get_transfer_id_checked`.
2. It calls `_sign`.
3. At quorum, `_sign` dispatches on the proposal's kind: `execute_transfer`,
   `_update_limits`, `manage_validator_list` or `manage_bridge`. The
   transfer effects call the token ledger.

`on_finalize` runs once per block.

This pallet version is **not transactional**. A dispatchable that returns
`Err` keeps every storage write it made before the error. The test suite's
"KNOWN BUGS" note (bridge.rs 956-962) says so, and spec.md 4.2 describes one
case of it. The model follows this rule everywhere. The writes that persist
include:

- the blocklist write of `check_daily_account_volume`;
- the `Canceled` status written by `check_daily_holds`;
- the pending-burn subtraction of `withdraw` before a failing lock;
- the status write and reopen of `confirm_transfer`/`cancel_transfer`
  before a failing vote.

### What is hard

These paths are hard to test and are listed with their lines under
`hazards` in PROJECT.json:

- **Two-round withdrawals.** `confirm_transfer`/`cancel_transfer` reopen a
  closed proposal. A second `confirm_transfer` on a Confirmed message reopens
  it again.
- **Partial failures inside `_sign`.** The effect fails after some writes,
  and then the vote is not recorded. The same validator can vote again and
  repeat the writes.
- **Collisions.** Message ids are content hashes: `set_transfer` hashes
  (from, to, amount, timestamp), and pause, resume and limits use fixed
  hashes. Two different operations can share one message or proposal.
- **Shared escrow.** `lock`/`unlock` act on an account's whole locked
  balance. They are not tied to one message.
- **Day boundaries.** The day reset in `on_finalize` races with the
  unchecked u128 arithmetic on `DailyLimits`.
- **Moving quorum denominator.** `ValidatorsCount` is read at vote time.
  Validator-set changes never remove old validators and never update
  `ValidatorAccounts`.

### What makes each component correct

- **Voting engine.** A proposal closes only at a quorum of distinct current
  validators. Its vote count equals its recorded voters. A reopened round
  starts from zero.
- **Transfers.** Each effect (mint, lock, burn, release) runs exactly once
  per message. Settled messages stay settled. Each approved withdrawal's
  escrow is backed by locked funds.
- **Pending guard.** Each aggregate equals the amounts of its Pending
  transfers (spec.md 3).
- **Daily volume.** Within one day, an account's outbound volume stays below
  `day_max_limit_for_one_address`. A blocked account is released the next
  day.
- **Pause.** No tokens are minted, locked or burned while paused. Validators
  can always pause a running bridge and resume a paused one. (The code
  breaks both: see the pause_bypass and pause_once runs.)
- **Validator set and limits.** Only installed validators vote. Installed
  limits satisfy `check_limits`. A proposal's content is what a quorum
  attested.

## 2. Plan

Done so far:

- **`Bridge`**: the voting engine, the transfer state machine, the pending
  guard, the daily tracker, the 75% rule and the pause switch, over the
  token ledger.
- **`Bridge` governance**: `update_validator_list` and `update_limits` are
  actions that go through the same `_sign` dispatch.
- **`MCBridgeTests`**: the 19 unit tests of `bridge.rs`, replayed on the
  model with every outcome and `assert_eq!` they state.
- **`Oracle`**: `record_price`, aggregation, trimming and `on_finalize`,
  with one liveness property under the fairness of block finalization.
- **`OracleAbstract`**: what the oracle promises (a log of prices, and
  aggregates that are exact window averages). `Oracle` is checked to
  implement it under a refinement mapping.
- **`DepositAbstract`**: what the bridge promises for a deposit (requested
  once with fixed content, then minted once or canceled). `Bridge` is
  checked to implement it in the core run.

Still to do:

1. **`WithdrawAbstract`**. This is the same for a withdrawal: requested,
   escrowed, then settled with one burn or one release. Three of the
   findings (double burn, escrow release, resubmission) are exactly the
   steps such a mapping would refuse. The refinement would therefore fail
   in the core run for the known reasons, and each of those runs already
   shows one of them.
2. **The remaining daily-volume hazard** (bridge.rs:749). This is a
   per-day volume cap over several days and the 75% rule applying forever.
   They need the block number of the first deposit as state.
3. **Liveness of deposits**, under the assumption that validators keep
   voting.

## 3. Modules

### `Bridge.tla`

The storage is one record built by `Storage`. `Commit(s)` writes a record
back to the variables. Every helper of `impl Module` maps a record `s` to a
result `[ok, s]`. `AndThen` chains helpers the way `?` does in the Rust
code. An action commits its result's storage **whether or not the call
failed**, because the pallet is not transactional.

| Variable | Storage |
|---|---|
| `bridgeIsOperational`, `currentLimits`, `pendingBurn`, `pendingMint` | the StorageValues of the same names |
| `transfers` | `BridgeTransfers`; its domain `0..n-1` is `BridgeTransfersCount` |
| `transferId` | `TransferId`; `MessageId` is `transfers[pid].messageId` |
| `messages`, `bridgeMessages`, `limitMessages`, `validatorHistory` | `TransferMessages`, `BridgeMessages`, `LimitMessages`, `ValidatorHistory` |
| `quorum` | `Quorum` (written, never read) |
| `validatorVotes` | the `ValidatorVotes` keys stored as `true` |
| `validators`, `validatorsCount` | `Validators` keys, `ValidatorsCount` |
| `dailyHolds`, `dailyLimits`, `dailyBlocked` | the Daily* maps, for one token |
| `balance`, `locked` | the token pallet |
| `now` | `timestamp::now`, in ticks |
| `minted`, `burned` | history: bags of the message ids `deposit`/`execute_burn` ran for |
| `dissent` | history: counted `multi_signed_mint` votes whose content differs from the stored message |

Each dispatchable is an operator `...Call(s, args)` from storage to a
result. An `ensure!` or `?` that fails before any write returns `Err(s)`.
`SetTransferCall`, `MultiSignedMintCall`, `ApproveTransferCall`,
`ConfirmTransferCall`, `CancelTransferCall`, `PauseBridgeCall`,
`ResumeBridgeCall`, `UpdateLimitsCall` and `UpdateValidatorListCall` are
the dispatchables, and `OnFinalize` is the hook. `MCBridgeTests` calls these
operators directly. Each action commits its call's storage, so a call that
fails before writing anything is a stuttering step:

- `SetTransfer`, `MultiSignedMint`, `ApproveTransfer`, `ConfirmTransfer`
  and `CancelTransfer`;
- `PauseBridge` and `ResumeBridge`;
- `UpdateLimits` and `UpdateValidatorList`;
- `FinalizeBlock`, which is `on_finalize` followed by the next block's
  timestamp.

`Sign` translates `_sign`, and `Dispatch` is its `match` on the proposal's
kind. `Sign` keeps `_sign`'s local copy of the message, whose status it
sets to `Approved` before dispatching. The quorum test
`votes as f64 / count as f64 >= 0.51` becomes `votes * 100 >= count * 51`.
This is exact for these integers (count 0 gives +inf in Rust and `TRUE`
here). Unchecked u128 arithmetic (`+=`/`-=` on `DailyLimits`) wraps modulo
`MaxBalance + 1`, as in a release build. `checked_*` operations fail
instead.

### `DepositAbstract.tla`

This is the deposit lifecycle without validators, votes or storage:

- `dstatus` is `none`, `requested`, `minted` or `canceled` per deposit id;
- `content` is the recipient and amount stored by the request;
- `credited` is the total minted to each account.

`Request` fixes the content. `MintDeposit` credits that content once.
`CancelDeposit` cancels a requested deposit. Neither outcome is undone.

`Bridge` declares `DepositSpec == INSTANCE DepositAbstract WITH ...`. The
mapping reads storage:

- a deposit id with no `TransferMessage` is `none`;
- a message that is `Confirmed` is `minted`, and one that is `Canceled` is
  `canceled`;
- `Deposit` or `Pending` is `requested`;
- `content` is the stored message;
- `credited` sums the `minted` bag, so a second mint of one id is a credit
  that no abstract step makes.

`BridgeRefinesDeposits` is `DepositSpec!DSpec`, checked as a PROPERTY.
One validator's `cancel_transfer` marks a deposit Canceled before any
quorum. The abstract allows this, because spec.md §5 lets a validator
cancel an open transfer.

### `MCBridge.tla`

`MCBridge.tla` instantiates `Bridge` with the genesis of the pallet's tests
(`MCLimits` is the tests' `GenesisConfig`):

- validators V1, V2 and V3, with `ValidatorsCount` 3;
- limits 100/200/50/400/1;
- one user U1 holding 100 tokens;
- one deposit id, attesting 40 to U1, and withdrawals of 40.

The pause_bypass and pause_once runs start instead from the chain spec's bridge genesis
(`ChainSpecValidators`, and `ChainSpecLimits` 100/200/50/400/10).

The governance inputs are:

- the limits of `change_limits_should_work`;
- a list adding V4 (that of `update_validator_list_should_work`);
- pause and resume votes by V1 and V2.

A second list (dropping V3) was tried alongside these. The product of the
proposal orders exceeds the time bound of a run, so govern keeps the list
that moves the count from 3 to 4 while pause proposals are open.

`StateBound` caps the number of distinct withdrawal messages at
`MaxWithdrawals`. `ValidatorSymmetry` permutes V1..V3. It is used only
where those three have the same genesis role and the same inputs: it is
not used in any run where a validator list names them.

### `MCBridgeTests.tla`

This module replays the unit tests of `bridge.rs` (`mod tests`) on the
model. Each test is a sequence of steps, named after its Rust function. A
step gives:

- the dispatchable and its signed origin;
- its argument (an amount, a deposit, `message_id_by_transfer_id(k)` as
  `Pid(k)`, a limits record or a validator list);
- the outcome the test asserts: `ok` for `assert_ok!`, `err` for
  `assert_eq!(..., Err(..))`, `noop` for `assert_noop!` (Err **and** storage
  unchanged), and `any` for `let _ =`;
- the `assert_eq!`s that follow it, as getter/value pairs that `Observe`
  reads.

`TestInit` is the `ExtBuilder` genesis: V1..V3, count 3, limits
100/200/50/400/1 and no token balances. It chooses one test. `TestStep` runs
the next step. `RunToBlock` is the tests' `run_to_block`: `on_finalize`, then
the timestamp `6 * n`. `DAY` and `DAY_IN_BLOCKS` keep the code's values
(86400 and 14400), so the day arithmetic of
`blocked_account_unblocked_next_day_should_work` is the real one.

Two assertions are not replayed:

- `total_supply`, which the token pallet keeps and the model does not;
- `transfers(1).open == true` in the burn tests. It reads a proposal that
  does not exist, so it gets the `Default` of `BridgeTransfer` from
  `types.rs`, which is not under `src/`.

### `Oracle.tla` and `MCOracle.tla`

| Variable | Storage |
|---|---|
| `history` | `TokenPriceHistory` |
| `aggregated` | `AggregatedPrices` (the value only; the moment is left out) |
| `block` | the system block number, modulo `Period` |
| `recorded`, `fresh` | history: every price recorded, and whether one came since the last aggregate |

The actions are:

- `RecordPrice`, for `record_price`;
- `RecordAggregatedPrices`, for the signed call;
- `FinalizeBlock`, for `on_finalize`, which aggregates when
  `block % 10 = 0`.

`PriceSum` is the unchecked fold of `aggregate_prices`, a RECURSIVE
operator. `Mean` divides the sum by the length, and `Trim` is the
`drain(len - TOKENS_TO_KEEP..)`. `RecordAggregated` folds
`AggregateSymbol` over `FETCHED_CRYPTOS`. A symbol with no history fails
and writes nothing, and the fold does **not** stop there: the Rust
`.map().fold()` runs the closure for every symbol.

`OracleAbstract` is what the pallet promises, without its storage layout:

- `log` is every price recorded per symbol, in order;
- `Record` appends a price to a symbol's log;
- `Aggregate` sets the aggregate of every fetched symbol that has prices.
  It may choose any average of that symbol's newest `n` prices, for any `n`
  from `min(Len, TOKENS_TO_KEEP)` to `Len`, and every other symbol keeps its
  aggregate.

`Oracle` declares `Abstract == INSTANCE OracleAbstract WITH log <- recorded`.
The constants and `aggregated` map by name. `OracleRefinesAbstract` is
`Abstract!ASpec`, checked as a PROPERTY. It holds only if two things are
true at every step of `Oracle`:

- the trim keeps the newest prices;
- the mean divides by the number of prices it sums.

`MCOracle` fetches every symbol it uses, so the abstract's rule that a
symbol that is not fetched is never aggregated is not exercised.

`MCOracle` uses the code's four fetched symbols (DAI, USDT, USDC, cDAI).
Prices are recorded for DAI and USDT only, so every aggregation also meets
the empty USDC and cDAI histories.

## 4. Runs

| Run | cfg | Expect | What it shows |
|---|---|---|---|
| core | MCBridge.cfg | pass (109k states, under 3 min) | Up to two withdrawals and a deposit across two days, the day reset included. `VotesMatchRecorded`: a proposal's vote count equals its recorded voters, through reopenings and failed votes. `BridgeRefinesDeposits`: every step of `Bridge` is a step of `DepositAbstract`, so a deposit's content never changes, it is minted at most once and only from Deposit/Pending (never after a cancel, and never again from the round `confirm_transfer` reopens on a Confirmed deposit), and a minted deposit is never canceled. `ClosedByQuorum`: every close happens at a quorum of distinct voters. |
| govern | MCBridgeGovern.cfg | pass (244k states, under 1.5 min) | V1..V4 vote, in every order, on the limits of `change_limits_should_work` and on the list adding V4, while V1 and V2 vote to pause and resume. `ClosedByQuorum`: every limits, validator and pause proposal closes at 51% of the `ValidatorsCount` its last vote was counted against, while the count moves from 3 to 4 with proposals open. The threshold is the one `votes_are_enough` computes, so a changed threshold (bridge.rs:501) is accepted, not caught. |
| oracle | MCOracle.cfg | pass (about 1.5 min) | Four fetched symbols, with up to three prices for DAI and USDT. `OracleRefinesAbstract`: every step of `Oracle` is a step of `OracleAbstract`, so every aggregate is the exact average of a window of newest prices that is at least `TOKENS_TO_KEEP` long. `PricesEventuallyAggregated`: every recorded price is eventually aggregated, even while other fetched symbols have no history. |
| pending_burn_leak | MCBridgePendingBurn.cfg | violation | One approval, then a cancel. The withdrawal is Canceled, its cancel quorum fails in `unlock` for ever, and `CurrentPendingBurn` keeps its 40. |
| escrow_released_by_deposit_cancel | MCBridgeEscrow.cfg | violation | U1's withdrawal is approved, locking 40. Cancelling U1's pending deposit unlocks those 40, and the withdrawal stays Approved with no escrow. |
| double_burn | MCBridgeDoubleBurn.cfg | violation | Two approved withdrawals on different days. A second round of `confirm_transfer` on the first withdrawal, already burned, burns it again out of the second one's escrow. |
| resubmission_overwrites | MCBridgeRevert.cfg | violation | Approve and confirm inside one block, then an identical `set_transfer` in the same block overwrites the Confirmed message with status Withdraw. |
| pause_once | MCBridgePauseOnce.cfg | violation | After one pause and one resume, the running bridge has no pause proposal left to vote on. The id is the hash of the constant `("pause", 0)`, and that proposal is closed. `update_limits` has the same flaw. |
| deposit_attestation | MCBridgeAttest.cfg | violation | Two validators pass different amounts for one deposit id. Both votes count for the first caller's amount, which is minted: the content is attested by one validator only. |
| pause_bypass | MCBridgePauseBypass.cfg | violation | The chain spec's bridge genesis, one withdrawal, pause and resume votes, and one hash `H0` that names no message. V1 approves the withdrawal (proposal 0) and V1 and V2 pause the bridge. V2's `cancel_transfer(H0)` then passes: there is no pause check, `TransferId::get(H0)` is 0, and the vote completes proposal 0's quorum, so `withdraw` locks 40 while the bridge is paused. `NoSupplyChangeWhilePaused` is violated. |
| daily_limit_wrap | MCBridgeDailyWrap.cfg | violation | U1 is blocked on day 0 with 40 pending. `on_finalize` on day 1 zeroes U1's `DailyLimits`, and the burn of the day-0 withdrawal then subtracts 40 without a check, wrapping the counter. The per-address cap no longer bounds the volume. |
| tests | MCBridgeTests.cfg | pass (126 states) | Each of the 19 unit tests, from its own genesis. `TestsPass`: every call returns what the test asserts (an `assert_noop!` call leaves storage unchanged) and every `assert_eq!` holds. The model and the tests agree on every assertion they share. |

Every violation run is a finding (see PROJECT.json `findings`).

Each property of a passing run has a mutant, a plausible bug in the mapped
code, that TLC catches:

| Mutant | Breaks |
|---|---|
| `ReopenKeepVotes`: the reopen does not clear votes | `VotesMatchRecorded` |
| `DepositNoConfirm`: `deposit` drops its trailing status write | `BridgeRefinesDeposits` |
| `SignClosesEarly`: `open = false` outside the quorum branch | `ClosedByQuorum` (core, govern) |
| `SetTransferCallNoProposal`: the message is stored without `get_transfer_id_checked` | `TypeOK` (core) |
| `TrimOldest`: `drain(..K)` keeps the oldest prices | `OracleRefinesAbstract` |
| `MeanOverKeep`: the sum is divided by `TOKENS_TO_KEEP` | `OracleRefinesAbstract` |
| `RecordAggregatedShortCircuit`: the first empty symbol stops the loop | `PricesEventuallyAggregated` |
| `CheckDailyHoldsExact`: the 75% is computed without truncating `balance / 100` first | `TestsPass` (`instant_withdraw_should_fail` relies on 99 / 100 * 75 = 0) |

### Bounds and why they are enough

- **Three validators.** Quorum is 2 of 3, so exactly one vote is below
  quorum, a second vote executes, and a third vote meets a closed proposal.
  Every branch of `_sign` is reached.
- **A fourth account, V4, in govern.** Adding V4 changes the count to 4,
  where quorum needs 3 votes, and V1 and V2 alone can no longer pass a
  pause.
- **Two days (`MaxTime` 3, `DAY` 2).** An account can be blocked on day 0
  and released by `on_finalize` on day 1.
- **Amount 40 with U1's 100 tokens.** This passes the 75% rule
  (100/100*75 = 75), and two locks (80) fit the balance. Two withdrawals of
  40 on one day exceed the per-address cap of 50, so the blocklist path is
  taken.
- **`MaxBalance` 1023.** This stands for `u128::MAX`. Only the wrap-around
  of `DailyLimits` depends on it, and it wraps the same way at any width.
- **Tests.** The tests' own values: 13 accounts, amounts up to 600,
  `DAY` 86400 and three days of timestamps. Each test is one behaviour, so
  the run is small, and it needs no bound of its own. `MaxBalance` 1000
  stands for `u128::MAX` (`MORE_THAN_MAX` of `change_limits_should_fail`).
- **Oracle.**
  - `TOKENS_TO_KEEP` 2 with up to three prices, so a trim drops a price.
  - `Period` is the code's 10.
  - Prices {1, 2} with `MaxBalance` 7: the sum never wraps, so
    `OracleRefinesAbstract` checks the averaging itself. A wrap needs prices
    near 2^128, which real token prices in 10^18 units do not reach.

### Fairness

- **Bridge.** There is none. Votes are made by external validators, and the
  code gives no guarantee that they vote. Every Bridge property is a safety
  property.
- **Tests.** There is none, and no liveness property. Each test is a finite
  script, so `MCBridgeTests.cfg` turns off deadlock checking: a test stops
  after its last step.
- **Oracle.** `Spec` assumes `WF_vars(FinalizeBlock)`. The chain finalizes
  every block it produces, and `on_finalize` is called by the runtime, not
  by a user. `PricesEventuallyAggregated` rests on this alone: no signed
  call needs to be fair.

## 5. Not modelled, and why

- **The eth address and the token id.** The eth address is one fixed value;
  the token id is a single token. No property distinguishes them, although
  `set_transfer`'s hash keeps the amount and the timestamp.
- **Calls on unknown ids, in part.** `cancel_transfer` is modelled for the
  hashes in `UnknownHashes`. `TransferIdOf` reads the default proposal 0,
  and `UpdateStatus` inserts `DefaultMessage`. Only the message's status is
  ever read on this path. Three cases are left out:
  - **No proposal 0 yet.** `reopen_for_burn_confirmation` would insert a
    default `BridgeTransfer`. Its fields, and the defaults of `Kind` and
    `Status`, are in `crate::types`, which is not in the repository. The
    action therefore requires proposal 0 to exist.
  - **`approve_transfer` and `confirm_transfer` on an unknown hash.**
    `approve_transfer` on an unknown hash votes on proposal 0, which the
    model already covers as `approve_transfer` on proposal 0's own hash.
    `confirm_transfer`'s outcome depends on the default `Status`, which is
    not in the repository either.
  - **`update_validator_list` with a transfer's hash** (hazard
    bridge.rs:222). It votes on that transfer with no pause check, the
    same flaw that pause_bypass shows.

  The passing runs use `UnknownHashes = {}`. Only pause_bypass includes one.
- **Events.** They are output only.
- **Two earlier violation runs, retired to keep the number of runs small.**
  The findings are in the code as described, but no run checks them now.
  - `manage_validator_list` only adds accounts to `Validators`
    (bridge.rs:495). A validator dropped from a newly installed list keeps
    voting.
  - `reopen_for_burn_confirmation` clears the votes of the genesis
    `ValidatorAccounts` only (bridge.rs:644). A vote by a validator added
    later survives the reopen.
- **Token transfers between accounts.** They are not modelled, and neither
  is the `token_id` loop of `on_finalize`, which covers one token here.
- **The rest of the chain spec.** Session keys, balances, staking and the
  other pallets' genesis are configuration with no transitions.
- **The oracle's moment and the callers' identity.** No property reads the
  moment stored with an aggregate. Any signed account may call the oracle,
  which is hazard oracle.rs:85.
