------------------------------- MODULE Bridge -------------------------------
(***************************************************************************)
(* The bridge pallet of runtime/src/bridge.rs: the validator voting engine *)
(* (_sign), the two-phase transfer state machine, the pending-volume and   *)
(* daily-volume guards and the pause switch, over an abstract token ledger *)
(* (the token pallet, not under src/, is modelled from spec.md section 6). *)
(*                                                                         *)
(* A dispatchable of this pallet is NOT transactional: every storage write *)
(* made before an early `Err` return stays in the state.  Each helper is   *)
(* therefore an operator from a storage record `s` to a result             *)
(* [ok |-> BOOLEAN, s |-> storage], and an action applies the storage of   *)
(* its result whether or not the call failed.                              *)
(***************************************************************************)
EXTENDS Integers, Sequences, FiniteSets, FiniteSetsExt, Bags, TLC

CONSTANTS
    Accounts,         \* every signed origin (users and validators)
    ValidatorAccounts,\* genesis validator list (ValidatorAccounts storage)
    ValidatorsCount0, \* genesis ValidatorsCount
    Users,            \* accounts that call set_transfer
    Amounts,          \* amounts users withdraw
    Deposits,         \* [id, to, amount] a validator may attest in multi_signed_mint
    BridgeVoters,     \* accounts that call pause_bridge / resume_bridge
    LimitProposals,   \* Limits records validators pass to update_limits
    ValidatorLists,   \* [id, quorum, accounts] validators pass to update_validator_list
    InitLimits,       \* genesis CurrentLimits
    InitBalance,      \* [Accounts -> Nat] token balances at genesis
    MaxBalance,       \* T::Balance::max_value() (scaled down)
    DAY,              \* DAY: timestamp units per day
    DAY_IN_BLOCKS,    \* DAY_IN_BLOCKS
    MaxTime,          \* bound on the timestamp
    UnknownHashes     \* hashes validators pass to cancel_transfer that name no message

ASSUME /\ ValidatorAccounts \subseteq Accounts /\ Users \subseteq Accounts
       /\ MaxBalance \in Nat /\ DAY \in Nat \ {0} /\ MaxTime \in Nat

VARIABLES
    bridgeIsOperational, \* BridgeIsOperational
    currentLimits,       \* CurrentLimits
    pendingBurn,         \* CurrentPendingBurn
    pendingMint,         \* CurrentPendingMint
    transfers,           \* BridgeTransfers: ProposalId -> proposal (its DOMAIN is 0..BridgeTransfersCount-1)
    transferId,          \* TransferId: message id -> ProposalId (MessageId is its inverse)
    messages,            \* TransferMessages
    bridgeMessages,      \* BridgeMessages
    limitMessages,       \* LimitMessages
    validatorHistory,    \* ValidatorHistory
    quorum,              \* Quorum (written, never read)
    validatorVotes,      \* ValidatorVotes: the pairs <<ProposalId, account>> stored as true
    validators,          \* keys of Validators
    validatorsCount,     \* ValidatorsCount
    dailyHolds,          \* DailyHolds: account -> (block number, message id)
    dailyLimits,         \* DailyLimits for the one token modelled
    dailyBlocked,        \* DailyBlocked: day -> accounts blocked that day
    balance,             \* token ledger: balance_of
    locked,              \* token ledger: locked
    now,                 \* timestamp::now
    minted,              \* history: bag of the message ids minted
    burned,              \* history: bag of the message ids burned
    dissent              \* history: <<v, d>> when v's multi_signed_mint vote passing d was counted for other content

vars == <<bridgeIsOperational, currentLimits, pendingBurn, pendingMint, transfers,
          transferId, messages, bridgeMessages, limitMessages, validatorHistory,
          quorum, validatorVotes, validators, validatorsCount, dailyHolds,
          dailyLimits, dailyBlocked, balance, locked, now, minted, burned, dissent>>

Kinds == {"Transfer", "Limits", "Validator", "Bridge"}
Statuses == {"Withdraw", "Deposit", "Pending", "Approved", "Confirmed", "Canceled",
             "PauseTheBridge", "ResumeTheBridge", "UpdateLimits", "UpdateValidatorSet"}
Terminal == {"Confirmed", "Canceled"}
Days == 0 .. (MaxTime \div DAY)
\* the message ids: set_transfer hashes (from, to, amount, now); the eth
\* address is one fixed address here.  pause/resume hash a fixed string.
WithdrawIds == {<<"withdraw", u, a, t>> : u \in Users, a \in Amounts, t \in 0..MaxTime}
DepositIds == {<<"deposit", d.id>> : d \in Deposits}
PauseId == <<"pause">>
ResumeId == <<"resume">>
\* update_limits hashes (limits, block 0); update_validator_list takes the
\* caller's message_id
LimitIds == {<<"limits", l>> : l \in LimitProposals}
ValidatorIds == {<<"validators", l.id>> : l \in ValidatorLists}
MessageIds == WithdrawIds \cup DepositIds \cup {PauseId, ResumeId} \cup LimitIds \cup ValidatorIds
MAX_VALIDATORS == 100000

\* TransferId::get: an id that was never given a proposal reads the default 0
TransferIdOf(s, id) == IF id \in DOMAIN s.transferId THEN s.transferId[id] ELSE 0
\* TransferMessages::get of an absent id: TransferMessage::default().  Only
\* its status is written on the paths modelled and its other fields are
\* never read, so they are one placeholder each.
DefaultMessage(id) == [id |-> id, substrate |-> "default", amount |-> 0,
                       status |-> "default", action |-> "default"]

-----------------------------------------------------------------------------
(* Storage as one record, and the result of a helper.                      *)

Storage == [bridgeIsOperational |-> bridgeIsOperational, currentLimits |-> currentLimits,
            pendingBurn |-> pendingBurn, pendingMint |-> pendingMint,
            transfers |-> transfers, transferId |-> transferId, messages |-> messages,
            bridgeMessages |-> bridgeMessages, limitMessages |-> limitMessages,
            validatorHistory |-> validatorHistory, quorum |-> quorum, validatorVotes |-> validatorVotes,
            validators |-> validators, validatorsCount |-> validatorsCount,
            dailyHolds |-> dailyHolds, dailyLimits |-> dailyLimits,
            dailyBlocked |-> dailyBlocked, balance |-> balance, locked |-> locked,
            now |-> now, minted |-> minted, burned |-> burned, dissent |-> dissent]

Commit(s) ==
    /\ bridgeIsOperational' = s.bridgeIsOperational /\ currentLimits' = s.currentLimits
    /\ pendingBurn' = s.pendingBurn /\ pendingMint' = s.pendingMint
    /\ transfers' = s.transfers /\ transferId' = s.transferId /\ messages' = s.messages
    /\ bridgeMessages' = s.bridgeMessages /\ limitMessages' = s.limitMessages
    /\ validatorHistory' = s.validatorHistory /\ quorum' = s.quorum
    /\ validatorVotes' = s.validatorVotes
    /\ validators' = s.validators /\ validatorsCount' = s.validatorsCount
    /\ dailyHolds' = s.dailyHolds /\ dailyLimits' = s.dailyLimits
    /\ dailyBlocked' = s.dailyBlocked /\ balance' = s.balance /\ locked' = s.locked
    /\ now' = s.now /\ minted' = s.minted /\ burned' = s.burned
    /\ dissent' = s.dissent

Ok(s) == [ok |-> TRUE, s |-> s]
Err(s) == [ok |-> FALSE, s |-> s]
\* `r?` followed by the rest of the function
AndThen(r, F(_)) == IF r.ok THEN F(r.s) ELSE r

\* unchecked u128 arithmetic of a release build wraps around
Wrap(x) == x % (MaxBalance + 1)

-----------------------------------------------------------------------------
(* The token pallet (spec.md section 6): fails on insufficient funds.      *)

Mint(s, acc, a) ==
    IF s.balance[acc] + a > MaxBalance THEN Err(s)
    ELSE Ok([s EXCEPT !.balance[acc] = @ + a])
Burn(s, acc, a) ==
    IF s.balance[acc] < a THEN Err(s)
    ELSE Ok([s EXCEPT !.balance[acc] = @ - a])
Lock(s, acc, a) ==
    IF s.balance[acc] - s.locked[acc] < a THEN Err(s)
    ELSE Ok([s EXCEPT !.locked[acc] = @ + a])
Unlock(s, acc, a) ==
    IF s.locked[acc] < a THEN Err(s)
    ELSE Ok([s EXCEPT !.locked[acc] = @ - a])

-----------------------------------------------------------------------------
(* Helpers of impl Module.                                                 *)

\* get_day_pair: (yesterday, today)
Yesterday(s) == IF s.now < DAY THEN 0 ELSE s.now \div DAY - 1
Today(s) == s.now \div DAY

\* votes_are_enough: votes as f64 / count as f64 >= 0.51, which for these
\* integers (count 0 giving +inf) is exactly votes * 100 >= count * 51
VotesAreEnough(s, votes) == votes * 100 >= s.validatorsCount * 51

\* update_status: the message map of the proposal's kind
UpdateStatus(s, id, st, kind) ==
    CASE kind = "Transfer" ->
            IF id \in DOMAIN s.messages THEN [s EXCEPT !.messages[id].status = st]
            ELSE [s EXCEPT !.messages = @ @@ (id :> [DefaultMessage(id) EXCEPT !.status = st])]
      [] kind = "Validator" -> [s EXCEPT !.validatorHistory[id].status = st]
      [] kind = "Bridge" -> [s EXCEPT !.bridgeMessages[id].status = st]
      [] kind = "Limits" -> [s EXCEPT !.limitMessages[id].status = st]

\* mutant: the new ProposalId is BridgeTransfersCount - 1
CreateTransferOffByOne(s, id, kind) ==
    LET pid == Cardinality(DOMAIN s.transfers) - 1 IN
    [s EXCEPT !.transfers = (pid :> [messageId |-> id, open |-> TRUE, votes |-> 0, kind |-> kind])
                            @@ @,
              !.transferId = (id :> pid) @@ @]

\* create_transfer (the TransferId guard is re-checked by get_transfer_id_checked)
CreateTransfer(s, id, kind) ==
    LET pid == Cardinality(DOMAIN s.transfers) IN
    [s EXCEPT !.transfers = (pid :> [messageId |-> id, open |-> TRUE, votes |-> 0, kind |-> kind])
                            @@ @,
              !.transferId = (id :> pid) @@ @]

\* get_transfer_id_checked
GetTransferIdChecked(s, id, kind) ==
    IF id \in DOMAIN s.transferId THEN s ELSE CreateTransfer(s, id, kind)

AddPendingBurn(s, a) ==
    IF s.pendingBurn + a > MaxBalance THEN Err(s) ELSE Ok([s EXCEPT !.pendingBurn = @ + a])
AddPendingMint(s, a) ==
    IF s.pendingMint + a > MaxBalance THEN Err(s) ELSE Ok([s EXCEPT !.pendingMint = @ + a])
SubPendingBurn(s, a) ==
    IF s.pendingBurn < a THEN Err(s) ELSE Ok([s EXCEPT !.pendingBurn = @ - a])
SubPendingMint(s, a) ==
    IF s.pendingMint < a THEN Err(s) ELSE Ok([s EXCEPT !.pendingMint = @ - a])

\* set_pending
SetPending(s, pid, kind) ==
    LET id == s.transfers[pid].messageId
        r == IF kind = "Transfer"
             THEN CASE s.messages[id].action = "Withdraw" -> AddPendingBurn(s, s.messages[id].amount)
                    [] s.messages[id].action = "Deposit" -> AddPendingMint(s, s.messages[id].amount)
             ELSE Ok(s)
    IN AndThen(r, LAMBDA t: Ok(UpdateStatus(t, id, "Pending", kind)))

\* mutant: the second round keeps the first round's ValidatorVotes
ReopenKeepVotes(s, id) ==
    LET pid == TransferIdOf(s, id) IN
    IF ~s.transfers[pid].open /\ s.messages[id].status \in Terminal
    THEN [s EXCEPT !.transfers[pid].votes = 0, !.transfers[pid].open = TRUE]
    ELSE s

\* reopen_for_burn_confirmation: votes are cleared for the genesis
\* ValidatorAccounts list only
ReopenForBurnConfirmation(s, id) ==
    LET pid == TransferIdOf(s, id) IN
    IF ~s.transfers[pid].open /\ s.messages[id].status \in Terminal
    THEN [s EXCEPT !.transfers[pid].votes = 0,
                   !.transfers[pid].open = TRUE,
                   !.validatorVotes = @ \ ({pid} \X ValidatorAccounts)]
    ELSE s

CheckValidator(s, v) == v \in s.validators

\* check_amount: strict bounds
CheckAmount(s, a) == a > s.currentLimits.min_tx_value /\ a < s.currentLimits.max_tx_value

\* check_pending_burn / check_pending_mint: checked_add, then strictly below the cap
CheckPending(s, pending, a) ==
    pending + a <= MaxBalance /\ pending + a < s.currentLimits.max_pending_tx_limit

\* check_daily_account_volume: the blocklist write stays even though the
\* call then fails
CheckDailyAccountVolume(s, acc, a) ==
    LET canBurn == Wrap(s.dailyLimits[acc] + a) < s.currentLimits.day_max_limit_for_one_address
        today == Today(s)
        userBlocked == acc \in s.dailyBlocked[today]
        t == IF canBurn THEN s ELSE [s EXCEPT !.dailyBlocked[today] = @ \cup {acc}]
    IN IF canBurn /\ ~userBlocked THEN Ok(t) ELSE Err(t)

\* mutant: 75% of the balance without the truncating division first
CheckDailyHoldsExact(s, id) ==
    LET m == s.messages[id]
        allowed == (s.balance[m.substrate] * 75) \div 100
    IN IF m.amount > allowed
       THEN Err(UpdateStatus(s, id, "Canceled", "Transfer"))
       ELSE Ok(s)

\* check_daily_holds: DailyHolds stores block number 0 and the test
\* `0 + DAY_IN_BLOCKS < 0` over block numbers never holds, so the 75% rule
\* applies to every withdrawal; a violation cancels the message and fails.
CheckDailyHolds(s, id) ==
    LET m == s.messages[id]
        firstTx == IF m.substrate \in DOMAIN s.dailyHolds THEN s.dailyHolds[m.substrate] ELSE 0
        dayPassed == firstTx + DAY_IN_BLOCKS < 0
        allowed == (s.balance[m.substrate] \div 100) * 75
    IN IF ~dayPassed /\ m.amount > allowed
       THEN Err(UpdateStatus(s, id, "Canceled", "Transfer"))
       ELSE Ok(s)

-----------------------------------------------------------------------------
(* The effects dispatched at quorum.  `m` is _sign's local copy of the     *)
(* message, whose status may differ from the stored one.                  *)

\* mutant: the trailing update_status(Confirmed) is missing
DepositNoConfirm(s, m) ==
    LET r1 == SubPendingMint(s, m.amount)
        r2 == AndThen(r1, LAMBDA t: Mint(t, m.substrate, m.amount))
    IN AndThen(r2, LAMBDA t: Ok([t EXCEPT !.minted = @ (+) SetToBag({m.id})]))

\* deposit: execute the mint
Deposit(s, m) ==
    LET r1 == SubPendingMint(s, m.amount)
        r2 == AndThen(r1, LAMBDA t:
                IF m.substrate \in DOMAIN t.dailyHolds THEN Ok(t)
                ELSE Ok([t EXCEPT !.dailyHolds = (m.substrate :> 0) @@ @]))
        r3 == AndThen(r2, LAMBDA t: Mint(t, m.substrate, m.amount))
    IN AndThen(r3, LAMBDA t:
         Ok(UpdateStatus([t EXCEPT !.minted = @ (+) SetToBag({m.id})], m.id, "Confirmed", "Transfer")))

\* lock_for_burn
LockForBurn(s, m) == Lock(s, m.substrate, m.amount)

\* withdraw: 75% rule, release the pending volume, lock the funds
Withdraw(s, m) ==
    LET r1 == CheckDailyHolds(s, m.id)
        r2 == AndThen(r1, LAMBDA t: SubPendingBurn(t, m.amount))
        r3 == AndThen(r2, LAMBDA t: LockForBurn(t, m))
    IN AndThen(r3, LAMBDA t: Ok(UpdateStatus(t, m.id, "Approved", "Transfer")))

\* _cancel_transfer
CancelEffect(s, m) ==
    AndThen(Unlock(s, m.substrate, m.amount), LAMBDA t:
        Ok(UpdateStatus(t, m.id, "Canceled", "Transfer")))

\* execute_burn: re-reads the message from storage
ExecuteBurn(s, id) ==
    LET m == s.messages[id]
        r1 == Unlock(s, m.substrate, m.amount)
        r2 == AndThen(r1, LAMBDA t: Burn(t, m.substrate, m.amount))
    IN AndThen(r2, LAMBDA t:
         Ok([t EXCEPT !.dailyLimits[m.substrate] = Wrap(@ - m.amount),
                      !.burned = @ (+) SetToBag({id})]))

\* execute_transfer: dispatch on (action, status)
ExecuteTransfer(s, m) ==
    CASE m.action = "Deposit" /\ m.status = "Approved" -> Deposit(s, m)
      [] m.action = "Deposit" /\ m.status = "Canceled" -> CancelEffect(s, m)
      [] m.action = "Withdraw" /\ m.status = "Confirmed" -> ExecuteBurn(s, m.id)
      [] m.action = "Withdraw" /\ m.status = "Approved" -> Withdraw(s, m)
      [] m.action = "Withdraw" /\ m.status = "Canceled" -> CancelEffect(s, m)
      [] OTHER -> Err(s)

PauseTheBridge(s, id) ==
    Ok(UpdateStatus([s EXCEPT !.bridgeIsOperational = FALSE], id, "Confirmed", "Bridge"))
ResumeTheBridge(s, id) ==
    Ok(UpdateStatus([s EXCEPT !.bridgeIsOperational = TRUE], id, "Confirmed", "Bridge"))

\* manage_bridge: _sign's local copy of the BridgeMessage is Approved
ManageBridge(s, id) ==
    IF s.bridgeMessages[id].action = "PauseTheBridge" THEN PauseTheBridge(s, id)
    ELSE ResumeTheBridge(s, id)

\* check_limits: every limit strictly between Balance::min_value() and
\* max_value()
CheckLimits(l) == \A f \in DOMAIN l : l[f] > 0 /\ l[f] < MaxBalance

\* _update_limits
UpdateLimitsEffect(s, id) ==
    LET l == s.limitMessages[id].limits IN
    IF ~CheckLimits(l) THEN Err(s)
    ELSE Ok(UpdateStatus([s EXCEPT !.currentLimits = l], id, "Confirmed", "Limits"))

\* manage_validator_list: the count is the length of the list (duplicates
\* included) and the accounts are only ever added to Validators
ManageValidatorList(s, id) ==
    LET info == s.validatorHistory[id]
        accounts == {info.accounts[i] : i \in DOMAIN info.accounts}
    IN IF ~(Len(info.accounts) < MAX_VALIDATORS) THEN Err(s)
       ELSE Ok(UpdateStatus([s EXCEPT !.quorum = info.quorum,
                                      !.validatorsCount = Len(info.accounts),
                                      !.validators = @ \cup accounts], id, "Confirmed", "Validator"))

\* the effect _sign dispatches on the proposal's kind at quorum; `local`
\* is its copy of the TransferMessage status
Dispatch(s, pid, local) ==
    LET id == s.transfers[pid].messageId IN
    CASE s.transfers[pid].kind = "Transfer" -> ExecuteTransfer(s, [s.messages[id] EXCEPT !.status = local])
      [] s.transfers[pid].kind = "Limits" -> UpdateLimitsEffect(s, id)
      [] s.transfers[pid].kind = "Validator" -> ManageValidatorList(s, id)
      [] s.transfers[pid].kind = "Bridge" -> ManageBridge(s, id)

\* mutant: `transfer.open = false` outside the quorum branch
SignClosesEarly(s, v, pid) ==
    LET t == s.transfers[pid]
        id == t.messageId
        status == IF t.kind = "Transfer" THEN s.messages[id].status ELSE "Withdraw"
        votes == t.votes + 1
        enough == VotesAreEnough(s, votes)
        local == IF status \in Terminal THEN status ELSE "Approved"
        r == IF enough THEN Dispatch(s, pid, local)
             ELSE IF status \in Terminal THEN Ok(s) ELSE SetPending(s, pid, t.kind)
    IN IF <<pid, v>> \in s.validatorVotes \/ ~t.open THEN Err(s)
       ELSE AndThen(r, LAMBDA u:
              Ok([u EXCEPT !.validatorVotes = @ \cup {<<pid, v>>},
                           !.transfers[pid] = [t EXCEPT !.votes = votes, !.open = FALSE]]))

\* _sign: the vote.  For a non-Transfer proposal `message` is the default
\* TransferMessage, whose status is not terminal.
Sign(s, v, pid) ==
    LET t == s.transfers[pid]
        id == t.messageId
        status == IF t.kind = "Transfer" THEN s.messages[id].status ELSE "Withdraw"
        votes == t.votes + 1
        enough == VotesAreEnough(s, votes)
        local == IF status \in Terminal THEN status ELSE "Approved"
        r == IF enough THEN Dispatch(s, pid, local)
             ELSE IF status \in Terminal THEN Ok(s) ELSE SetPending(s, pid, t.kind)
    IN IF <<pid, v>> \in s.validatorVotes \/ ~t.open THEN Err(s)
       ELSE AndThen(r, LAMBDA u:
              Ok([u EXCEPT !.validatorVotes = @ \cup {<<pid, v>>},
                           !.transfers[pid] = [t EXCEPT !.votes = votes, !.open = ~enough]]))

-----------------------------------------------------------------------------
(* The dispatchables.  `...Call(s, ...)` is the call on storage `s` and     *)
(* its result; an `ensure!` or `?` that fails before any write returns     *)
(* Err(s).  The action of a call commits the storage of its result.        *)

\* set_transfer(to, token_id, amount) signed by `from`
\* mutant: the message is stored without get_transfer_id_checked
SetTransferCallNoProposal(s, from, a) ==
    LET id == <<"withdraw", from, a, s.now>> IN
    IF ~s.bridgeIsOperational \/ ~CheckAmount(s, a) \/ ~CheckPending(s, s.pendingBurn, a)
    THEN Err(s)
    ELSE AndThen(CheckDailyAccountVolume(s, from, a), LAMBDA u:
           Ok([u EXCEPT !.dailyLimits[from] = Wrap(@ + a),
                        !.messages = (id :> [id |-> id, substrate |-> from, amount |-> a,
                                            status |-> "Withdraw", action |-> "Withdraw"])
                                     @@ @]))

SetTransferCall(s, from, a) ==
    LET id == <<"withdraw", from, a, s.now>> IN
    IF ~s.bridgeIsOperational \/ ~CheckAmount(s, a) \/ ~CheckPending(s, s.pendingBurn, a)
    THEN Err(s)
    ELSE AndThen(CheckDailyAccountVolume(s, from, a), LAMBDA t:
           LET u == GetTransferIdChecked(t, id, "Transfer") IN
           Ok([u EXCEPT !.dailyLimits[from] = Wrap(@ + a),
                        !.messages = (id :> [id |-> id, substrate |-> from, amount |-> a,
                                            status |-> "Withdraw", action |-> "Withdraw"])
                                     @@ @]))

\* multi_signed_mint(message_id, from, to, token_id, amount) by validator v:
\* the message stored is the one of the first call with this message_id
MultiSignedMintCall(s, v, d) ==
    LET id == <<"deposit", d.id>>
        t == IF id \in DOMAIN s.messages THEN s
             ELSE GetTransferIdChecked(
                    [s EXCEPT !.messages = (id :> [id |-> id, substrate |-> d.to, amount |-> d.amount,
                                                   status |-> "Deposit", action |-> "Deposit"]) @@ @],
                    id, "Transfer")
        pid == t.transferId[id]
        r == Sign(t, v, pid)
    IN IF ~s.bridgeIsOperational \/ ~CheckValidator(s, v)
          \/ ~CheckPending(s, s.pendingMint, d.amount) \/ ~CheckAmount(s, d.amount)
       THEN Err(s)
       ELSE [r EXCEPT !.s.dissent =
               IF /\ <<pid, v>> \in r.s.validatorVotes \ t.validatorVotes
                  /\ <<t.messages[id].substrate, t.messages[id].amount>> # <<d.to, d.amount>>
               THEN @ \cup {<<v, d>>} ELSE @]

\* approve_transfer(message_id) by validator v
ApproveTransferCall(s, v, id) ==
    IF ~s.bridgeIsOperational \/ ~CheckValidator(s, v) THEN Err(s)
    ELSE Sign(s, v, s.transferId[id])

\* update_limits(limits) by validator v: the message id depends on the
\* limits alone
UpdateLimitsCall(s, v, l) ==
    LET id == <<"limits", l>>
        t == IF id \in DOMAIN s.limitMessages THEN s
             ELSE GetTransferIdChecked(
                    [s EXCEPT !.limitMessages = (id :> [limits |-> l, status |-> "UpdateLimits"]) @@ @],
                    id, "Limits")
    IN IF ~CheckValidator(s, v) \/ ~CheckLimits(l) THEN Err(s)
       ELSE Sign(t, v, t.transferId[id])

\* update_validator_list(message_id, quorum, accounts) by validator v: the
\* list stored is the one of the first call with this message_id
UpdateValidatorListCall(s, v, l) ==
    LET id == <<"validators", l.id>>
        t == IF id \in DOMAIN s.validatorHistory THEN s
             ELSE GetTransferIdChecked(
                    [s EXCEPT !.validatorHistory = (id :> [quorum |-> l.quorum, accounts |-> l.accounts,
                                                           status |-> "UpdateValidatorSet"]) @@ @],
                    id, "Validator")
    IN IF ~CheckValidator(s, v) THEN Err(s) ELSE Sign(t, v, t.transferId[id])

\* mutant: confirm_transfer without the BridgeIsOperational check
ConfirmTransferCallNoPauseCheck(s, v, id) ==
    LET t == ReopenForBurnConfirmation(UpdateStatus(s, id, "Confirmed", "Transfer"), id) IN
    IF ~CheckValidator(s, v) \/ s.messages[id].status \notin {"Approved", "Confirmed"}
    THEN Err(s)
    ELSE Sign(t, v, s.transferId[id])

\* confirm_transfer(message_id): the message must be Approved or Confirmed
ConfirmTransferCall(s, v, id) ==
    LET t == ReopenForBurnConfirmation(UpdateStatus(s, id, "Confirmed", "Transfer"), id) IN
    IF ~s.bridgeIsOperational \/ ~CheckValidator(s, v)
       \/ s.messages[id].status \notin {"Approved", "Confirmed"}
    THEN Err(s)
    ELSE Sign(t, v, s.transferId[id])

\* cancel_transfer(message_id): refused once the message is Confirmed.  No
\* pause check, and any hash is accepted: for one with no TransferId the
\* status write inserts a default message and the reopen and the vote both
\* read proposal 0.
CancelTransferCall(s, v, id) ==
    LET hasBurned == id \in DOMAIN s.messages /\ s.messages[id].status = "Confirmed"
        t == ReopenForBurnConfirmation(UpdateStatus(s, id, "Canceled", "Transfer"), id)
    IN IF ~CheckValidator(s, v) \/ hasBurned THEN Err(s)
       ELSE Sign(t, v, TransferIdOf(s, id))

\* pause_bridge / resume_bridge: one fixed message id each
BridgeVote(s, v, id, action) ==
    LET t == IF id \in DOMAIN s.bridgeMessages THEN s
             ELSE GetTransferIdChecked(
                    [s EXCEPT !.bridgeMessages = (id :> [action |-> action, status |-> action]) @@ @],
                    id, "Bridge")
    IN Sign(t, v, t.transferId[id])

PauseBridgeCall(s, v) ==
    IF ~CheckValidator(s, v) \/ ~s.bridgeIsOperational THEN Err(s)
    ELSE BridgeVote(s, v, PauseId, "PauseTheBridge")

ResumeBridgeCall(s, v) ==
    IF ~CheckValidator(s, v) THEN Err(s)
    ELSE BridgeVote(s, v, ResumeId, "ResumeTheBridge")

\* on_finalize: clear the daily volume of the accounts blocked yesterday
OnFinalize(s) ==
    LET y == Yesterday(s)
        blocked == s.dailyBlocked[y]
    IN IF blocked # {} /\ Today(s) # y
       THEN [s EXCEPT !.dailyLimits = [a \in Accounts |-> IF a \in blocked THEN 0 ELSE @[a]],
                      !.dailyBlocked[y] = {}]
       ELSE s

\* the actions: a signed origin calls a dispatchable
SetTransfer(from, a) == Commit(SetTransferCall(Storage, from, a).s)
MultiSignedMint(v, d) == Commit(MultiSignedMintCall(Storage, v, d).s)
ApproveTransfer(v, id) == Commit(ApproveTransferCall(Storage, v, id).s)
UpdateLimits(v, l) == Commit(UpdateLimitsCall(Storage, v, l).s)
UpdateValidatorList(v, l) == Commit(UpdateValidatorListCall(Storage, v, l).s)
ConfirmTransfer(v, id) == Commit(ConfirmTransferCall(Storage, v, id).s)
CancelTransfer(v, id) == Commit(CancelTransferCall(Storage, v, id).s)
PauseBridge(v) == Commit(PauseBridgeCall(Storage, v).s)
ResumeBridge(v) == Commit(ResumeBridgeCall(Storage, v).s)

\* on_finalize of the block, then the next block's timestamp
FinalizeBlock ==
    /\ now < MaxTime
    /\ Commit([OnFinalize(Storage) EXCEPT !.now = @ + 1])

-----------------------------------------------------------------------------

Init ==
    /\ bridgeIsOperational = TRUE
    /\ currentLimits = InitLimits
    /\ pendingBurn = 0 /\ pendingMint = 0
    /\ transfers = << >> /\ transferId = << >>
    /\ messages = << >> /\ bridgeMessages = << >>
    /\ limitMessages = << >> /\ validatorHistory = << >> /\ quorum = 2
    /\ validatorVotes = {}
    /\ validators = ValidatorAccounts /\ validatorsCount = ValidatorsCount0
    /\ dailyHolds = << >>
    /\ dailyLimits = [a \in Accounts |-> 0]
    /\ dailyBlocked = [d \in Days |-> {}]
    /\ balance = InitBalance /\ locked = [a \in Accounts |-> 0]
    /\ now = 0
    /\ minted = EmptyBag /\ burned = EmptyBag
    /\ dissent = {}

Next ==
    \/ \E u \in Users, a \in Amounts : SetTransfer(u, a)
    \/ \E v \in Accounts, d \in Deposits : MultiSignedMint(v, d)
    \/ \E v \in Accounts, id \in DOMAIN transferId : ApproveTransfer(v, id)
    \/ \E v \in Accounts, id \in DOMAIN messages : ConfirmTransfer(v, id)
    \/ \E v \in Accounts, id \in DOMAIN messages \cup UnknownHashes :
          TransferIdOf(Storage, id) \in DOMAIN transfers /\ CancelTransfer(v, id)
    \/ \E v \in BridgeVoters : PauseBridge(v) \/ ResumeBridge(v)
    \/ \E v \in Accounts, l \in LimitProposals : UpdateLimits(v, l)
    \/ \E v \in Accounts, l \in ValidatorLists : UpdateValidatorList(v, l)
    \/ FinalizeBlock

Spec == Init /\ [][Next]_vars

-----------------------------------------------------------------------------
(* Properties.                                                             *)

Proposal == [messageId : MessageIds, open : BOOLEAN, votes : Nat, kind : Kinds]
Message == [id : WithdrawIds \cup DepositIds, substrate : Accounts, amount : Nat,
            status : Statuses, action : {"Withdraw", "Deposit"}]

TypeOK ==
    /\ bridgeIsOperational \in BOOLEAN
    /\ pendingBurn \in 0..MaxBalance /\ pendingMint \in 0..MaxBalance
    /\ DOMAIN transfers = 0..(Cardinality(DOMAIN transfers) - 1)
    /\ \A pid \in DOMAIN transfers : transfers[pid] \in Proposal
    /\ DOMAIN transferId \subseteq MessageIds
    /\ \A id \in DOMAIN messages :
          \/ id \in DOMAIN transferId /\ messages[id] \in Message
          \/ id \in UnknownHashes /\ messages[id] = [DefaultMessage(id) EXCEPT !.status = "Canceled"]
    /\ validatorVotes \subseteq (DOMAIN transfers) \X Accounts
    /\ dailyLimits \in [Accounts -> 0..MaxBalance]
    /\ dailyBlocked \in [Days -> SUBSET Accounts]
    /\ balance \in [Accounts -> 0..MaxBalance] /\ locked \in [Accounts -> 0..MaxBalance]
    /\ now \in 0..MaxTime
    /\ \A id \in DOMAIN limitMessages \cup DOMAIN validatorHistory : id \in DOMAIN transferId
    /\ validators \subseteq Accounts
    /\ dissent \subseteq Accounts \X Deposits

\* the validators whose vote on proposal pid is stored (ValidatorVotes = true)
Voters(pid) == {v \in Accounts : <<pid, v>> \in validatorVotes}

\* _sign keeps BridgeTransfer.votes and ValidatorVotes in step, and
\* reopen_for_burn_confirmation clears both: a proposal's vote count is the
\* number of distinct validators recorded as having voted on it.
VotesMatchRecorded ==
    \A pid \in DOMAIN transfers : transfers[pid].votes = Cardinality(Voters(pid))

\* The deposit lifecycle of DepositAbstract, read from storage: a deposit
\* id with no TransferMessage is "none"; one whose message is Confirmed has
\* been minted and one whose message is Canceled was canceled; Deposit or
\* Pending is "requested".  The content is the stored message and the
\* credit of an account the sum of the deposits minted to it (the minted
\* bag counts every mint, so a second mint of one id shows as a credit no
\* abstract step makes).
AbstractDepositStatus(e) ==
    LET id == <<"deposit", e>> IN
    IF id \notin DOMAIN messages THEN "none"
    ELSE CASE messages[id].status = "Confirmed" -> "minted"
           [] messages[id].status = "Canceled" -> "canceled"
           [] OTHER -> "requested"
AbstractDepositContent(e) ==
    LET id == <<"deposit", e>> IN
    IF id \notin DOMAIN messages THEN [id |-> "none", to |-> "none", amount |-> 0]
    ELSE [id |-> e, to |-> messages[id].substrate, amount |-> messages[id].amount]
AbstractCredited(a) ==
    MapThenSumSet(LAMBDA id : CopiesIn(id, minted) * messages[id].amount,
                  {id \in BagToSet(minted) : messages[id].substrate = a})

DepositSpec == INSTANCE DepositAbstract
    WITH dstatus <- [e \in {d.id : d \in Deposits} |-> AbstractDepositStatus(e)],
         content <- [e \in {d.id : d \in Deposits} |-> AbstractDepositContent(e)],
         credited <- [a \in Accounts |-> AbstractCredited(a)]

\* multi_signed_mint, deposit() and cancel_transfer implement the deposit
\* lifecycle: a deposit's recipient and amount are fixed by the first
\* attestation, it is minted at most once and only from Deposit/Pending
\* (never after a cancel, never again from the second voting round a
\* confirm_transfer opens on a Confirmed deposit), and a minted deposit is
\* never canceled.
BridgeRefinesDeposits == DepositSpec!DSpec

\* _sign closes a proposal only when votes_are_enough: whenever a step closes
\* a proposal (one it may have created in the same call), the distinct
\* validators recorded for it reach 51% of the ValidatorsCount the vote was
\* counted against (the count before the step: a closing
\* update_validator_list vote changes it).
ClosedByQuorum ==
    [][\A pid \in DOMAIN transfers' :
          (pid \in DOMAIN transfers => transfers[pid].open) /\ ~transfers'[pid].open =>
              Cardinality({v \in Accounts : <<pid, v>> \in validatorVotes'}) * 100
                  >= validatorsCount * 51]_vars

\* set_transfer, multi_signed_mint, approve_transfer and confirm_transfer
\* check BridgeIsOperational (spec.md section 2: the flag gates every
\* transfer-initiating operation): while the bridge is paused no step
\* mints, burns or escrows tokens.  cancel_transfer has no such check.
NoSupplyChangeWhilePaused ==
    [][~bridgeIsOperational =>
          /\ minted' = minted /\ burned' = burned
          /\ \A a \in Accounts : locked'[a] <= locked[a]]_vars

\* the withdraw messages of account u in one of the statuses sts
WithdrawalsIn(u, sts) ==
    {id \in DOMAIN messages \cap WithdrawIds :
        messages[id].substrate = u /\ messages[id].status \in sts}
AmountOf(ids) == MapThenSumSet(LAMBDA id : messages[id].amount, ids)

\* spec.md section 3: CurrentPendingBurn equals the sum of the amounts of the
\* withdrawals in Pending status (set_pending adds, withdraw subtracts).
PendingBurnMatchesPending ==
    pendingBurn = AmountOf(UNION {WithdrawalsIn(u, {"Pending"}) : u \in Users})

\* withdraw() locks the amount of every approved withdrawal until
\* execute_burn or _cancel_transfer of that same message unlocks it: an
\* account's escrow covers all of its Approved withdrawals.
EscrowCoversApproved ==
    \A u \in Users : locked[u] >= AmountOf(WithdrawalsIn(u, {"Approved"}))

\* execute_burn runs at the quorum of the confirmation round; the round a
\* repeated confirm_transfer reopens on a Confirmed withdrawal must not burn
\* the same transfer again.
BurnedAtMostOnce == \A id \in BagToSet(burned) : CopiesIn(id, burned) <= 1

\* spec.md 4.1/4.2: once a withdrawal has been approved (its funds locked)
\* its message only moves on to Confirmed or Canceled; no call returns it to
\* the Withdraw or Pending status of an unapproved transfer.
ApprovedWithdrawalNeverReverts ==
    [][\A id \in DOMAIN messages \cap WithdrawIds :
          messages[id].status \in {"Approved"} \cup Terminal =>
              messages'[id].status \in {"Approved"} \cup Terminal]_vars

\* pause_bridge is the validators' brake: while the bridge runs, a pause
\* proposal can still be voted on (none exists yet, or it is open).
BridgeCanBePaused ==
    bridgeIsOperational =>
        PauseId \notin DOMAIN transferId \/ transfers[transferId[PauseId]].open

\* the bridge's trust assumption: a deposit is minted as a quorum of
\* validators attested it, so a multi_signed_mint vote is counted only for
\* the recipient and amount the validator passed.
VotesCountForTheirContent == dissent = {}

\* check_daily_account_volume admits a withdrawal only while the account's
\* DailyLimits plus the amount stays below day_max_limit_for_one_address,
\* execute_burn takes burned amounts off again and on_finalize clears the
\* counter of the accounts blocked the day before: the daily volume an
\* account has pending stays below its per-address cap.
DailyVolumeBelowCap ==
    \A u \in Users : dailyLimits[u] < currentLimits.day_max_limit_for_one_address

=============================================================================
