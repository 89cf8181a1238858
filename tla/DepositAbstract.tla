--------------------------- MODULE DepositAbstract ---------------------------
(***************************************************************************)
(* What the bridge promises for an Ethereum -> Substrate deposit, without  *)
(* validators, votes or storage layout: a deposit id is requested once,    *)
(* with one recipient and amount, and then either minted (crediting that   *)
(* recipient with that amount, once) or canceled; neither outcome is ever  *)
(* undone.                                                                 *)
(***************************************************************************)
EXTENDS Integers

CONSTANTS Deposits, Accounts

DepositKeys == {d.id : d \in Deposits}
NoDeposit == [id |-> "none", to |-> "none", amount |-> 0]

VARIABLES
    dstatus,   \* deposit id -> "none", "requested", "minted" or "canceled"
    content,   \* deposit id -> the deposit requested (NoDeposit before)
    credited   \* account -> the total minted to it by deposits

dvars == <<dstatus, content, credited>>

\* a validator's first multi_signed_mint for the id stores its content
Request(d) ==
    /\ dstatus[d.id] = "none"
    /\ dstatus' = [dstatus EXCEPT ![d.id] = "requested"]
    /\ content' = [content EXCEPT ![d.id] = d]
    /\ UNCHANGED credited

\* the quorum mints the stored content
MintDeposit(e) ==
    /\ dstatus[e] = "requested"
    /\ dstatus' = [dstatus EXCEPT ![e] = "minted"]
    /\ credited' = [credited EXCEPT ![content[e].to] = @ + content[e].amount]
    /\ UNCHANGED content

\* cancel_transfer on a deposit that is not minted
CancelDeposit(e) ==
    /\ dstatus[e] = "requested"
    /\ dstatus' = [dstatus EXCEPT ![e] = "canceled"]
    /\ UNCHANGED <<content, credited>>

DInit ==
    /\ dstatus = [e \in DepositKeys |-> "none"]
    /\ content = [e \in DepositKeys |-> NoDeposit]
    /\ credited = [a \in Accounts |-> 0]

DNext ==
    \/ \E d \in Deposits : Request(d)
    \/ \E e \in DepositKeys : MintDeposit(e) \/ CancelDeposit(e)

DSpec == DInit /\ [][DNext]_dvars

=============================================================================
