------------------------------- MODULE Escrow -------------------------------
(***************************************************************************)
(* The milestone escrow engine: one Escrow account per escrow id, its SOL  *)
(* vault PDA and its SPL token accounts, driven by employers, employees,   *)
(* the platform key and anyone at all, next to the Config account.  A      *)
(* transaction is atomic on Solana, so each handler is one action and the  *)
(* interleaving of actions is the interleaving of transactions; a handler  *)
(* that returns an error changes nothing.                                  *)
(***************************************************************************)
EXTENDS Vaults

CONSTANTS
    EscrowIds,           \* escrow PDAs (one per escrow_id seed)
    Amounts,             \* worker amounts passed to create_escrow
    Shares,              \* employee_share arguments
    MinDisputeWindow,    \* MIN_DISPUTE_DEADLINE_DURATION
    MaxDisputeWindow,    \* MAX_DISPUTE_DEADLINE_DURATION
    RentMin,             \* rent-exempt minimum of a data-less account
    MaxU64,              \* u64::MAX
    DustAmounts,         \* amounts outsiders send straight to a vault
    MaxDust,             \* bound: most dust outsiders leave in a vault
    MaxTime              \* bound: the clock stops here

ASSUME EscrowAssumption ==
    /\ Amounts \subseteq Nat /\ Shares \subseteq Nat
    /\ DustAmounts \subseteq Nat
    /\ MinDisputeWindow \in Nat /\ MaxDisputeWindow \in Nat
    /\ RentMin \in Nat /\ MaxU64 \in Nat /\ MaxDust \in Nat /\ MaxTime \in Nat
    /\ MinDisputeWindow > 0

VARIABLES
    now,       \* Clock::get()?.unix_timestamp
    escrow,    \* the Escrow account of each id
    vault,     \* what each vault account of each id holds
    ata,       \* <<id, account>> pairs: the token accounts that exist
    paid,      \* auxiliary: paid out of the vault in the current life of the id
    settledBy  \* auxiliary: who signed the transaction that settled the id

custody == <<escrow, vault, ata, paid, settledBy>>
vars == <<config, now, escrow, vault, ata, paid, settledBy>>

Statuses ==
    { "Absent", "Created", "Funded", "PendingRelease", "Released",
      "Disputed", "Resolved", "Cancelled" }

Keys == Wallets \cup {Nobody}

\* The Escrow account; "Absent" is an address with no account.  Left out: ids,
\* group and kind tags, terms hash, reason texts, bumps, created_at,
\* completed_at and auto_release_at, none of which any handler reads again.
EscrowRecord ==
    [ status : Statuses,
      employer : Keys, employee : Keys, platform_authority : Keys,
      fee_recipient : Keys, token_mint : Assets \cup {Nobody},
      amount : Nat, commission_amount : Nat, commission_rate_bps : Nat,
      released_to_employee : Nat, funded_at : Nat,
      employer_confirmed : BOOLEAN, employee_confirmed : BOOLEAN,
      release_initiator : Keys, dispute_raised_by : Keys,
      dispute_raised_at : Nat, dispute_deadline : Nat,
      dispute_resolved_by : Keys, dispute_resolved_at : Nat,
      employee_share_resolved : Nat, employer_share_resolved : Nat,
      cancelled_by : Keys ]

BlankEscrow ==
    [ status |-> "Absent",
      employer |-> Nobody, employee |-> Nobody, platform_authority |-> Nobody,
      fee_recipient |-> Nobody, token_mint |-> Nobody,
      amount |-> 0, commission_amount |-> 0, commission_rate_bps |-> 0,
      released_to_employee |-> 0, funded_at |-> 0,
      employer_confirmed |-> FALSE, employee_confirmed |-> FALSE,
      release_initiator |-> Nobody, dispute_raised_by |-> Nobody,
      dispute_raised_at |-> 0, dispute_deadline |-> 0,
      dispute_resolved_by |-> Nobody, dispute_resolved_at |-> 0,
      employee_share_resolved |-> 0, employer_share_resolved |-> 0,
      cancelled_by |-> Nobody ]

Payments == [employee : Nat, employer : Nat, treasury : Nat]

NoPayments == [employee |-> 0, employer |-> 0, treasury |-> 0]

Terminal == {"Released", "Resolved", "Cancelled"}

IsNative(id) == escrow[id].token_mint = SOL

\* total_deposit, whose checked_add fails above u64::MAX.
TotalDeposit(e) == e.amount + e.commission_amount

RemainingWorkerAmount(e) == SaturatingSub(e.amount, e.released_to_employee)

RemainingCommission(e) ==
    SaturatingSub(e.commission_amount,
                  CalculateCommission(e.released_to_employee, e.commission_rate_bps))

\* Balance of the vault that was funded: the lamports of the vault PDA, or the
\* associated token account of the mint.
Vault(id) == vault[id][escrow[id].token_mint]

VaultTokenAccountExists(id) == <<id, escrow[id].token_mint>> \in ata

-----------------------------------------------------------------------------
(***************************************************************************)
(* Creation and funding.                                                   *)
(***************************************************************************)

\* Fault: the pause flag is never read.
PauseIgnored == TRUE

\* The pause gate of the handlers that take money in.
NewMoneyAllowed == ~config.paused

\* `init` fails on an address that already holds an account, so an id can be
\* created again only after its account was closed.
CreateEscrow(id, employer, employee, mint, amount, rate) ==
    /\ escrow[id].status = "Absent"
    /\ ConfigExists /\ config.platform_authority # Nobody
    /\ amount > 0 /\ amount <= MaxU64
    /\ rate <= MaxCommissionRateBps
    /\ employer # employee
    /\ config.platform_authority \notin {employer, employee}
    /\ NewMoneyAllowed
    /\ IsMintAllowed(mint)
    /\ escrow' = [escrow EXCEPT ![id] =
           [ BlankEscrow EXCEPT
               !.status = "Created",
               !.employer = employer, !.employee = employee,
               !.platform_authority = config.platform_authority,
               !.fee_recipient = config.fee_recipient,
               !.token_mint = mint, !.amount = amount,
               !.commission_amount = CalculateCommission(amount, rate),
               !.commission_rate_bps = rate ]]
    /\ UNCHANGED <<vault, ata, paid, settledBy>>

\* A balance is a u64 as well: a transfer that would overflow it fails.
Deposit(id, signer) ==
    /\ escrow[id].status = "Created"
    /\ signer = escrow[id].employer
    /\ NewMoneyAllowed
    /\ Vault(id) + TotalDeposit(escrow[id]) <= MaxU64
    /\ vault' = [vault EXCEPT ![id][escrow[id].token_mint] =
                                  @ + TotalDeposit(escrow[id])]
    /\ escrow' = [escrow EXCEPT ![id].status = "Funded",
                                ![id].funded_at = now]
    /\ UNCHANGED <<paid, settledBy>>

\* The runtime refuses to leave a lamport account above zero and below the
\* rent-exempt minimum.
DepositSol(id, signer) ==
    /\ IsNative(id)
    /\ Vault(id) + TotalDeposit(escrow[id]) >= RentMin
    /\ Deposit(id, signer)
    /\ UNCHANGED ata

\* The associated account is created if it does not exist yet.
DepositToken(id, signer) ==
    /\ ~IsNative(id)
    /\ Deposit(id, signer)
    /\ ata' = ata \cup {<<id, escrow[id].token_mint>>}

-----------------------------------------------------------------------------
(***************************************************************************)
(* Confirmation, dispute and rotation: no money moves.                     *)
(***************************************************************************)

\* Fault: any account that left Created can be confirmed.
ConfirmableEver(e) == e.status \notin {"Absent", "Created"}

Confirmable(e) == e.status \in {"Funded", "PendingRelease"}

\* The first confirmation advances a Funded escrow to PendingRelease.
ConfirmCompletion(id, signer) ==
    /\ Confirmable(escrow[id])
    /\ \/ /\ signer = escrow[id].employer
          /\ ~escrow[id].employer_confirmed
          /\ escrow' = [escrow EXCEPT ![id].employer_confirmed = TRUE,
                                      ![id].status = "PendingRelease"]
       \/ /\ signer = escrow[id].employee
          /\ signer # escrow[id].employer
          /\ ~escrow[id].employee_confirmed
          /\ escrow' = [escrow EXCEPT ![id].employee_confirmed = TRUE,
                                      ![id].status = "PendingRelease"]
    /\ UNCHANGED <<vault, ata, paid, settledBy>>

\* Fault: a settled escrow can be disputed.
DisputeAfterTheFact(e, signer) ==
    e.status \notin {"Absent", "Created"} /\ signer \in {e.employer, e.employee}

\* After a confirmation only the employer may still dispute.
MayDispute(e, signer) ==
    \/ e.status = "Funded" /\ signer \in {e.employer, e.employee}
    \/ e.status = "PendingRelease" /\ signer = e.employer

\* Fault: no shortest mediation window.
AnyFutureDeadline(deadline) ==
    /\ deadline > now
    /\ deadline - now <= MaxDisputeWindow

\* Fault: no longest wait.
NoLatestDeadline(deadline) ==
    /\ deadline > now
    /\ deadline - now >= MinDisputeWindow

DeadlineAllowed(deadline) ==
    /\ deadline > now
    /\ deadline - now >= MinDisputeWindow
    /\ deadline - now <= MaxDisputeWindow

RaiseDispute(id, signer, deadline) ==
    /\ MayDispute(escrow[id], signer)
    /\ DeadlineAllowed(deadline)
    /\ escrow' = [escrow EXCEPT ![id].status = "Disputed",
                                ![id].dispute_raised_by = signer,
                                ![id].dispute_raised_at = now,
                                ![id].dispute_deadline = deadline]
    /\ UNCHANGED <<vault, ata, paid, settledBy>>

\* Fault: the key can be replaced in the middle of a dispute.
RotatableInDispute(e) == e.status \notin Terminal \cup {"Absent"}

Rotatable(e) == e.status \notin Terminal \cup {"Absent", "Disputed"}

\* Fault: a party may become its own arbiter.
MayRotateToParty(e, new) == new # e.platform_authority

\* Pubkey::default() is not refused.
MayRotateTo(e, new) == new \notin {e.employer, e.employee, e.platform_authority}

UpdatePlatformAuthority(id, signer, new) ==
    /\ Rotatable(escrow[id])
    /\ signer = escrow[id].platform_authority
    /\ MayRotateTo(escrow[id], new)
    /\ escrow' = [escrow EXCEPT ![id].platform_authority = new]
    /\ UNCHANGED <<vault, ata, paid, settledBy>>

-----------------------------------------------------------------------------
(***************************************************************************)
(* Settlement.  Every handler pays out of the vault account it is given:   *)
(* the employee first, then the treasury, then it sweeps what is left, so  *)
(* this account ends at zero.  A transfer of more than the account holds   *)
(* fails the transaction.                                                  *)
(***************************************************************************)

Pay(id, acct, signers, to_employee, to_treasury, to_employer) ==
    /\ vault' = [vault EXCEPT ![id][acct] =
                                  @ - (to_employee + to_treasury + to_employer)]
    /\ paid' = [paid EXCEPT ![id] =
                   [ employee |-> @.employee + to_employee,
                     employer |-> @.employer + to_employer,
                     treasury |-> @.treasury + to_treasury ]]
    /\ settledBy' = [settledBy EXCEPT ![id] = signers]
    /\ UNCHANGED ata

\* Fault: the commission is not capped at what is left.
PaySplitUncapped(id, acct, signers, share) ==
    LET fee == RemainingCommission(escrow[id]) IN
    /\ share <= vault[id][acct]
    /\ Pay(id, acct, signers, share, fee, vault[id][acct] - share - fee)

\* Fault: the employer gets the commission back.
PaySplitWithoutFee(id, acct, signers, share) ==
    /\ share <= vault[id][acct]
    /\ Pay(id, acct, signers, share, 0, vault[id][acct] - share)

\* Fault: the recorded amounts are paid, not the live balance.
PaySplitRecorded(id, acct, signers, share) ==
    LET e == escrow[id]
        left == vault[id][acct] - share
    IN  /\ share <= vault[id][acct]
        /\ Pay(id, acct, signers, share, Least(RemainingCommission(e), left),
               Least(RemainingWorkerAmount(e) - share,
                     SaturatingSub(left, RemainingCommission(e))))

\* Employee share, then the remaining commission capped at what is left, then
\* everything else to the employer.
PaySplit(id, acct, signers, share) ==
    LET left == vault[id][acct] - share
        fee == Least(RemainingCommission(escrow[id]), left)
    IN  /\ share <= vault[id][acct]
        /\ Pay(id, acct, signers, share, fee, left - fee)

\* The account a settlement may be given: the vault PDA, bound by its seeds, or
\* any token account of the escrow PDA with the mint of the escrow.
NativeVault(id, acct) == IsNative(id) /\ acct = SOL
TokenVault(id, acct) ==
    /\ ~IsNative(id)
    /\ AssetOf(acct) = escrow[id].token_mint
    /\ <<id, acct>> \in ata

\* Fault: the worker's own confirmation is enough for the worker.
ReleaseOnOwnWord(e, signer) ==
    \/ signer \in {e.employer, e.platform_authority}
    \/ signer = e.employee /\ e.employee_confirmed

ReleaseAuthorized(e, signer) ==
    \/ signer = e.employer /\ e.employer_confirmed
    \/ signer = e.platform_authority
    \/ signer = e.employee /\ e.employer_confirmed /\ e.employee_confirmed

\* The whole rest of the account, dust included, goes to the treasury.
Release(id, acct, signer) ==
    /\ escrow[id].status \in {"PendingRelease", "Funded"}
    /\ ReleaseAuthorized(escrow[id], signer)
    /\ LET worker == RemainingWorkerAmount(escrow[id]) IN
           /\ worker > 0 /\ worker <= vault[id][acct]
           /\ Pay(id, acct, {signer}, worker, vault[id][acct] - worker, 0)
    /\ escrow' = [escrow EXCEPT
                     ![id].released_to_employee = escrow[id].amount,
                     ![id].status = "Released",
                     ![id].release_initiator = signer]

ReleaseSol(id, acct, signer) ==
    NativeVault(id, acct) /\ Release(id, acct, signer)
ReleaseToken(id, acct, signer) ==
    TokenVault(id, acct) /\ Release(id, acct, signer)

ResolveDispute(id, acct, signer, share) ==
    /\ escrow[id].status = "Disputed"
    /\ signer = escrow[id].platform_authority
    /\ share <= RemainingWorkerAmount(escrow[id])
    /\ PaySplit(id, acct, {signer}, share)
    /\ escrow' = [escrow EXCEPT
                     ![id].released_to_employee = @ + share,
                     ![id].status = "Resolved",
                     ![id].dispute_resolved_by = signer,
                     ![id].dispute_resolved_at = now,
                     ![id].employee_share_resolved = share,
                     ![id].employer_share_resolved =
                         RemainingWorkerAmount(escrow[id]) - share]

ResolveDisputeSol(id, acct, signer, share) ==
    NativeVault(id, acct) /\ ResolveDispute(id, acct, signer, share)
ResolveDisputeToken(id, acct, signer, share) ==
    TokenVault(id, acct) /\ ResolveDispute(id, acct, signer, share)

\* Fault: the employer's signature is enough.
EmployerSigned(e, signers) == e.employer \in signers

BothSigned(e, signers) == {e.employer, e.employee} \subseteq signers

MutualCancel(id, acct, signers, share) ==
    /\ escrow[id].status \in {"Funded", "PendingRelease"}
    /\ BothSigned(escrow[id], signers)
    /\ share <= RemainingWorkerAmount(escrow[id])
    /\ PaySplit(id, acct, signers, share)
    /\ escrow' = [escrow EXCEPT
                     ![id].released_to_employee = @ + share,
                     ![id].status = "Resolved",
                     ![id].employee_share_resolved = share,
                     ![id].employer_share_resolved =
                         RemainingWorkerAmount(escrow[id]) - share]

MutualCancelSol(id, acct, signers, share) ==
    NativeVault(id, acct) /\ MutualCancel(id, acct, signers, share)
MutualCancelToken(id, acct, signers, share) ==
    TokenVault(id, acct) /\ MutualCancel(id, acct, signers, share)

\* Fault: the forced resolution stops while the program is paused.
DeadlinePassedUnpaused(e) ==
    e.dispute_deadline # 0 /\ now >= e.dispute_deadline /\ ~config.paused

DeadlinePassed(e) == e.dispute_deadline # 0 /\ now >= e.dispute_deadline

\* Permissionless once the dispute deadline has passed.
TriggerAutoRelease(id, acct, caller) ==
    /\ escrow[id].status = "Disputed"
    /\ DeadlinePassed(escrow[id])
    /\ PaySplit(id, acct, {caller}, RemainingWorkerAmount(escrow[id]))
    /\ escrow' = [escrow EXCEPT
                     ![id].released_to_employee = escrow[id].amount,
                     ![id].status = "Resolved",
                     ![id].dispute_resolved_by = caller,
                     ![id].dispute_resolved_at = now,
                     ![id].employee_share_resolved =
                         RemainingWorkerAmount(escrow[id]),
                     ![id].employer_share_resolved = 0]

TriggerAutoReleaseSol(id, acct, caller) ==
    NativeVault(id, acct) /\ TriggerAutoRelease(id, acct, caller)
TriggerAutoReleaseToken(id, acct, caller) ==
    TokenVault(id, acct) /\ TriggerAutoRelease(id, acct, caller)

\* In Created employer or platform, once Funded the platform only.
MayCancel(e, signer) ==
    \/ e.status = "Created" /\ signer \in {e.employer, e.platform_authority}
    \/ e.status = "Funded" /\ signer = e.platform_authority

CancelEscrow(id, acct, signer) ==
    /\ MayCancel(escrow[id], signer)
    /\ PaySplit(id, acct, {signer}, 0)
    /\ escrow' = [escrow EXCEPT ![id].status = "Cancelled",
                                ![id].cancelled_by = signer]

CancelEscrowSol(id, acct, signer) ==
    NativeVault(id, acct) /\ CancelEscrow(id, acct, signer)
CancelEscrowToken(id, acct, signer) ==
    TokenVault(id, acct) /\ CancelEscrow(id, acct, signer)

-----------------------------------------------------------------------------
(***************************************************************************)
(* Closing a terminal account: the address becomes free again.             *)
(***************************************************************************)

MayClose(id, signer) ==
    /\ escrow[id].status \in Terminal
    /\ signer \in {escrow[id].employer, escrow[id].platform_authority}

CloseAccount(id) ==
    /\ escrow' = [escrow EXCEPT ![id] = BlankEscrow]
    /\ paid' = [paid EXCEPT ![id] = NoPayments]
    /\ settledBy' = [settledBy EXCEPT ![id] = {}]

\* What is left in the account that is named is swept to the employer.
SweepAndClose(id, acct) ==
    /\ vault' = [vault EXCEPT ![id][acct] = 0]
    /\ CloseAccount(id)

CloseEscrowSol(id, signer) ==
    /\ IsNative(id) /\ MayClose(id, signer)
    /\ SweepAndClose(id, SOL)
    /\ UNCHANGED ata

\* The token account that is named is closed together with the escrow.
CloseEscrowToken(id, acct, signer) ==
    /\ TokenVault(id, acct) /\ MayClose(id, signer)
    /\ SweepAndClose(id, acct)
    /\ ata' = ata \ {<<id, acct>>}

\* Closes the escrow account alone and does not look at the vault.
CloseUnfundedEscrowToken(id, signer) ==
    /\ ~IsNative(id) /\ MayClose(id, signer)
    /\ escrow[id].status = "Cancelled" /\ escrow[id].funded_at = 0
    /\ CloseAccount(id)
    /\ UNCHANGED <<vault, ata>>

-----------------------------------------------------------------------------
(***************************************************************************)
(* The chain outside the program: the clock, and outsiders who may send    *)
(* lamports or tokens to a vault, or open a token account of it, any time. *)
(***************************************************************************)

Tick ==
    /\ now < MaxTime
    /\ now' = now + 1
    /\ UNCHANGED <<config, custody>>

CreateVaultTokenAccount(id, acct) ==
    /\ <<id, acct>> \notin ata
    /\ ata' = ata \cup {<<id, acct>>}
    /\ UNCHANGED <<escrow, vault, paid, settledBy>>

\* What the account holds for the escrow itself, to bound the dust on top of it.
Secured(id, acct) ==
    IF /\ escrow[id].status \in {"Funded", "PendingRelease", "Disputed"}
       /\ escrow[id].token_mint = acct
    THEN TotalDeposit(escrow[id])
    ELSE 0

SendDust(id, acct, dust) ==
    /\ acct = SOL => vault[id][SOL] + dust >= RentMin
    /\ acct # SOL => <<id, acct>> \in ata
    /\ vault[id][acct] + dust <= Secured(id, acct) + MaxDust
    /\ vault' = [vault EXCEPT ![id][acct] = @ + dust]
    /\ UNCHANGED <<escrow, ata, paid, settledBy>>

-----------------------------------------------------------------------------

Init ==
    /\ config = NoConfig
    /\ now = 1
    /\ escrow = [id \in EscrowIds |-> BlankEscrow]
    /\ vault = [id \in EscrowIds |-> EmptyVaults]
    /\ ata = {}
    /\ paid = [id \in EscrowIds |-> NoPayments]
    /\ settledBy = [id \in EscrowIds |-> {}]

\* Transactions signed by one wallet that move no money out of a vault.
Proceeds(signer, id) ==
    \/ \E employee \in Users, mint \in Assets, amount \in Amounts, rate \in Rates :
          /\ signer \in Users
          /\ CreateEscrow(id, signer, employee, mint, amount, rate)
    \/ DepositSol(id, signer)
    \/ DepositToken(id, signer)
    \/ ConfirmCompletion(id, signer)
    \/ \E deadline \in 0..MaxTime : RaiseDispute(id, signer, deadline)
    \/ \E new \in Platforms \cup {Nobody} :
          UpdatePlatformAuthority(id, signer, new)
    \/ CloseUnfundedEscrowToken(id, signer)

\* Transactions signed by one wallet that name a vault account to pay from.
Settles(signer, id, acct) ==
    \/ ReleaseSol(id, acct, signer)
    \/ ReleaseToken(id, acct, signer)
    \/ \E share \in Shares :
          \/ ResolveDisputeSol(id, acct, signer, share)
          \/ ResolveDisputeToken(id, acct, signer, share)
    \/ TriggerAutoReleaseSol(id, acct, signer)
    \/ TriggerAutoReleaseToken(id, acct, signer)
    \/ CancelEscrowSol(id, acct, signer)
    \/ CancelEscrowToken(id, acct, signer)

Closes(signer, id) ==
    \/ CloseEscrowSol(id, signer)
    \/ \E acct \in TokenAccounts : CloseEscrowToken(id, acct, signer)

SignedBy(signer, id) ==
    \/ Proceeds(signer, id)
    \/ \E acct \in VaultAccounts : Settles(signer, id, acct)
    \/ Closes(signer, id)

\* Transactions signed by both parties.
CoSigned(id) ==
    \E acct \in VaultAccounts, share \in Shares :
        \E signers \in SUBSET {escrow[id].employer, escrow[id].employee} :
            \/ MutualCancelSol(id, acct, signers, share)
            \/ MutualCancelToken(id, acct, signers, share)

Outsiders(id) ==
    \/ \E acct \in TokenAccounts : CreateVaultTokenAccount(id, acct)
    \/ \E acct \in VaultAccounts, dust \in DustAmounts : SendDust(id, acct, dust)

EscrowStep(id) ==
    \/ \E signer \in Wallets : SignedBy(signer, id)
    \/ CoSigned(id)
    \/ Outsiders(id)

Next ==
    \/ ConfigNext /\ UNCHANGED <<now, custody>>
    \/ \E id \in EscrowIds : EscrowStep(id) /\ UNCHANGED <<config, now>>
    \/ Tick

Spec == Init /\ [][Next]_vars
=============================================================================
