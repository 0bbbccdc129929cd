-------------------------- MODULE EscrowProperties --------------------------
(***************************************************************************)
(* What the milestone escrow engine must guarantee.                        *)
(***************************************************************************)
EXTENDS Escrow

Active == {"Funded", "PendingRelease", "Disputed"}

Settled(e) == e.status \in Terminal /\ e.funded_at # 0

\* Every state is well-formed: the accounts hold values of their types, no
\* balance is negative and the Config account respects its own limits.
TypeOK ==
    /\ ConfigTypeOK
    /\ now \in Nat \ {0}
    /\ escrow \in [EscrowIds -> EscrowRecord]
    /\ vault \in [EscrowIds -> [VaultAccounts -> Nat]]
    /\ ata \in SUBSET (EscrowIds \X TokenAccounts)
    /\ paid \in [EscrowIds -> Payments]
    /\ settledBy \in [EscrowIds -> SUBSET Keys]

\* As long as an escrow is funded and not settled, the vault that was funded (the
\* PDA or the associated token account) exists and covers the worker's remaining
\* pay and the remaining commission, whatever mixture of confirmations, disputes,
\* rotations and outside transfers happened: the amounts release_*,
\* resolve_dispute_* and trigger_auto_release_* transfer out.
Solvent(id) ==
    escrow[id].status \in Active =>
        /\ IsNative(id) \/ VaultTokenAccountExists(id)
        /\ Vault(id) >= RemainingWorkerAmount(escrow[id])
                        + RemainingCommission(escrow[id])

Solvency == \A id \in EscrowIds : Solvent(id)

\* The worker received what the account records, whichever vault account was
\* named: all of it after a release, the recorded share after a resolution (and
\* the shares add up to the amount), nothing after a cancellation.
WorkerPaid(e, p) ==
    /\ e.status = "Released" => p.employee = e.amount
    /\ e.status = "Resolved" =>
          /\ p.employee = e.employee_share_resolved
          /\ p.employee = e.released_to_employee
          /\ e.employee_share_resolved + e.employer_share_resolved = e.amount
    /\ e.status = "Cancelled" => p.employee = 0

\* So did the other two: the treasury the commission, after a release with all
\* that was left on top, and the employer what is left otherwise.
RestPaid(e, p) ==
    /\ e.status = "Released" => p.employer = 0 /\ p.treasury >= e.commission_amount
    /\ e.status = "Resolved" =>
          /\ p.treasury = e.commission_amount
          /\ p.employer >= e.employer_share_resolved
    /\ e.status = "Cancelled" =>
          /\ p.treasury = e.commission_amount
          /\ p.employer >= e.amount

\* Or the whole deposit still lies untouched in the associated token account,
\* because the settlement named another one; it cannot happen to SOL.
DepositKept(e, balance) == e.token_mint \in Mints /\ balance >= TotalDeposit(e)

PaidAsRecorded(e, p, balance) ==
    WorkerPaid(e, p) /\ (RestPaid(e, p) \/ DepositKept(e, balance))

\* A settlement happens once and what it paid is what the account records.  The
\* worker's part holds of every escrow.  Employer and treasury get theirs from
\* the vault that was funded or, of a token escrow, not a unit of the deposit
\* has moved: the money is never split between what was paid and what was left.
SettlementExact ==
    \A id \in EscrowIds :
        Settled(escrow[id]) => PaidAsRecorded(escrow[id], paid[id], Vault(id))

\* The worker of a funded escrow ends up with less than the full amount only in
\* a transaction signed by the platform key or by both parties: the employer
\* alone, an outsider or the passing of time never takes pay away.
NoClawback(e, p, signers) ==
    Settled(e) /\ p.employee < e.amount =>
        \/ e.platform_authority \in signers
        \/ {e.employer, e.employee} \subseteq signers

NoUnilateralClawback ==
    \A id \in EscrowIds : NoClawback(escrow[id], paid[id], settledBy[id])

\* The employer of a funded escrow pays the worker anything only after having
\* confirmed or signed, by the platform's signature, or because a dispute ran
\* to its deadline: the worker alone, or an outsider, never collects early.
PayoutJustified(e, p, signers) ==
    Settled(e) /\ p.employee > 0 =>
        \/ e.platform_authority \in signers
        \/ e.employer \in signers
        \/ e.employer_confirmed
        \/ /\ e.dispute_raised_at # 0
           /\ e.dispute_resolved_at >= e.dispute_deadline

NoUnilateralPayout ==
    \A id \in EscrowIds : PayoutJustified(escrow[id], paid[id], settledBy[id])

\* The platform always had MIN_DISPUTE_DEADLINE_DURATION to mediate: a dispute
\* resolved by anyone but the platform key was resolved no sooner than that
\* after it was raised, and paid the worker in full (state/escrow.rs:198-201).
Mediated(e, p) ==
    /\ e.status = "Resolved" /\ e.dispute_raised_at # 0
    /\ e.dispute_resolved_by # e.platform_authority
    => /\ e.dispute_resolved_at >= e.dispute_raised_at + MinDisputeWindow
       /\ e.dispute_resolved_at >= e.dispute_deadline
       /\ p.employee = e.amount

MediationWindow == \A id \in EscrowIds : Mediated(escrow[id], paid[id])

\* Employer, employee and platform key of an account stay three different
\* wallets through creation from a changing Config and any rotation, so no
\* party ever arbitrates its own dispute.
Distinct(e) ==
    e.status # "Absent" =>
        /\ e.employer # e.employee
        /\ e.platform_authority \notin {e.employer, e.employee}

PartiesDistinct == \A id \in EscrowIds : Distinct(escrow[id])

\* README.md:757, "Funds are never permanently frozen", as far as it depends on
\* the accounts: through confirmations, disputes, rotations, re-created ids and
\* stray transfers every active escrow keeps what release_*, resolve_dispute_*
\* and trigger_auto_release_* need to go through, a dispute runs for no less than
\* the shortest and no more than the longest window, and an escrow that was funded
\* and settled keeps the account it was funded with until it is closed, so that
\* closing never has to leave that one behind.
Settleable(id) ==
    LET e == escrow[id] IN
    /\ e.status \in Active =>
          /\ IsNative(id) \/ VaultTokenAccountExists(id)
          /\ RemainingWorkerAmount(e) \in 1..Vault(id)
    /\ e.status = "Disputed" =>
          e.dispute_deadline \in (e.dispute_raised_at + MinDisputeWindow)..
                                (e.dispute_raised_at + MaxDisputeWindow)
    /\ Settled(e) => IsNative(id) \/ VaultTokenAccountExists(id)

AlwaysSettleable == \A id \in EscrowIds : Settleable(id)

\* A settlement empties exactly one account, whatever outsiders sent to it: the
\* balance is 0 afterwards, which the runtime accepts, and never the sub-rent
\* remainder that would make the transaction fail.  For SOL that account is the
\* vault PDA; for tokens it has the mint of the escrow, and what lies in any
\* other account of the escrow stays where it is.
VaultDrained ==
    [][\A id \in EscrowIds :
          /\ escrow[id].status \notin Terminal
          /\ escrow'[id].status \in Terminal
          => \E acct \in VaultAccounts :
                /\ AssetOf(acct) = escrow[id].token_mint
                /\ vault'[id] = [vault[id] EXCEPT ![acct] = 0]]_vars

\* A disputed escrow is frozen: nobody changes the account or takes from any of
\* its vaults, except the platform key named when the dispute was raised, or
\* anyone once the deadline has passed.
DisputeFreezes ==
    [][\A id \in EscrowIds : escrow[id].status = "Disputed" =>
          \/ /\ escrow'[id] = escrow[id]
             /\ \A acct \in VaultAccounts : vault'[id][acct] >= vault[id][acct]
          \/ /\ escrow'[id].status = "Resolved"
             /\ \/ escrow'[id].dispute_resolved_by = escrow[id].platform_authority
                \/ now >= escrow[id].dispute_deadline]_vars

\* While the program is paused no escrow appears and none is funded, including
\* one that was created before the pause.
PauseStopsInflow ==
    [][config.paused =>
          \A id \in EscrowIds : escrow'[id].status \in {"Created", "Funded"} =>
              escrow[id].status = escrow'[id].status]_vars

-----------------------------------------------------------------------------
(***************************************************************************)
(* The inductive invariant behind the invariants above.                    *)
(***************************************************************************)

\* Until an escrow settles its price is the one it was created with and nothing
\* has left its vault.
Untouched(e, p) ==
    /\ e.status = "Absent" => p = NoPayments
    /\ e.status \in {"Created"} \cup Active =>
          /\ e.token_mint \in Assets
          /\ e.amount > 0
          /\ e.commission_rate_bps <= MaxCommissionRateBps
          /\ e.commission_amount = CalculateCommission(e.amount, e.commission_rate_bps)
          /\ e.released_to_employee = 0
          /\ p = NoPayments
    /\ e.status = "Created" => e.funded_at = 0
    /\ e.status \in Active => e.funded_at # 0

\* The dispute fields are empty until a dispute is raised, and a raised dispute
\* leaves the platform its window.
DisputeTimed(e) ==
    /\ e.status \in {"Created", "Funded", "PendingRelease"} =>
          e.dispute_raised_at = 0
    /\ e.status = "Disputed" =>
          /\ e.dispute_raised_at # 0
          /\ e.dispute_deadline >= e.dispute_raised_at + MinDisputeWindow

\* The account, with what was paid out and who signed for it.
AccountOK(e, p, signers) ==
    /\ Untouched(e, p)
    /\ DisputeTimed(e)
    /\ Distinct(e)
    /\ NoClawback(e, p, signers)
    /\ PayoutJustified(e, p, signers)
    /\ Mediated(e, p)

IdOK(id) ==
    /\ AccountOK(escrow[id], paid[id], settledBy[id])
    /\ Settled(escrow[id]) => PaidAsRecorded(escrow[id], paid[id], Vault(id))
    /\ Solvent(id)

IInv == TypeOK /\ \A id \in EscrowIds : IdOK(id)

\* The stronger one behind AlwaysSettleable: no dispute runs beyond its window,
\* and the account that was funded stays as long as its escrow does.
SettledVaultKept(id, e, atas) ==
    Settled(e) => e.token_mint = SOL \/ <<id, e.token_mint>> \in atas

DisputeBounded(e) ==
    e.status = "Disputed" => e.dispute_deadline <= e.dispute_raised_at + MaxDisputeWindow

SInv ==
    /\ IInv
    /\ \A id \in EscrowIds :
          SettledVaultKept(id, escrow[id], ata) /\ DisputeBounded(escrow[id])

-----------------------------------------------------------------------------
(***************************************************************************)
(* The deal behind each escrow id, as the abstract custodian sees it.      *)
(***************************************************************************)

PhaseOf(status) ==
    CASE status = "Absent"   -> "none"
      [] status = "Created"  -> "agreed"
      [] status \in Active   -> "secured"
      [] status \in Terminal -> "settled"

\* The money of a deal lies in the vault that was funded, from the deposit until
\* the account is closed.
HeldFor(id) ==
    IF escrow[id].status \in Active \/ Settled(escrow[id]) THEN Vault(id) ELSE 0

\* A deal in SOL is bound to the vault PDA, one in tokens is not bound to the
\* associated account.  (Nobody and SOL may be one key: Pubkey::default() is the
\* id of the System Program.)
TermsOf(e) ==
    [ net |-> e.amount, fee |-> e.commission_amount,
      bound |-> e.status # "Absent" /\ e.token_mint = SOL ]

Abstract == INSTANCE Custody WITH
    Deals  <- EscrowIds,
    phase  <- [id \in EscrowIds |-> PhaseOf(escrow[id].status)],
    terms  <- [id \in EscrowIds |-> TermsOf(escrow[id])],
    held   <- [id \in EscrowIds |-> HeldFor(id)],
    payout <- paid

\* The milestone engine implements Custody: across cancellations, disputes and
\* re-created ids, secured money leaves once and whole, or, of a token escrow
\* whose settlement named another account, stays where it is until the end.
ImplementsCustody == Abstract!Spec

-----------------------------------------------------------------------------
(***************************************************************************)
(* Liveness.  Time passes, and somebody (trigger_auto_release_* asks for   *)
(* no authority) eventually sends a transaction that stays possible.       *)
(* Nothing is assumed of employers, employees, platform or admin: the      *)
(* admin may pause the program for ever.                                   *)
(***************************************************************************)

ForceResolve(id) ==
    \E caller \in Wallets :
        /\ \E acct \in VaultAccounts :
              \/ TriggerAutoReleaseSol(id, acct, caller)
              \/ TriggerAutoReleaseToken(id, acct, caller)
        /\ UNCHANGED <<config, now>>

FairSpec ==
    /\ Spec
    /\ WF_vars(Tick)
    /\ \A id \in EscrowIds : WF_vars(ForceResolve(id))

\* Every dispute ends: the deadline is mandatory and bounded, and after it
\* anyone can resolve, paused or not, mint delisted or not.
DisputesEnd ==
    \A id \in EscrowIds :
        escrow[id].status = "Disputed" ~> escrow[id].status # "Disputed"
=============================================================================
