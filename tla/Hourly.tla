------------------------------- MODULE Hourly -------------------------------
(***************************************************************************)
(* The hourly engine: one HourlyPeriod account per (hire, week), its SOL   *)
(* vault PDA and its SPL token accounts, and one HourlyInvoice account per *)
(* staged block of hours, next to the Config account.  As in Escrow a      *)
(* handler is one action and a failing handler changes nothing.            *)
(***************************************************************************)
EXTENDS Vaults

CONSTANTS
    Periods,             \* period PDAs
    Caps,                \* weekly_cap_net arguments
    InvoiceAmounts,      \* amount_net arguments of stage_invoice_*
    InvoiceShares,       \* employee_share arguments of resolve_invoice_*
    MaxFundAmounts,      \* max_fund_amount arguments of fund_period_*
    ReviewWindows,       \* review_window_secs arguments
    PeriodStarts,        \* period_start_at arguments
    PeriodDurations,     \* period_duration_secs arguments
    MaxReviewWindow,     \* MAX_REVIEW_WINDOW_SECS
    MinPeriodDuration,   \* MIN_PERIOD_DURATION_SECS
    MaxPeriodDuration,   \* MAX_PERIOD_DURATION_SECS
    MinDisputeWindow,    \* MIN_DISPUTE_DEADLINE_DURATION
    MaxDisputeWindow,    \* MAX_DISPUTE_DEADLINE_DURATION
    RentMin,             \* rent-exempt minimum of a data-less account
    MaxU64,              \* u64::MAX
    MaxInvoiceCount,     \* u16::MAX
    DustAmounts,         \* amounts outsiders send straight to a vault
    MaxVault,            \* bound: outsiders do not fill a vault beyond this
    MaxTime              \* bound: the clock stops here

ASSUME HourlyAssumption ==
    /\ Caps \subseteq Nat /\ InvoiceAmounts \subseteq Nat
    /\ InvoiceShares \subseteq Nat /\ MaxFundAmounts \subseteq Nat
    /\ ReviewWindows \subseteq Nat /\ PeriodStarts \subseteq Nat
    /\ PeriodDurations \subseteq Nat /\ DustAmounts \subseteq Nat
    /\ MaxReviewWindow \in Nat
    /\ MinPeriodDuration \in Nat \ {0} /\ MaxPeriodDuration \in Nat
    /\ MinDisputeWindow \in Nat \ {0} /\ MaxDisputeWindow \in Nat
    /\ RentMin \in Nat /\ MaxU64 \in Nat /\ MaxInvoiceCount \in Nat
    /\ MaxVault \in Nat /\ MaxTime \in Nat

VARIABLES
    now,      \* Clock::get()?.unix_timestamp
    period,   \* the HourlyPeriod account of each period PDA
    invoice,  \* its HourlyInvoice accounts, by index
    pot,      \* what each vault account of each period holds
    potAta,   \* <<period, account>> pairs: the token accounts that exist
    outcome   \* auxiliary: how each invoice of the current life ended

hourly == <<period, invoice, pot, potAta, outcome>>
hourlyVars == <<config, now, period, invoice, pot, potAta, outcome>>

Keys == Wallets \cup {Nobody}

InvoiceIndices == 0..MaxInvoiceCount - 1

\* Left out: hire id, week index, bumps, rent payer and the created, funded and
\* settled times, none of which any handler reads to decide anything.
PeriodRecord ==
    [ status : {"Absent", "Open", "Funded", "Active", "Settled"},
      employer : Keys, employee : Keys, platform_authority : Keys,
      fee_recipient : Keys, token_mint : Assets \cup {Nobody},
      weekly_cap_net : Nat, commission_rate_bps : Nat,
      funded_gross : Nat, total_staged_net : Nat,
      released_net : Nat, refunded_amount : Nat,
      outstanding_net : Nat, outstanding_commission : Nat,
      vault_rent_reserve : Nat, invoice_count : Nat, live_invoices : Nat,
      review_window_secs : Nat, period_start_at : Nat, period_end_at : Nat ]

BlankPeriod ==
    [ status |-> "Absent",
      employer |-> Nobody, employee |-> Nobody, platform_authority |-> Nobody,
      fee_recipient |-> Nobody, token_mint |-> Nobody,
      weekly_cap_net |-> 0, commission_rate_bps |-> 0,
      funded_gross |-> 0, total_staged_net |-> 0,
      released_net |-> 0, refunded_amount |-> 0,
      outstanding_net |-> 0, outstanding_commission |-> 0,
      vault_rent_reserve |-> 0, invoice_count |-> 0, live_invoices |-> 0,
      review_window_secs |-> 0, period_start_at |-> 0, period_end_at |-> 0 ]

InvoiceRecord ==
    [ status : {"Absent", "Staged", "Disputed"},
      amount_net : Nat, commission : Nat,
      release_at : Nat, dispute_deadline : Nat ]

BlankInvoice ==
    [ status |-> "Absent", amount_net |-> 0, commission |-> 0,
      release_at |-> 0, dispute_deadline |-> 0 ]

\* What an invoice was for, what was paid, on whose word, and whether it was
\* still under review or in its dispute window.
Outcome ==
    [ net : Nat, commission : Nat, disputed : BOOLEAN, early : BOOLEAN,
      employee : Nat, treasury : Nat, employer : Nat,
      by : {"nobody", "employer", "platform", "anyone"} ]

NoOutcome ==
    [ net |-> 0, commission |-> 0, disputed |-> FALSE, early |-> FALSE,
      employee |-> 0, treasury |-> 0, employer |-> 0, by |-> "nobody" ]

Unsettled == {"Open", "Funded", "Active"}

IsNativePeriod(p) == period[p].token_mint = SOL

\* Balance of the vault that is funded: the lamports of the vault PDA, or the
\* associated token account of the mint.
Pot(p) == pot[p][period[p].token_mint]

\* A lamport account ends a transaction empty or rent-exempt.
RentSafe(p, balance) ==
    IsNativePeriod(p) => balance = 0 \/ balance >= RentMin

\* The account an instruction may be given: the vault PDA, bound by its seeds, or
\* any token account of the period PDA with the mint of the period.  Only
\* fund_period_token and settle_period_token insist on the associated one.
NativePot(p, acct) == IsNativePeriod(p) /\ acct = SOL
TokenPot(p, acct) ==
    /\ ~IsNativePeriod(p)
    /\ AssetOf(acct) = period[p].token_mint
    /\ <<p, acct>> \in potAta

\* outstanding_total
OutstandingTotal(h) == h.outstanding_net + h.outstanding_commission

\* cap_gross, whose checked_add fails above u64::MAX.
CapGross(h) ==
    h.weekly_cap_net + CalculateCommission(h.weekly_cap_net, h.commission_rate_bps)

\* Fault: each invoice is charged on its own, so roundings are lost.
CommissionPerInvoice(h, amount) ==
    CalculateCommission(amount, h.commission_rate_bps)

\* Commission on everything staged so far, minus what was already booked.
MarginalCommission(h, amount) ==
    SaturatingSub(
        CalculateCommission(h.total_staged_net + amount, h.commission_rate_bps),
        CalculateCommission(h.total_staged_net, h.commission_rate_bps))

RegisterStaged(h, amount, commission) ==
    [ h EXCEPT !.total_staged_net = @ + amount,
               !.outstanding_net = @ + amount,
               !.outstanding_commission = @ + commission,
               !.invoice_count = @ + 1,
               !.live_invoices = @ + 1 ]

\* Fault: the counter of live invoices is never lowered.
RegisterSettledUncounted(h, inv, released) ==
    [ h EXCEPT !.outstanding_net = @ - inv.amount_net,
               !.outstanding_commission = @ - inv.commission,
               !.released_net = @ + released ]

\* Fault: an employee share is booked as a release of the whole invoice.
RegisterSettledInFull(h, inv, released) ==
    [ h EXCEPT !.outstanding_net = @ - inv.amount_net,
               !.outstanding_commission = @ - inv.commission,
               !.live_invoices = @ - 1,
               !.released_net = @ + inv.amount_net ]

\* Fault: the counter of live invoices is lowered twice.
RegisterSettledTwice(h, inv, released) ==
    [ h EXCEPT !.outstanding_net = @ - inv.amount_net,
               !.outstanding_commission = @ - inv.commission,
               !.live_invoices = @ - 2,
               !.released_net = @ + released ]

RegisterSettledInvoice(h, inv, released) ==
    [ h EXCEPT !.outstanding_net = @ - inv.amount_net,
               !.outstanding_commission = @ - inv.commission,
               !.live_invoices = @ - 1,
               !.released_net = @ + released ]

-----------------------------------------------------------------------------
(***************************************************************************)
(* Opening and funding a period.                                           *)
(***************************************************************************)

\* Fault: the pause flag is never read.
PauseUnread == TRUE

\* The pause gate of every handler that takes the Config account.
NotPaused == ~config.paused

\* Employer or platform pays the rent, and the platform key always co-signs.
OpenPeriod(p, signer, employer, employee, mint, cap, rate, review, start, duration) ==
    /\ period[p].status = "Absent"
    /\ ConfigExists /\ config.platform_authority # Nobody
    /\ signer = config.platform_authority
    /\ NotPaused
    /\ IsMintAllowed(mint)
    /\ cap > 0 /\ cap <= MaxU64 /\ rate <= MaxCommissionRateBps
    /\ employer # employee
    /\ config.platform_authority \notin {employer, employee}
    /\ review \in 1..MaxReviewWindow
    /\ duration \in MinPeriodDuration..MaxPeriodDuration
    /\ start > 0 /\ start + duration > now /\ start <= now + MaxPeriodDuration
    /\ period' = [period EXCEPT ![p] =
           [ BlankPeriod EXCEPT
               !.status = "Open",
               !.employer = employer, !.employee = employee,
               !.platform_authority = config.platform_authority,
               !.fee_recipient = config.fee_recipient,
               !.token_mint = mint,
               !.weekly_cap_net = cap, !.commission_rate_bps = rate,
               !.review_window_secs = review,
               !.period_start_at = start, !.period_end_at = start + duration ]]
    /\ UNCHANGED <<invoice, pot, potAta, outcome>>

\* Tops the vault up to cap_gross; `seed` is the one-time rent reserve.  A balance
\* is a u64 as well.
FundPeriod(p, signer, max_fund_amount, seed) ==
    LET to_fund == CapGross(period[p]) - period[p].funded_gross IN
    /\ NotPaused
    /\ signer = period[p].employer
    /\ period[p].status \in Unsettled
    /\ now < period[p].period_end_at
    /\ to_fund > 0 /\ to_fund <= max_fund_amount
    /\ CapGross(period[p]) <= MaxU64 /\ Pot(p) + to_fund + seed <= MaxU64
    /\ pot' = [pot EXCEPT ![p][period[p].token_mint] = @ + to_fund + seed]
    /\ RentSafe(p, Pot(p) + to_fund + seed)
    /\ period' = [period EXCEPT
           ![p].funded_gross = @ + to_fund,
           ![p].vault_rent_reserve = @ + seed,
           ![p].status = IF @ = "Open" THEN "Funded" ELSE @]
    /\ UNCHANGED <<invoice, outcome>>

\* Fault: no rent reserve is set aside.
NoSeed(h) == 0

ReserveSeed(h) == IF h.vault_rent_reserve = 0 THEN RentMin ELSE 0

FundPeriodSol(p, signer, max_fund_amount) ==
    /\ IsNativePeriod(p)
    /\ FundPeriod(p, signer, max_fund_amount, ReserveSeed(period[p]))
    /\ UNCHANGED potAta

\* The vault token account is created if it does not exist yet.
FundPeriodToken(p, signer, max_fund_amount) ==
    /\ ~IsNativePeriod(p)
    /\ FundPeriod(p, signer, max_fund_amount, 0)
    /\ potAta' = potAta \cup {<<p, period[p].token_mint>>}

\* Moves no money: the difference is funded later.
RaiseWeeklyCap(p, signer, cap) ==
    /\ NotPaused
    /\ signer \in {period[p].employer, period[p].platform_authority}
    /\ period[p].status \in Unsettled
    /\ now < period[p].period_end_at
    /\ cap >= period[p].weekly_cap_net /\ cap >= period[p].total_staged_net
    /\ cap <= MaxU64
    /\ period' = [period EXCEPT ![p].weekly_cap_net = cap]
    /\ UNCHANGED <<invoice, pot, potAta, outcome>>

-----------------------------------------------------------------------------
(***************************************************************************)
(* Staging and disputing invoices.                                         *)
(***************************************************************************)

\* Fault: the commission of the new invoice is not covered.
CoversNet(h, free, amount, commission) == OutstandingTotal(h) + amount <= free

Covers(h, free, amount, commission) ==
    OutstandingTotal(h) + amount + commission <= free

\* The invoice account is created at the current invoice_count, a u16.  What is
\* free is read from the account that is named.
StageInvoice(p, acct, signer, amount) ==
    LET h == period[p]
        commission == MarginalCommission(h, amount)
    IN  /\ NotPaused
        /\ signer = h.platform_authority
        /\ amount > 0
        /\ h.status \in {"Funded", "Active"}
        /\ h.period_start_at <= now /\ now < h.period_end_at
        /\ h.total_staged_net + amount <= h.weekly_cap_net
        /\ Covers(h, SaturatingSub(pot[p][acct], h.vault_rent_reserve), amount, commission)
        /\ h.invoice_count < MaxInvoiceCount
        /\ invoice[p][h.invoice_count].status = "Absent"
        /\ invoice' = [invoice EXCEPT ![p][h.invoice_count] =
               [ status |-> "Staged", amount_net |-> amount,
                 commission |-> commission,
                 release_at |-> now + h.review_window_secs,
                 dispute_deadline |-> 0 ]]
        /\ period' = [period EXCEPT ![p] =
               [RegisterStaged(h, amount, commission) EXCEPT !.status = "Active"]]
        /\ UNCHANGED <<pot, potAta, outcome>>

StageInvoiceSol(p, acct, signer, amount) ==
    NativePot(p, acct) /\ StageInvoice(p, acct, signer, amount)
StageInvoiceToken(p, acct, signer, amount) ==
    TokenPot(p, acct) /\ StageInvoice(p, acct, signer, amount)

\* When the invoice can be ended by anyone.
DueAt(inv) ==
    IF inv.status = "Disputed" THEN inv.dispute_deadline ELSE inv.release_at

\* Fault: the end of the review is not looked at.
EverDisputable(inv) == inv.status = "Staged"

Disputable(inv) == inv.status = "Staged" /\ now < inv.release_at

RaiseInvoiceDispute(p, i, signer, deadline) ==
    /\ signer \in {period[p].employer, period[p].employee,
                   period[p].platform_authority}
    /\ Disputable(invoice[p][i])
    /\ deadline > now
    /\ deadline - now \in MinDisputeWindow..MaxDisputeWindow
    /\ invoice' = [invoice EXCEPT ![p][i].status = "Disputed",
                                  ![p][i].dispute_deadline = deadline]
    /\ UNCHANGED <<period, pot, potAta, outcome>>

-----------------------------------------------------------------------------
(***************************************************************************)
(* Ending an invoice: the account that is named pays the three legs, the   *)
(* period's books are updated with checked subtractions and the invoice    *)
(* account closed.                                                         *)
(***************************************************************************)

RoleOf(h, signer) ==
    IF signer = h.platform_authority THEN "platform"
    ELSE IF signer = h.employer THEN "employer" ELSE "anyone"

\* What the account and the books must allow when an invoice ends: the transfers,
\* the runtime's rent rule on what they leave, and the checked subtractions.
Endable(p, acct, i, total) ==
    /\ total <= pot[p][acct]
    /\ RentSafe(p, pot[p][acct] - total)
    /\ invoice[p][i].amount_net <= period[p].outstanding_net
    /\ invoice[p][i].commission <= period[p].outstanding_commission
    /\ period[p].live_invoices > 0

\* The transfers, the books and the closed account.
BookEnd(p, acct, i, signer, to_employee, to_treasury, to_employer) ==
    LET inv == invoice[p][i] IN
    /\ pot' = [pot EXCEPT ![p][acct] =
                              @ - (to_employee + to_treasury + to_employer)]
    /\ period' = [period EXCEPT ![p] =
                     RegisterSettledInvoice(@, inv, to_employee)]
    /\ invoice' = [invoice EXCEPT ![p][i] = BlankInvoice]
    /\ outcome' = [outcome EXCEPT ![p][i] =
           [ net |-> inv.amount_net, commission |-> inv.commission,
             disputed |-> inv.status = "Disputed",
             early |-> now < DueAt(inv),
             employee |-> to_employee, treasury |-> to_treasury,
             employer |-> to_employer, by |-> RoleOf(period[p], signer) ]]
    /\ UNCHANGED potAta

EndInvoice(p, acct, i, signer, to_employee, to_treasury, to_employer) ==
    /\ Endable(p, acct, i, to_employee + to_treasury + to_employer)
    /\ BookEnd(p, acct, i, signer, to_employee, to_treasury, to_employer)

PayInFull(p, acct, i, signer) ==
    EndInvoice(p, acct, i, signer,
               invoice[p][i].amount_net, invoice[p][i].commission, 0)

\* Fault: one second too early.
ReviewNearlyOver(inv) == now + 1 >= inv.release_at

ReviewOver(inv) == now >= inv.release_at

FinalizeInvoice(p, acct, i, caller) ==
    /\ invoice[p][i].status = "Staged"
    /\ ReviewOver(invoice[p][i])
    /\ PayInFull(p, acct, i, caller)

FinalizeInvoiceSol(p, acct, i, caller) ==
    NativePot(p, acct) /\ FinalizeInvoice(p, acct, i, caller)
FinalizeInvoiceToken(p, acct, i, caller) ==
    TokenPot(p, acct) /\ FinalizeInvoice(p, acct, i, caller)

\* No time gate, but the pause applies.
ApproveInvoice(p, acct, i, approver) ==
    /\ NotPaused
    /\ approver \in {period[p].employer, period[p].platform_authority}
    /\ invoice[p][i].status = "Staged"
    /\ PayInFull(p, acct, i, approver)

ApproveInvoiceSol(p, acct, i, approver) ==
    NativePot(p, acct) /\ ApproveInvoice(p, acct, i, approver)
ApproveInvoiceToken(p, acct, i, approver) ==
    TokenPot(p, acct) /\ ApproveInvoice(p, acct, i, approver)

\* Fault: a party may resolve its own dispute.
EmployerResolves(h, signer) == signer \in {h.platform_authority, h.employer}

MayResolve(h, signer) == signer = h.platform_authority

\* Fault: a worker who is awarded a part is charged for the whole.
BookedCommission(h, inv, share) == inv.commission

\* The commission is earned on the awarded share only.
TreasuryLeg(h, inv, share) ==
    Least(CalculateCommission(share, h.commission_rate_bps), inv.commission)

\* The employer gets the rest of the net and of the commission.
ResolveInvoice(p, acct, i, signer, share) ==
    LET inv == invoice[p][i]
        treasury_leg == TreasuryLeg(period[p], inv, share)
    IN  /\ MayResolve(period[p], signer)
        /\ inv.status = "Disputed"
        /\ share <= inv.amount_net
        /\ EndInvoice(p, acct, i, signer, share, treasury_leg,
                      (inv.amount_net - share) + (inv.commission - treasury_leg))

ResolveInvoiceSol(p, acct, i, signer, share) ==
    NativePot(p, acct) /\ ResolveInvoice(p, acct, i, signer, share)
ResolveInvoiceToken(p, acct, i, signer, share) ==
    TokenPot(p, acct) /\ ResolveInvoice(p, acct, i, signer, share)

AutoReleaseInvoice(p, acct, i, caller) ==
    /\ invoice[p][i].status = "Disputed"
    /\ invoice[p][i].dispute_deadline # 0
    /\ now >= invoice[p][i].dispute_deadline
    /\ PayInFull(p, acct, i, caller)

AutoReleaseInvoiceSol(p, acct, i, caller) ==
    NativePot(p, acct) /\ AutoReleaseInvoice(p, acct, i, caller)
AutoReleaseInvoiceToken(p, acct, i, caller) ==
    TokenPot(p, acct) /\ AutoReleaseInvoice(p, acct, i, caller)

-----------------------------------------------------------------------------
(***************************************************************************)
(* Winding a period down: anyone, after its end.                           *)
(***************************************************************************)

\* Fault: the refund takes the rent reserve along.
EarmarkedOnly(h) == OutstandingTotal(h)

\* Fault: the refund forgets the commission of live invoices.
EarmarkedNet(h) == h.outstanding_net + h.vault_rent_reserve

\* The reserve of a token period is always 0.
Reserved(h) == OutstandingTotal(h) + h.vault_rent_reserve

\* What stays behind is there, and may stay.
Refundable(p) ==
    /\ Reserved(period[p]) <= Pot(p)
    /\ RentSafe(p, Reserved(period[p]))

\* Everything that is not owed to a live invoice goes back to the employer.  What
\* is owed is looked for in the vault that is funded, wherever it was staged from.
SettlePeriod(p) ==
    /\ period[p].status \in Unsettled
    /\ now >= period[p].period_end_at
    /\ Refundable(p)
    /\ pot' = [pot EXCEPT ![p][period[p].token_mint] = Reserved(period[p])]
    /\ period' = [period EXCEPT
           ![p].status = "Settled",
           ![p].refunded_amount = @ + (Pot(p) - Reserved(period[p]))]
    /\ UNCHANGED <<invoice, outcome>>

SettlePeriodSol(p) == IsNativePeriod(p) /\ SettlePeriod(p) /\ UNCHANGED potAta

\* A period that was never funded gets its vault token account here.
SettlePeriodToken(p) ==
    /\ ~IsNativePeriod(p)
    /\ SettlePeriod(p)
    /\ potAta' = potAta \cup {<<p, period[p].token_mint>>}

\* Fault: live invoices are not looked at.
SettledOnly(h) == h.status = "Settled"

Closable(h) == h.status = "Settled" /\ h.live_invoices = 0

\* The address is free again; what is left in the account that is named goes to
\* the employer.
ClosePeriod(p, acct) ==
    /\ Closable(period[p])
    /\ pot' = [pot EXCEPT ![p][acct] = 0]
    /\ period' = [period EXCEPT ![p] = BlankPeriod]
    /\ outcome' = [outcome EXCEPT ![p] = [i \in InvoiceIndices |-> NoOutcome]]
    /\ UNCHANGED invoice

ClosePeriodSol(p) == IsNativePeriod(p) /\ ClosePeriod(p, SOL) /\ UNCHANGED potAta

ClosePeriodToken(p, acct) ==
    /\ TokenPot(p, acct)
    /\ ClosePeriod(p, acct)
    /\ potAta' = potAta \ {<<p, acct>>}

-----------------------------------------------------------------------------
(***************************************************************************)
(* The chain outside the program.                                          *)
(***************************************************************************)

Tick ==
    /\ now < MaxTime
    /\ now' = now + 1
    /\ UNCHANGED <<config, hourly>>

CreatePotAta(p, acct) ==
    /\ <<p, acct>> \notin potAta
    /\ potAta' = potAta \cup {<<p, acct>>}
    /\ UNCHANGED <<period, invoice, pot, outcome>>

SendDust(p, acct, dust) ==
    /\ acct = SOL => pot[p][SOL] + dust >= RentMin
    /\ acct # SOL => <<p, acct>> \in potAta
    /\ pot[p][acct] + dust <= MaxVault
    /\ pot' = [pot EXCEPT ![p][acct] = @ + dust]
    /\ UNCHANGED <<period, invoice, potAta, outcome>>

-----------------------------------------------------------------------------

Init ==
    /\ config = NoConfig
    /\ now = 1
    /\ period = [p \in Periods |-> BlankPeriod]
    /\ invoice = [p \in Periods |-> [i \in InvoiceIndices |-> BlankInvoice]]
    /\ pot = [p \in Periods |-> EmptyVaults]
    /\ potAta = {}
    /\ outcome = [p \in Periods |-> [i \in InvoiceIndices |-> NoOutcome]]

\* Instructions on the period account.
PeriodInstruction(p, signer) ==
    \/ \E employer, employee \in Users, mint \in Assets, cap \in Caps,
          rate \in Rates, review \in ReviewWindows, start \in PeriodStarts,
          duration \in PeriodDurations :
          OpenPeriod(p, signer, employer, employee, mint, cap, rate, review,
                     start, duration)
    \/ \E max_fund_amount \in MaxFundAmounts :
          \/ FundPeriodSol(p, signer, max_fund_amount)
          \/ FundPeriodToken(p, signer, max_fund_amount)
    \/ \E cap \in Caps : RaiseWeeklyCap(p, signer, cap)
    \/ \E acct \in VaultAccounts, amount \in InvoiceAmounts :
          \/ StageInvoiceSol(p, acct, signer, amount)
          \/ StageInvoiceToken(p, acct, signer, amount)

\* Instructions that end one of its invoices and name an account to pay from.
Endings(p, acct, i, signer) ==
    \/ FinalizeInvoiceSol(p, acct, i, signer)
    \/ FinalizeInvoiceToken(p, acct, i, signer)
    \/ ApproveInvoiceSol(p, acct, i, signer)
    \/ ApproveInvoiceToken(p, acct, i, signer)
    \/ \E share \in InvoiceShares :
          \/ ResolveInvoiceSol(p, acct, i, signer, share)
          \/ ResolveInvoiceToken(p, acct, i, signer, share)
    \/ AutoReleaseInvoiceSol(p, acct, i, signer)
    \/ AutoReleaseInvoiceToken(p, acct, i, signer)

\* Instructions on one of its invoices.
InvoiceInstruction(p, i, signer) ==
    \/ \E deadline \in 0..MaxTime : RaiseInvoiceDispute(p, i, signer, deadline)
    \/ \E acct \in VaultAccounts : Endings(p, acct, i, signer)

\* Instructions and transfers that ask for nobody's signature in particular.
Anyone(p) ==
    \/ SettlePeriodSol(p)
    \/ SettlePeriodToken(p)
    \/ ClosePeriodSol(p)
    \/ \E acct \in TokenAccounts : ClosePeriodToken(p, acct) \/ CreatePotAta(p, acct)
    \/ \E acct \in VaultAccounts, dust \in DustAmounts : SendDust(p, acct, dust)

HourlyStep(p) ==
    \/ \E signer \in Wallets :
          \/ PeriodInstruction(p, signer)
          \/ \E i \in InvoiceIndices : InvoiceInstruction(p, i, signer)
    \/ Anyone(p)

Next ==
    \/ ConfigNext /\ UNCHANGED <<now, hourly>>
    \/ \E p \in Periods : HourlyStep(p) /\ UNCHANGED <<config, now>>
    \/ Tick

Spec == Init /\ [][Next]_hourlyVars
=============================================================================
