-------------------------- MODULE HourlyProperties --------------------------
(***************************************************************************)
(* What the hourly engine must guarantee.                                  *)
(***************************************************************************)
EXTENDS Hourly, FiniteSets

LiveIn(invoices) == {i \in InvoiceIndices : invoices[i].status # "Absent"}

EndedIn(outcomes) == {i \in InvoiceIndices : outcomes[i] # NoOutcome}

Live(p) == LiveIn(invoice[p])

Ended(p) == EndedIn(outcome[p])

\* Sums over the invoices of a period; an account that does not exist is blank
\* and an invoice that has not ended was paid nothing.
NetOf(invoices) == SumFunction([i \in InvoiceIndices |-> invoices[i].amount_net])

FeesOf(invoices) == SumFunction([i \in InvoiceIndices |-> invoices[i].commission])

FeesEnded(outcomes) == SumFunction([i \in InvoiceIndices |-> outcomes[i].commission])

PaidToWorker(outcomes) ==
    SumFunction([i \in InvoiceIndices |-> outcomes[i].employee])

PaidToOthers(outcomes) ==
    SumFunction([i \in InvoiceIndices |-> outcomes[i].treasury + outcomes[i].employer])

\* Every state is well-formed: accounts hold values of their types and no
\* counter or balance is ever negative.
HourlyTypeOK ==
    /\ ConfigTypeOK
    /\ now \in Nat \ {0}
    /\ period \in [Periods -> PeriodRecord]
    /\ invoice \in [Periods -> [InvoiceIndices -> InvoiceRecord]]
    /\ pot \in [Periods -> [VaultAccounts -> Nat]]
    /\ potAta \in SUBSET (Periods \X TokenAccounts)
    /\ outcome \in [Periods -> [InvoiceIndices -> Outcome]]

\* Until a period is closed one account covers everything its books owe, and the
\* rent reserve on top: no order of staging, cap raising, payouts, disputes and
\* the refund of settle_period_*, whichever accounts they name, leaves an invoice
\* that finalize_invoice_* or auto_release_invoice_* cannot pay.  For SOL it is
\* the vault PDA; a token period may have been staged against another account
\* than the associated one, and then that one covers it.
PotSolvent(p) ==
    period[p].status # "Absent" =>
        \E acct \in VaultAccounts :
            /\ AssetOf(acct) = period[p].token_mint
            /\ pot[p][acct] >= OutstandingTotal(period[p]) + period[p].vault_rent_reserve
            /\ period[p].live_invoices > 0 => acct = SOL \/ <<p, acct>> \in potAta

PotsSolvent == \A p \in Periods : PotSolvent(p)

LedgerMatches(h, invoices, outcomes) ==
    /\ h.outstanding_net = NetOf(invoices)
    /\ h.outstanding_commission = FeesOf(invoices)
    /\ h.live_invoices = Cardinality(LiveIn(invoices))
    /\ h.outstanding_commission + FeesEnded(outcomes)
           = CalculateCommission(h.total_staged_net, h.commission_rate_bps)

\* The period's running totals are those of its live invoices: register_staged
\* and register_settled_invoice never drift, and everything that was ever
\* booked as commission is the commission on everything that was ever staged,
\* roundings included.
LedgerMatchesInvoices ==
    \A p \in Periods : LedgerMatches(period[p], invoice[p], outcome[p])

MoneyAccounted(h, v, outcomes) ==
    h.status # "Absent" =>
        /\ PaidToWorker(outcomes) = h.released_net
        /\ h.total_staged_net <= h.weekly_cap_net
        /\ h.funded_gross <= CapGross(h)
        /\ v[h.token_mint] + PaidToWorker(outcomes) + PaidToOthers(outcomes)
               + h.refunded_amount
           >= h.funded_gross + h.vault_rent_reserve

\* Nothing is paid twice or lost: the worker got exactly released_net, and
\* what the employer put in is still there, or went to worker, treasury or
\* back to the employer (dust from outsiders only adds to it).
MoneyAccountedFor ==
    \A p \in Periods : MoneyAccounted(period[p], pot[p], outcome[p])

\* An invoice that left before its time left by the word of somebody entitled
\* to say so, and an invoice that did not pay the worker in full was split by
\* the platform key alone; whatever the split, its three legs add up to
\* exactly what was staged and the treasury never takes more than was booked.
Justified(o) ==
    /\ o.employee + o.treasury + o.employer = o.net + o.commission
    /\ o.treasury <= o.commission
    /\ o.employee < o.net => o.disputed /\ o.by = "platform"
    /\ o.early => o.by = "platform" \/ (o.by = "employer" /\ ~o.disputed)

InvoicesEndJustly ==
    \A p \in Periods : \A i \in Ended(p) : Justified(outcome[p][i])

\* At the rate, to within the one unit a rounding may add.
AtRate(fee, net, rate) ==
    fee \in CalculateCommission(net, rate)..CalculateCommission(net, rate) + 1

EarnsItsRate(h, invoices, outcomes) ==
    /\ \A i \in LiveIn(invoices) :
          AtRate(invoices[i].commission, invoices[i].amount_net, h.commission_rate_bps)
    /\ \A i \in EndedIn(outcomes) :
          LET o == outcomes[i] IN
          /\ AtRate(o.treasury, o.employee, h.commission_rate_bps)
          /\ o.employee < o.net =>
                o.treasury = CalculateCommission(o.employee, h.commission_rate_bps)

\* Commission is booked as the growth of a cumulative one and split when a
\* dispute is resolved, and still every single payout pays the treasury what
\* calculate_commission says of the worker's part: one unit more at most, and
\* never more after a split.  In particular the cap in resolve_invoice_* at the
\* booked commission (resolve_invoice_sol.rs:87) takes nothing from the treasury.
TreasuryEarnsItsRate ==
    \A p \in Periods : EarnsItsRate(period[p], invoice[p], outcome[p])

\* An invoice account never outlives its period, and the address the next
\* stage_invoice_* initialises is free, in the first life of a period PDA and
\* after it was closed and opened again.
NoOrphanInvoices ==
    \A p \in Periods :
        \A i \in Live(p) :
            /\ period[p].status \in {"Active", "Settled"}
            /\ i < period[p].invoice_count

\* No period opens, no cap or funding grows, no invoice appears and none leaves
\* review before its time.
Frozen(p) ==
    /\ \/ period'[p].status = period[p].status
       \/ period'[p].status \in {"Settled", "Absent"}
    /\ period'[p].funded_gross <= period[p].funded_gross
    /\ period'[p].weekly_cap_net <= period[p].weekly_cap_net
    /\ \A i \in InvoiceIndices :
          /\ invoice'[p][i].status # "Absent" => invoice[p][i].status # "Absent"
          /\ invoice[p][i].status = "Staged" /\ invoice'[p][i].status = "Absent"
             => now >= invoice[p][i].release_at

\* SECURITY.md:222-224: while the program is paused no new obligation is
\* created, no new money is taken in and nothing is paid out early, whatever
\* steps are taken.
PauseFreezesHourly == [][config.paused => \A p \in Periods : Frozen(p)]_hourlyVars

\* The invoice can be paid in full from this account, now or once it is due.
Payable(p, acct, i) ==
    /\ NativePot(p, acct) \/ TokenPot(p, acct)
    /\ Endable(p, acct, i, invoice[p][i].amount_net + invoice[p][i].commission)

\* README.md:281: whoever goes quiet, money is never stuck behind the state of
\* an account.  Whatever order staging, funding, disputes, payouts and stray
\* transfers came in, every live invoice can be paid in full by the permissionless
\* instructions as soon as it is due (balance, rent rule and books of some account
\* of the period allow it), every SOL period can be settled once it is over, a
\* token period at the latest when its invoices are paid, and a settled one
\* without invoices closed.
ExitsOpen ==
    \A p \in Periods :
        /\ \A i \in Live(p) : \E acct \in VaultAccounts : Payable(p, acct, i)
        /\ period[p].status \in Unsettled =>
              Refundable(p) \/ (~IsNativePeriod(p) /\ period[p].live_invoices > 0)
        /\ period[p].status = "Settled" =>
              \E acct \in VaultAccounts : NativePot(p, acct) \/ TokenPot(p, acct)

\* No invoice of the period falls due at this time or later.
LatestDue(h) == h.period_end_at + h.review_window_secs + MaxDisputeWindow

DueInTimeOf(h, invoices) ==
    \A i \in LiveIn(invoices) : DueAt(invoices[i]) < LatestDue(h)

\* The worker waits no longer than the terms of the period say: staging just
\* before the end, a dispute on the last second of the review and the longest
\* deadline add up to the bound, and nothing can be put on top of it.
DueInTime == \A p \in Periods : DueInTimeOf(period[p], invoice[p])

\* What is due stays due until it is paid: no dispute, funding, settlement or
\* change of the period moves it out of reach again.
StillDue(p) ==
    \A i \in InvoiceIndices :
        /\ i \in Live(p) /\ now >= DueAt(invoice[p][i])
        /\ invoice'[p][i].status # "Absent"
        => now' >= DueAt(invoice'[p][i])

DueStaysDue == [][\A p \in Periods : StillDue(p)]_hourlyVars

-----------------------------------------------------------------------------
(***************************************************************************)
(* The inductive invariant behind PotsSolvent, InvoicesEndJustly and       *)
(* NoOrphanInvoices.                                                       *)
(***************************************************************************)

\* The counter of live invoices is what close_period_* goes by; that it counts
\* exactly the accounts that exist is why closing orphans none of them.
BooksOK(h, invoices, outcomes) ==
    /\ h.status # "Absent" => h.token_mint \in Assets
    /\ h.live_invoices = Cardinality(LiveIn(invoices))
    /\ \A i \in LiveIn(invoices) :
          h.status \in {"Active", "Settled"} /\ i < h.invoice_count
    /\ \A i \in EndedIn(outcomes) : Justified(outcomes[i])

PeriodOK(p) == BooksOK(period[p], invoice[p], outcome[p]) /\ PotSolvent(p)

HInv == HourlyTypeOK /\ \A p \in Periods : PeriodOK(p)

(***************************************************************************)
(* The stronger one behind LedgerMatchesInvoices, MoneyAccountedFor and    *)
(* the refinement: an index is used once in the life of a period, so no    *)
(* invoice is counted both as live and as ended.                           *)
(***************************************************************************)

IndicesUsedOnce(h, invoices, outcomes) ==
    /\ \A i \in InvoiceIndices :
          /\ invoices[i].status = "Absent" => invoices[i] = BlankInvoice
          /\ invoices[i].status # "Absent" => invoices[i].amount_net > 0
    /\ \A i \in EndedIn(outcomes) :
          invoices[i].status = "Absent" /\ i < h.invoice_count
    /\ h.status = "Absent" => h = BlankPeriod

SumsOK(h, invoices, v, outcomes) ==
    /\ IndicesUsedOnce(h, invoices, outcomes)
    /\ LedgerMatches(h, invoices, outcomes)
    /\ MoneyAccounted(h, v, outcomes)

LInv == HInv /\ \A p \in Periods : SumsOK(period[p], invoice[p], pot[p], outcome[p])

(***************************************************************************)
(* And the one behind ExitsOpen and DueInTime: a SOL vault that owes money *)
(* holds the rent minimum on top, so no payout leaves a forbidden balance, *)
(* and a token period keeps no reserve; a settled token period has its     *)
(* associated account; a dispute starts from a review that is not over.    *)
(***************************************************************************)

ReserveKept(h) ==
    /\ h.token_mint # SOL => h.vault_rent_reserve = 0
    /\ h.token_mint = SOL =>
        /\ h.vault_rent_reserve \in {0, RentMin}
        /\ h.status \in {"Funded", "Active"} \/ h.live_invoices > 0 =>
              h.vault_rent_reserve = RentMin

VaultKept(p, h, atas) ==
    h.status = "Settled" => h.token_mint = SOL \/ <<p, h.token_mint>> \in atas

DueTimes(h, inv) ==
    /\ inv.release_at < h.period_end_at + h.review_window_secs
    /\ inv.status = "Disputed" =>
          inv.dispute_deadline \in 1..inv.release_at + MaxDisputeWindow

ExitOK(p, h, invoices, atas) ==
    /\ ReserveKept(h)
    /\ VaultKept(p, h, atas)
    /\ \A i \in LiveIn(invoices) : DueTimes(h, invoices[i])

EInv == LInv /\ \A p \in Periods : ExitOK(p, period[p], invoice[p], potAta)

-----------------------------------------------------------------------------
(***************************************************************************)
(* The pot behind each period, as the abstract specification sees it: the  *)
(* accounts of its asset together.  The rent reserve is not part of the    *)
(* pot, and an address without a period has none, whatever dust its vaults *)
(* hold.                                                                   *)
(***************************************************************************)

AccountsOf(asset) == {acct \in VaultAccounts : AssetOf(acct) = asset}

MoneyIn(h, v) ==
    SumFunctionOnSet(v, AccountsOf(h.token_mint)) - h.vault_rent_reserve

MoneyOf(p) ==
    IF period[p].status = "Absent" THEN 0 ELSE MoneyIn(period[p], pot[p])

ClaimsOf(p) ==
    [i \in InvoiceIndices |-> invoice[p][i].amount_net + invoice[p][i].commission]

Abstract == INSTANCE Earmarks WITH
    Pots   <- Periods,
    Claims <- InvoiceIndices,
    money  <- [p \in Periods |-> MoneyOf(p)],
    claim  <- [p \in Periods |-> ClaimsOf(p)]

\* The hourly engine implements Earmarks: each staged invoice is a claim that
\* was covered in full and is paid in full, to whomever, exactly once, even if
\* staging, payouts and refunds name different accounts of the period.
ImplementsEarmarks == Abstract!Spec

-----------------------------------------------------------------------------
(***************************************************************************)
(* Liveness.  Time passes and somebody, with no authority at all, retries  *)
(* the permissionless instructions.  Nothing is assumed of the employer,   *)
(* the worker, the platform or the admin.                                  *)
(***************************************************************************)

\* finalize_invoice_* or auto_release_invoice_*, sent by anyone.
PushInvoice(p, i) ==
    \E caller \in Wallets :
        /\ \E acct \in VaultAccounts :
              \/ FinalizeInvoiceSol(p, acct, i, caller)
              \/ FinalizeInvoiceToken(p, acct, i, caller)
              \/ AutoReleaseInvoiceSol(p, acct, i, caller)
              \/ AutoReleaseInvoiceToken(p, acct, i, caller)
        /\ UNCHANGED <<config, now>>

PushSettle(p) ==
    (SettlePeriodSol(p) \/ SettlePeriodToken(p)) /\ UNCHANGED <<config, now>>

PushClose(p) ==
    /\ ClosePeriodSol(p) \/ \E acct \in TokenAccounts : ClosePeriodToken(p, acct)
    /\ UNCHANGED <<config, now>>

FairSpec ==
    /\ Spec
    /\ WF_hourlyVars(Tick)
    /\ \A p \in Periods :
          /\ WF_hourlyVars(PushSettle(p)) /\ WF_hourlyVars(PushClose(p))
          /\ \A i \in InvoiceIndices : WF_hourlyVars(PushInvoice(p, i))

\* README.md:281: approved work is always paid, even if the platform goes
\* quiet: every staged invoice is paid out, disputed or not, paused or not.
InvoicesEnd ==
    \A p \in Periods, i \in InvoiceIndices :
        i \in Live(p) ~> i \notin Live(p)

\* Every period winds down, funded or not: its money is refunded, its address
\* becomes free again, and no invoice, dispute, pause or delisting prevents it.
PeriodsWindDown ==
    \A p \in Periods : period[p].status # "Absent" ~> period[p].status = "Absent"
=============================================================================
