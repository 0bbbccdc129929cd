------------------------- MODULE HourlyLedgerProofs -------------------------
(***************************************************************************)
(* The books of the hourly engine, proved for any number of invoices: the  *)
(* running totals of a period are the sums over its invoices, every amount *)
(* funded is accounted for, and the engine implements Earmarks.  LInv of   *)
(* HourlyProperties is inductive on top of HInv.                           *)
(***************************************************************************)
EXTENDS HourlyProofs

-----------------------------------------------------------------------------
(* Sums over the invoices of a period. *)

LEMMA IndicesFinite == IsFiniteSet(InvoiceIndices)
BY HourlyAssumption, FS_Interval DEF InvoiceIndices

LEMMA InvoiceSumsNat ==
    ASSUME NEW invoices \in [InvoiceIndices -> InvoiceRecord]
    PROVE  NetOf(invoices) \in Nat /\ FeesOf(invoices) \in Nat
<1>1. \A i \in InvoiceIndices :
         invoices[i].amount_net \in Nat /\ invoices[i].commission \in Nat
  BY DEF InvoiceRecord
<1> QED
  BY <1>1, IndicesFinite, SumNat DEF NetOf, FeesOf, SumFunction

LEMMA OutcomeSumsNat ==
    ASSUME NEW outcomes \in [InvoiceIndices -> Outcome]
    PROVE  /\ FeesEnded(outcomes) \in Nat /\ PaidToWorker(outcomes) \in Nat
           /\ PaidToOthers(outcomes) \in Nat
<1>1. \A i \in InvoiceIndices :
         /\ outcomes[i].commission \in Nat /\ outcomes[i].employee \in Nat
         /\ outcomes[i].treasury \in Nat /\ outcomes[i].employer \in Nat
         /\ outcomes[i].treasury + outcomes[i].employer \in Nat
  BY DEF Outcome
<1> QED
  BY <1>1, IndicesFinite, SumNat
  DEF FeesEnded, PaidToWorker, PaidToOthers, SumFunction

\* The account of one invoice is created, changed or closed.
LEMMA InvoiceReplaced ==
    ASSUME NEW invoices \in [InvoiceIndices -> InvoiceRecord],
           NEW i \in InvoiceIndices, NEW inv \in InvoiceRecord
    PROVE  /\ NetOf([invoices EXCEPT ![i] = inv])
                = NetOf(invoices) - invoices[i].amount_net + inv.amount_net
           /\ FeesOf([invoices EXCEPT ![i] = inv])
                = FeesOf(invoices) - invoices[i].commission + inv.commission
<1> DEFINE after == [invoices EXCEPT ![i] = inv]
           net == [x \in InvoiceIndices |-> invoices[x].amount_net]
           netAfter == [x \in InvoiceIndices |-> after[x].amount_net]
           fee == [x \in InvoiceIndices |-> invoices[x].commission]
           feeAfter == [x \in InvoiceIndices |-> after[x].commission]
<1>1. /\ after \in [InvoiceIndices -> InvoiceRecord] /\ after[i] = inv
      /\ \A x \in InvoiceIndices \ {i} : after[x] = invoices[x]
  OBVIOUS
<1> HIDE DEF after
<1>2. \A x \in InvoiceIndices : /\ net[x] \in Nat /\ netAfter[x] \in Nat
                                /\ fee[x] \in Nat /\ feeAfter[x] \in Nat
  BY <1>1 DEF InvoiceRecord
<1>3. \A x \in InvoiceIndices \ {i} : net[x] = netAfter[x] /\ fee[x] = feeAfter[x]
  BY <1>1
<1>4. /\ net[i] = invoices[i].amount_net /\ netAfter[i] = inv.amount_net
      /\ fee[i] = invoices[i].commission /\ feeAfter[i] = inv.commission
  BY <1>1
<1>5. /\ NetOf(invoices) = SumFunctionOnSet(net, InvoiceIndices)
      /\ NetOf(after) = SumFunctionOnSet(netAfter, InvoiceIndices)
      /\ FeesOf(invoices) = SumFunctionOnSet(fee, InvoiceIndices)
      /\ FeesOf(after) = SumFunctionOnSet(feeAfter, InvoiceIndices)
  BY DEF NetOf, FeesOf, SumFunction
<1> HIDE DEF net, netAfter, fee, feeAfter
<1>6. NetOf(after) = NetOf(invoices) - net[i] + netAfter[i]
  BY <1>2, <1>3, <1>5, IndicesFinite, SumReplace
<1>7. FeesOf(after) = FeesOf(invoices) - fee[i] + feeAfter[i]
  BY <1>2, <1>3, <1>5, IndicesFinite, SumReplace
<1> QED
  BY <1>4, <1>6, <1>7 DEF after

\* An invoice ends that had not ended before.
LEMMA OutcomeReplaced ==
    ASSUME NEW outcomes \in [InvoiceIndices -> Outcome],
           NEW i \in InvoiceIndices, NEW o \in Outcome, outcomes[i] = NoOutcome
    PROVE  LET after == [outcomes EXCEPT ![i] = o] IN
           /\ FeesEnded(after) = FeesEnded(outcomes) + o.commission
           /\ PaidToWorker(after) = PaidToWorker(outcomes) + o.employee
           /\ PaidToOthers(after) = PaidToOthers(outcomes) + (o.treasury + o.employer)
<1> DEFINE after == [outcomes EXCEPT ![i] = o]
           fee == [x \in InvoiceIndices |-> outcomes[x].commission]
           feeAfter == [x \in InvoiceIndices |-> after[x].commission]
           worker == [x \in InvoiceIndices |-> outcomes[x].employee]
           workerAfter == [x \in InvoiceIndices |-> after[x].employee]
           others == [x \in InvoiceIndices |->
                         outcomes[x].treasury + outcomes[x].employer]
           othersAfter == [x \in InvoiceIndices |-> after[x].treasury + after[x].employer]
<1>1. /\ after \in [InvoiceIndices -> Outcome] /\ after[i] = o
      /\ \A x \in InvoiceIndices \ {i} : after[x] = outcomes[x]
  OBVIOUS
<1> HIDE DEF after
<1>2. \A x \in InvoiceIndices : /\ fee[x] \in Nat /\ feeAfter[x] \in Nat
                                /\ worker[x] \in Nat /\ workerAfter[x] \in Nat
                                /\ others[x] \in Nat /\ othersAfter[x] \in Nat
  BY <1>1 DEF Outcome
<1>3. \A x \in InvoiceIndices \ {i} : /\ fee[x] = feeAfter[x]
                                      /\ worker[x] = workerAfter[x]
                                      /\ others[x] = othersAfter[x]
  BY <1>1
<1>4. /\ fee[i] = 0 /\ feeAfter[i] = o.commission
      /\ worker[i] = 0 /\ workerAfter[i] = o.employee
      /\ others[i] = 0 /\ othersAfter[i] = o.treasury + o.employer
  BY <1>1 DEF NoOutcome
<1>5. /\ FeesEnded(outcomes) = SumFunctionOnSet(fee, InvoiceIndices)
      /\ FeesEnded(after) = SumFunctionOnSet(feeAfter, InvoiceIndices)
      /\ PaidToWorker(outcomes) = SumFunctionOnSet(worker, InvoiceIndices)
      /\ PaidToWorker(after) = SumFunctionOnSet(workerAfter, InvoiceIndices)
      /\ PaidToOthers(outcomes) = SumFunctionOnSet(others, InvoiceIndices)
      /\ PaidToOthers(after) = SumFunctionOnSet(othersAfter, InvoiceIndices)
  BY DEF FeesEnded, PaidToWorker, PaidToOthers, SumFunction
<1>6. /\ fee[i] \in Nat /\ feeAfter[i] \in Nat /\ worker[i] \in Nat
      /\ workerAfter[i] \in Nat /\ others[i] \in Nat /\ othersAfter[i] \in Nat
      /\ FeesEnded(outcomes) \in Nat /\ PaidToWorker(outcomes) \in Nat
      /\ PaidToOthers(outcomes) \in Nat
  BY <1>2, OutcomeSumsNat
<1> HIDE DEF fee, feeAfter, worker, workerAfter, others, othersAfter
<1>7. FeesEnded(after) = FeesEnded(outcomes) - fee[i] + feeAfter[i]
  BY <1>2, <1>3, <1>5, IndicesFinite, SumReplace
<1>8. PaidToWorker(after) = PaidToWorker(outcomes) - worker[i] + workerAfter[i]
  BY <1>2, <1>3, <1>5, IndicesFinite, SumReplace
<1>9. PaidToOthers(after) = PaidToOthers(outcomes) - others[i] + othersAfter[i]
  BY <1>2, <1>3, <1>5, IndicesFinite, SumReplace
<1>10. /\ FeesEnded(after) = FeesEnded(outcomes) + feeAfter[i]
       /\ PaidToWorker(after) = PaidToWorker(outcomes) + workerAfter[i]
       /\ PaidToOthers(after) = PaidToOthers(outcomes) + othersAfter[i]
  BY <1>4, <1>6, <1>7, <1>8, <1>9
<1> QED
  BY <1>4, <1>10 DEF after

\* A period without invoices, whose address was never used or freed.
LEMMA NoInvoicesSums ==
    ASSUME NEW invoices, NEW outcomes,
           \A i \in InvoiceIndices :
               invoices[i] = BlankInvoice /\ outcomes[i] = NoOutcome
    PROVE  /\ NetOf(invoices) = 0 /\ FeesOf(invoices) = 0
           /\ LiveIn(invoices) = {} /\ Cardinality(LiveIn(invoices)) = 0
           /\ FeesEnded(outcomes) = 0 /\ PaidToWorker(outcomes) = 0
           /\ PaidToOthers(outcomes) = 0
<1>1. \A i \in InvoiceIndices :
         /\ invoices[i].amount_net = 0 /\ invoices[i].commission = 0
         /\ outcomes[i].commission = 0 /\ outcomes[i].employee = 0
         /\ outcomes[i].treasury + outcomes[i].employer = 0
  BY DEF BlankInvoice, NoOutcome
<1>2. LiveIn(invoices) = {}
  BY DEF LiveIn, BlankInvoice
<1>3. /\ NetOf(invoices) = 0 /\ FeesOf(invoices) = 0
      /\ FeesEnded(outcomes) = 0 /\ PaidToWorker(outcomes) = 0
      /\ PaidToOthers(outcomes) = 0
  BY <1>1, IndicesFinite, SumOfZeros
  DEF NetOf, FeesOf, FeesEnded, PaidToWorker, PaidToOthers, SumFunction
<1> QED
  BY <1>2, <1>3, FS_EmptySet

-----------------------------------------------------------------------------
(* Instructions on the period account. *)

LEMMA CapGrossNat ==
    ASSUME HourlyTypeOK, NEW p \in Periods
    PROVE  CapGross(period[p]) \in Nat
<1>1. period[p].weekly_cap_net \in Nat /\ period[p].commission_rate_bps \in Nat
  BY PeriodFieldTypes
<1>2. CalculateCommission(period[p].weekly_cap_net, period[p].commission_rate_bps) \in Nat
  BY <1>1, CommissionNat
<1> QED
  BY <1>1, <1>2, SMT DEF CapGross

\* What SumsOK says, with the types it says it of.
LEMMA SumFacts ==
    ASSUME LInv, NEW p \in Periods
    PROVE  /\ HInv /\ HourlyTypeOK /\ BooksOK(period[p], invoice[p], outcome[p])
           /\ SumsOK(period[p], invoice[p], pot[p], outcome[p])
           /\ NetOf(invoice[p]) \in Nat /\ FeesOf(invoice[p]) \in Nat
           /\ FeesEnded(outcome[p]) \in Nat /\ PaidToWorker(outcome[p]) \in Nat
           /\ PaidToOthers(outcome[p]) \in Nat
           /\ period[p].status # "Absent" => period[p].token_mint \in Assets
                                             /\ pot[p][period[p].token_mint] \in Nat
BY PeriodFacts, PeriodFieldTypes, InvoiceSumsNat, OutcomeSumsNat, AccountsByAsset DEF LInv

\* A handler that leaves the invoices and what was staged alone needs only to
\* account for the money.
LEMMA AmendSums ==
    ASSUME NEW h, NEW k, NEW invoices, NEW v, NEW w, NEW outcomes,
           SumsOK(h, invoices, v, outcomes),
           k.status # "Absent",
           k.total_staged_net = h.total_staged_net,
           k.commission_rate_bps = h.commission_rate_bps,
           k.outstanding_net = h.outstanding_net,
           k.outstanding_commission = h.outstanding_commission,
           k.live_invoices = h.live_invoices, k.invoice_count = h.invoice_count,
           MoneyAccounted(k, w, outcomes)
    PROVE  SumsOK(k, invoices, w, outcomes)
BY DEF SumsOK, IndicesUsedOnce, LedgerMatches

\* open_period starts from clean books, whatever the address was used for.
LEMMA OpenPeriodSums ==
    ASSUME LInv, NEW p \in Periods, NEW signer \in Wallets,
           NEW employer \in Users, NEW employee \in Users, NEW mint \in Assets,
           NEW cap \in Caps, NEW rate \in Rates, NEW review \in ReviewWindows,
           NEW start \in PeriodStarts, NEW duration \in PeriodDurations,
           OpenPeriod(p, signer, employer, employee, mint, cap, rate, review,
                      start, duration)
    PROVE  SumsOK(period'[p], invoice'[p], pot'[p], outcome'[p])
<1> DEFINE end == start + duration
           h == [ BlankPeriod EXCEPT
                    !.status = "Open",
                    !.employer = employer, !.employee = employee,
                    !.platform_authority = config.platform_authority,
                    !.fee_recipient = config.fee_recipient,
                    !.token_mint = mint,
                    !.weekly_cap_net = cap, !.commission_rate_bps = rate,
                    !.review_window_secs = review,
                    !.period_start_at = start, !.period_end_at = end ]
<1>1. /\ HourlyTypeOK /\ BooksOK(period[p], invoice[p], outcome[p])
      /\ SumsOK(period[p], invoice[p], pot[p], outcome[p])
      /\ period[p].status = "Absent"
  BY SumFacts DEF OpenPeriod
<1>2. /\ period'[p] = h /\ invoice'[p] = invoice[p] /\ pot'[p] = pot[p]
      /\ outcome'[p] = outcome[p]
  BY <1>1 DEF OpenPeriod, HourlyTypeOK
<1>3. /\ h.status = "Open" /\ h.token_mint = mint
      /\ h.weekly_cap_net = cap /\ h.commission_rate_bps = rate
      /\ h.live_invoices = 0 /\ h.invoice_count = 0 /\ h.vault_rent_reserve = 0
      /\ h.outstanding_net = 0 /\ h.outstanding_commission = 0
      /\ h.total_staged_net = 0 /\ h.released_net = 0
      /\ h.funded_gross = 0 /\ h.refunded_amount = 0
  <2> HIDE DEF end
  <2> QED
    BY Zenon DEF BlankPeriod
<1> HIDE DEF h
<1>4. \A i \in InvoiceIndices :
         invoice[p][i] = BlankInvoice /\ outcome[p][i] = NoOutcome
  <2>1. LiveIn(invoice[p]) = {}
    BY <1>1, AbsentHasNone
  <2>2. period[p].invoice_count = 0
    BY <1>1 DEF SumsOK, IndicesUsedOnce, BlankPeriod
  <2>3. EndedIn(outcome[p]) = {}
    BY <1>1, <2>2, HourlyAssumption DEF SumsOK, IndicesUsedOnce, EndedIn, InvoiceIndices
  <2> QED
    BY <1>1, <2>1, <2>3 DEF SumsOK, IndicesUsedOnce, LiveIn, EndedIn
<1>5. cap \in Nat /\ rate \in Nat /\ pot[p][mint] \in Nat
  BY <1>1, HourlyAssumption, ConfigAssumption, PeriodFieldTypes, AccountsByAsset
<1>6. LedgerMatches(h, invoice[p], outcome[p])
  BY <1>3, <1>4, <1>5, NoInvoicesSums, CommissionOfZero DEF LedgerMatches
<1>7. MoneyAccounted(h, pot[p], outcome[p])
  <2>1. CapGross(h) \in Nat
    <3>1. CalculateCommission(cap, rate) \in Nat
      BY <1>5, CommissionNat
    <3> QED
      BY <1>3, <1>5, <3>1 DEF CapGross
  <2>2. PaidToWorker(outcome[p]) = 0 /\ PaidToOthers(outcome[p]) = 0
    BY <1>4, NoInvoicesSums
  <2> QED
    BY <1>3, <1>5, <2>1, <2>2 DEF MoneyAccounted
<1>8. IndicesUsedOnce(h, invoice[p], outcome[p])
  BY <1>3, <1>4 DEF IndicesUsedOnce, EndedIn, BlankInvoice
<1> QED
  BY <1>2, <1>6, <1>7, <1>8 DEF SumsOK

\* fund_period_* tops up to the cap, never beyond it.
LEMMA FundPeriodSums ==
    ASSUME LInv, NEW p \in Periods, NEW signer \in Wallets,
           NEW max_fund_amount \in Nat, NEW seed \in Nat,
           FundPeriod(p, signer, max_fund_amount, seed)
    PROVE  SumsOK(period'[p], invoice'[p], pot'[p], outcome'[p])
<1> DEFINE m == period[p].token_mint
           cap == CapGross(period[p])
           to_fund == cap - period[p].funded_gross
           status == IF period[p].status = "Open" THEN "Funded" ELSE period[p].status
           gross == period[p].funded_gross + to_fund
           reserve == period[p].vault_rent_reserve + seed
           h == [period[p] EXCEPT !.funded_gross = gross,
                                  !.vault_rent_reserve = reserve,
                                  !.status = status]
           v == [pot[p] EXCEPT ![m] = @ + to_fund + seed]
<1>1. /\ HourlyTypeOK /\ period[p].status \in Unsettled /\ m \in Assets
      /\ SumsOK(period[p], invoice[p], pot[p], outcome[p])
      /\ PaidToWorker(outcome[p]) \in Nat /\ PaidToOthers(outcome[p]) \in Nat
  BY SumFacts DEF FundPeriod, Unsettled
<1>2. /\ period[p] \in PeriodRecord /\ pot[p] \in [VaultAccounts -> Nat] /\ pot[p][m] \in Nat
      /\ period[p].vault_rent_reserve \in Nat /\ period[p].funded_gross \in Nat
      /\ period[p].refunded_amount \in Nat /\ m \in VaultAccounts
  BY <1>1, PeriodFieldTypes, AccountsByAsset
<1>3. cap \in Nat
  BY <1>1, PeriodFieldTypes, CapGrossNat
<1>4. to_fund \in Nat
  <2>1. to_fund > 0
    BY DEF FundPeriod
  <2> HIDE DEF cap
  <2> QED
    BY <1>2, <1>3, <2>1
<1>5. /\ period'[p] = h /\ invoice'[p] = invoice[p] /\ pot'[p] = v
      /\ outcome'[p] = outcome[p]
  BY <1>1 DEF FundPeriod, HourlyTypeOK
<1>6. /\ h.status = status /\ h.token_mint = m
      /\ h.funded_gross = gross /\ h.vault_rent_reserve = reserve
      /\ h.refunded_amount = period[p].refunded_amount
      /\ h.released_net = period[p].released_net
      /\ h.total_staged_net = period[p].total_staged_net
      /\ h.weekly_cap_net = period[p].weekly_cap_net
      /\ h.commission_rate_bps = period[p].commission_rate_bps
      /\ h.live_invoices = period[p].live_invoices
      /\ h.invoice_count = period[p].invoice_count
      /\ h.outstanding_net = period[p].outstanding_net
      /\ h.outstanding_commission = period[p].outstanding_commission
  <2> HIDE DEF status, gross, reserve
  <2> QED
    BY <1>2, Zenon DEF PeriodRecord
<1>7. v[m] = pot[p][m] + to_fund + seed
  <2> HIDE DEF to_fund
  <2> QED
    BY <1>1, <1>2, <1>4
<1>8. gross = cap /\ CapGross(h) = cap /\ status # "Absent"
  <2>1. CapGross(h) = cap
    <3> HIDE DEF h
    <3> QED
      BY <1>6 DEF CapGross
  <2>2. gross = cap
    <3> HIDE DEF cap
    <3> QED
      BY <1>2, <1>3
  <2> QED
    BY <1>1, <2>1, <2>2 DEF Unsettled
<1> HIDE DEF h, v, to_fund
<1>9. MoneyAccounted(h, v, outcome[p])
  <2>1. /\ PaidToWorker(outcome[p]) = period[p].released_net
        /\ period[p].total_staged_net <= period[p].weekly_cap_net
        /\ pot[p][m] + PaidToWorker(outcome[p]) + PaidToOthers(outcome[p])
               + period[p].refunded_amount
           >= period[p].funded_gross + period[p].vault_rent_reserve
    BY <1>1 DEF SumsOK, MoneyAccounted, Unsettled
  <2>2. /\ PaidToWorker(outcome[p]) = h.released_net
        /\ h.total_staged_net <= h.weekly_cap_net
    BY <1>6, <2>1
  <2>3. h.funded_gross <= CapGross(h)
    BY <1>3, <1>6, <1>8
  <2>4. v[m] + PaidToWorker(outcome[p]) + PaidToOthers(outcome[p]) + h.refunded_amount
        >= h.funded_gross + h.vault_rent_reserve
    BY <1>1, <1>2, <1>4, <1>6, <1>7, <2>1
  <2> QED
    BY <1>6, <2>2, <2>3, <2>4 DEF MoneyAccounted
<1>10. SumsOK(h, invoice[p], v, outcome[p])
  BY <1>1, <1>6, <1>8, <1>9, AmendSums
<1> QED
  BY <1>5, <1>10

\* raise_weekly_cap only makes room: the gross cap grows with the net one.
LEMMA RaiseWeeklyCapSums ==
    ASSUME LInv, NEW p \in Periods, NEW signer \in Wallets, NEW cap \in Nat,
           RaiseWeeklyCap(p, signer, cap)
    PROVE  SumsOK(period'[p], invoice'[p], pot'[p], outcome'[p])
<1> DEFINE h == [period[p] EXCEPT !.weekly_cap_net = cap]
<1>1. /\ HourlyTypeOK /\ period[p].status \in Unsettled
      /\ SumsOK(period[p], invoice[p], pot[p], outcome[p])
  BY SumFacts DEF RaiseWeeklyCap
<1>2. /\ period[p] \in PeriodRecord /\ period[p].weekly_cap_net \in Nat
      /\ period[p].commission_rate_bps \in Nat /\ period[p].funded_gross \in Nat
  BY <1>1, PeriodFieldTypes
<1>3. /\ period'[p] = h /\ invoice'[p] = invoice[p] /\ pot'[p] = pot[p]
      /\ outcome'[p] = outcome[p]
  BY <1>1 DEF RaiseWeeklyCap, HourlyTypeOK
<1>4. /\ h.status = period[p].status /\ h.token_mint = period[p].token_mint
      /\ h.weekly_cap_net = cap
      /\ h.funded_gross = period[p].funded_gross
      /\ h.vault_rent_reserve = period[p].vault_rent_reserve
      /\ h.refunded_amount = period[p].refunded_amount
      /\ h.released_net = period[p].released_net
      /\ h.total_staged_net = period[p].total_staged_net
      /\ h.commission_rate_bps = period[p].commission_rate_bps
      /\ h.live_invoices = period[p].live_invoices
      /\ h.invoice_count = period[p].invoice_count
      /\ h.outstanding_net = period[p].outstanding_net
      /\ h.outstanding_commission = period[p].outstanding_commission
  BY <1>2, Zenon DEF PeriodRecord
<1>5. period[p].weekly_cap_net <= cap /\ period[p].total_staged_net <= cap
  BY <1>2 DEF RaiseWeeklyCap
<1> HIDE DEF h
<1>6. CapGross(period[p]) <= CapGross(h) /\ CapGross(period[p]) \in Nat
      /\ CapGross(h) \in Nat
  <2> DEFINE before == CalculateCommission(period[p].weekly_cap_net,
                                           period[p].commission_rate_bps)
             after == CalculateCommission(cap, period[p].commission_rate_bps)
  <2>1. before <= after /\ before \in Nat /\ after \in Nat
    BY <1>2, <1>5, CommissionMonotone, CommissionNat
  <2>2. /\ CapGross(period[p]) = period[p].weekly_cap_net + before
        /\ CapGross(h) = cap + after
    BY <1>4 DEF CapGross
  <2> HIDE DEF before, after
  <2> QED
    BY <1>2, <1>5, <2>1, <2>2
<1>7. MoneyAccounted(h, pot[p], outcome[p])
  BY <1>1, <1>2, <1>4, <1>5, <1>6 DEF SumsOK, MoneyAccounted, Unsettled
<1>8. SumsOK(h, invoice[p], pot[p], outcome[p])
  BY <1>1, <1>4, <1>7, AmendSums DEF Unsettled
<1> QED
  BY <1>3, <1>8

\* What settle_period_* takes out is booked as refunded.
LEMMA SettlePeriodSums ==
    ASSUME LInv, NEW p \in Periods, SettlePeriod(p)
    PROVE  SumsOK(period'[p], invoice'[p], pot'[p], outcome'[p])
<1> DEFINE m == period[p].token_mint
           kept == Reserved(period[p])
           refunded == period[p].refunded_amount + (pot[p][m] - kept)
           h == [period[p] EXCEPT !.status = "Settled", !.refunded_amount = refunded]
           v == [pot[p] EXCEPT ![m] = kept]
<1>1. /\ HourlyTypeOK /\ period[p].status \in Unsettled /\ m \in Assets
      /\ SumsOK(period[p], invoice[p], pot[p], outcome[p])
      /\ PaidToWorker(outcome[p]) \in Nat /\ PaidToOthers(outcome[p]) \in Nat
  BY SumFacts DEF SettlePeriod, Refundable, Unsettled
<1>2. /\ period[p] \in PeriodRecord /\ pot[p] \in [VaultAccounts -> Nat] /\ pot[p][m] \in Nat
      /\ period[p].vault_rent_reserve \in Nat /\ period[p].refunded_amount \in Nat
      /\ period[p].outstanding_net \in Nat /\ period[p].outstanding_commission \in Nat
      /\ period[p].weekly_cap_net \in Nat /\ period[p].commission_rate_bps \in Nat
      /\ period[p].funded_gross \in Nat /\ m \in VaultAccounts
  BY <1>1, PeriodFieldTypes, AccountsByAsset
<1>3. kept \in Nat
  BY <1>2 DEF Reserved, OutstandingTotal
<1>4. /\ period'[p] = h /\ invoice'[p] = invoice[p] /\ pot'[p] = v
      /\ outcome'[p] = outcome[p]
  BY <1>1 DEF SettlePeriod, Refundable, HourlyTypeOK, Pot
<1> HIDE DEF kept
<1>5. /\ h.status = "Settled" /\ h.token_mint = m /\ h.refunded_amount = refunded
      /\ h.weekly_cap_net = period[p].weekly_cap_net
      /\ h.funded_gross = period[p].funded_gross
      /\ h.vault_rent_reserve = period[p].vault_rent_reserve
      /\ h.released_net = period[p].released_net
      /\ h.total_staged_net = period[p].total_staged_net
      /\ h.commission_rate_bps = period[p].commission_rate_bps
      /\ h.live_invoices = period[p].live_invoices
      /\ h.invoice_count = period[p].invoice_count
      /\ h.outstanding_net = period[p].outstanding_net
      /\ h.outstanding_commission = period[p].outstanding_commission
  <2> HIDE DEF refunded
  <2> QED
    BY <1>2, Zenon DEF PeriodRecord
<1>6. v[m] = kept
  BY <1>1, <1>2
<1> HIDE DEF h, v
<1>7. MoneyAccounted(h, v, outcome[p])
  <2>1. CapGross(h) = CapGross(period[p])
    BY <1>5 DEF CapGross
  <2>2. v[m] + PaidToWorker(outcome[p]) + PaidToOthers(outcome[p]) + h.refunded_amount
        = pot[p][m] + PaidToWorker(outcome[p]) + PaidToOthers(outcome[p])
              + period[p].refunded_amount
    BY <1>1, <1>2, <1>3, <1>5, <1>6
  <2> QED
    BY <1>1, <1>5, <2>1, <2>2 DEF SumsOK, MoneyAccounted, Unsettled
<1>8. SumsOK(h, invoice[p], v, outcome[p])
  BY <1>1, <1>5, <1>7, AmendSums
<1> QED
  BY <1>4, <1>8

\* close_period_* leaves an address as if it had never been used.
LEMMA ClosePeriodSums ==
    ASSUME LInv, NEW p \in Periods, NEW acct, ClosePeriod(p, acct)
    PROVE  SumsOK(period'[p], invoice'[p], pot'[p], outcome'[p])
<1>1. /\ HourlyTypeOK /\ BooksOK(period[p], invoice[p], outcome[p])
      /\ SumsOK(period[p], invoice[p], pot[p], outcome[p])
      /\ period[p].live_invoices = 0
  BY SumFacts DEF ClosePeriod, Closable
<1>2. /\ period'[p] = BlankPeriod /\ invoice'[p] = invoice[p]
      /\ outcome'[p] = [i \in InvoiceIndices |-> NoOutcome]
  BY <1>1 DEF ClosePeriod, HourlyTypeOK
<1>3. LiveIn(invoice[p]) = {}
  BY <1>1, LiveFinite, FS_EmptySet DEF BooksOK
<1>4. \A i \in InvoiceIndices :
         invoice[p][i] = BlankInvoice /\ outcome'[p][i] = NoOutcome
  BY <1>1, <1>2, <1>3 DEF SumsOK, IndicesUsedOnce, LiveIn
<1>5. LedgerMatches(BlankPeriod, invoice[p], outcome'[p])
  <2>1. /\ BlankPeriod.outstanding_net = 0 /\ BlankPeriod.outstanding_commission = 0
        /\ BlankPeriod.live_invoices = 0 /\ BlankPeriod.total_staged_net = 0
        /\ BlankPeriod.commission_rate_bps = 0
    BY DEF BlankPeriod
  <2>2. /\ NetOf(invoice[p]) = 0 /\ FeesOf(invoice[p]) = 0
        /\ Cardinality(LiveIn(invoice[p])) = 0 /\ FeesEnded(outcome'[p]) = 0
    BY <1>4, NoInvoicesSums
  <2>3. CalculateCommission(0, 0) = 0
    BY CommissionOfZero
  <2> QED
    BY <2>1, <2>2, <2>3 DEF LedgerMatches
<1>6. /\ IndicesUsedOnce(BlankPeriod, invoice[p], outcome'[p])
      /\ MoneyAccounted(BlankPeriod, pot'[p], outcome'[p])
  BY <1>4 DEF IndicesUsedOnce, EndedIn, BlankInvoice, MoneyAccounted, BlankPeriod
<1> QED
  BY <1>2, <1>5, <1>6 DEF SumsOK

-----------------------------------------------------------------------------
(* Instructions on an invoice. *)

\* What register_staged books is the growth of the commission on the total, and
\* never a rounding of its own.
LEMMA MarginalCommissionIsGrowth ==
    ASSUME HourlyTypeOK, NEW p \in Periods, NEW amount \in Nat
    PROVE  MarginalCommission(period[p], amount)
           = CalculateCommission(period[p].total_staged_net + amount,
                                 period[p].commission_rate_bps)
             - CalculateCommission(period[p].total_staged_net,
                                   period[p].commission_rate_bps)
<1> DEFINE staged == period[p].total_staged_net
           rate == period[p].commission_rate_bps
           before == CalculateCommission(staged, rate)
           after == CalculateCommission(staged + amount, rate)
<1>1. staged \in Nat /\ rate \in Nat /\ staged + amount \in Nat
      /\ staged <= staged + amount
  BY PeriodFieldTypes
<1>2. before \in Nat /\ after \in Nat /\ before <= after
  <2> HIDE DEF staged, rate
  <2> QED
    BY <1>1, CommissionNat, CommissionMonotone
<1>3. MarginalCommission(period[p], amount) = SaturatingSub(after, before)
  BY DEF MarginalCommission
<1> HIDE DEF before, after
<1>4. SaturatingSub(after, before) = after - before
  BY <1>2 DEF SaturatingSub
<1> QED
  BY <1>3, <1>4 DEF before, after

\* stage_invoice_* books the new invoice in every total.
LEMMA StageInvoiceSums ==
    ASSUME LInv, NEW p \in Periods, NEW acct, NEW signer \in Wallets,
           NEW amount \in Nat, StageInvoice(p, acct, signer, amount)
    PROVE  SumsOK(period'[p], invoice'[p], pot'[p], outcome'[p])
<1> DEFINE fee == MarginalCommission(period[p], amount)
           i == period[p].invoice_count
           due == now + period[p].review_window_secs
           inv == [ status |-> "Staged", amount_net |-> amount, commission |-> fee,
                    release_at |-> due, dispute_deadline |-> 0 ]
           invoices == [invoice[p] EXCEPT ![i] = inv]
           staged == period[p].total_staged_net + amount
           net == period[p].outstanding_net + amount
           commission == period[p].outstanding_commission + fee
           count == period[p].invoice_count + 1
           live == period[p].live_invoices + 1
           h == [ period[p] EXCEPT !.total_staged_net = staged, !.outstanding_net = net,
                                   !.outstanding_commission = commission,
                                   !.invoice_count = count, !.live_invoices = live,
                                   !.status = "Active" ]
<1>1. /\ HourlyTypeOK /\ SumsOK(period[p], invoice[p], pot[p], outcome[p])
      /\ period[p].status \in {"Funded", "Active"} /\ amount > 0
      /\ staged <= period[p].weekly_cap_net
      /\ NetOf(invoice[p]) \in Nat /\ FeesOf(invoice[p]) \in Nat
      /\ FeesEnded(outcome[p]) \in Nat
  BY SumFacts DEF StageInvoice
<1>2. /\ period[p] \in PeriodRecord
      /\ period[p].total_staged_net \in Nat /\ i \in Nat
      /\ period[p].outstanding_net \in Nat /\ period[p].outstanding_commission \in Nat
      /\ period[p].live_invoices \in Nat /\ period[p].commission_rate_bps \in Nat
      /\ invoice[p] \in [InvoiceIndices -> InvoiceRecord]
  BY <1>1, PeriodFieldTypes
<1>3. fee \in Nat /\ due \in Nat
  BY <1>1, MarginalCommissionNat, PeriodFieldTypes
<1>4. i \in InvoiceIndices /\ invoice[p][i] = BlankInvoice
  <2>1. i \in InvoiceIndices /\ invoice[p][i].status = "Absent"
    BY <1>2, HourlyAssumption DEF StageInvoice, InvoiceIndices
  <2> QED
    BY <1>1, <2>1 DEF SumsOK, IndicesUsedOnce
<1>5. /\ period'[p] = h /\ invoice'[p] = invoices /\ pot'[p] = pot[p]
      /\ outcome'[p] = outcome[p]
  <2>1. /\ period'[p] = [RegisterStaged(period[p], amount, fee) EXCEPT !.status = "Active"]
        /\ invoice'[p] = invoices /\ pot'[p] = pot[p] /\ outcome'[p] = outcome[p]
    BY <1>1 DEF StageInvoice, HourlyTypeOK
  <2>2. [RegisterStaged(period[p], amount, fee) EXCEPT !.status = "Active"] = h
    BY <1>2 DEF RegisterStaged, PeriodRecord
  <2> QED
    BY <2>1, <2>2
<1>6. /\ fee = CalculateCommission(staged, period[p].commission_rate_bps)
             - CalculateCommission(period[p].total_staged_net,
                                   period[p].commission_rate_bps)
      /\ CalculateCommission(staged, period[p].commission_rate_bps) \in Nat
      /\ CalculateCommission(period[p].total_staged_net,
                             period[p].commission_rate_bps) \in Nat
  <2>1. staged \in Nat
    BY <1>2
  <2> QED
    BY <1>1, <1>2, <2>1, MarginalCommissionIsGrowth, CommissionNat
<1> HIDE DEF fee, due
<1>7. /\ inv \in InvoiceRecord /\ inv.status = "Staged" /\ inv.amount_net = amount
      /\ inv.commission = fee
  BY <1>3 DEF InvoiceRecord
<1> HIDE DEF inv
<1>8. /\ NetOf(invoices) = NetOf(invoice[p]) + amount
      /\ FeesOf(invoices) = FeesOf(invoice[p]) + fee
      /\ Cardinality(LiveIn(invoices)) = Cardinality(LiveIn(invoice[p])) + 1
  <2>1. /\ NetOf(invoices) = NetOf(invoice[p]) - invoice[p][i].amount_net + inv.amount_net
        /\ FeesOf(invoices) = FeesOf(invoice[p]) - invoice[p][i].commission + inv.commission
    BY <1>2, <1>4, <1>7, InvoiceReplaced
  <2>2. invoice[p][i].amount_net = 0 /\ invoice[p][i].commission = 0
        /\ invoice[p][i].status = "Absent"
    BY <1>4 DEF BlankInvoice
  <2>3. Cardinality(LiveIn(invoices)) = Cardinality(LiveIn(invoice[p])) + 1
    BY <1>2, <1>4, <1>7, <2>2, LiveAdded
  <2> HIDE DEF invoices
  <2> QED
    BY <1>1, <1>3, <1>7, <2>1, <2>2, <2>3
<1>9. /\ h.status = "Active" /\ h.token_mint = period[p].token_mint
      /\ h.total_staged_net = staged /\ h.outstanding_net = net
      /\ h.outstanding_commission = commission
      /\ h.invoice_count = count /\ h.live_invoices = live
      /\ h.commission_rate_bps = period[p].commission_rate_bps
      /\ h.weekly_cap_net = period[p].weekly_cap_net
      /\ h.released_net = period[p].released_net
      /\ h.funded_gross = period[p].funded_gross
      /\ h.refunded_amount = period[p].refunded_amount
      /\ h.vault_rent_reserve = period[p].vault_rent_reserve
  <2> HIDE DEF staged, net, commission, count, live
  <2> QED
    BY <1>2, Zenon DEF PeriodRecord
<1> HIDE DEF h
<1>10. LedgerMatches(h, invoices, outcome[p])
  <2>1. /\ period[p].outstanding_net = NetOf(invoice[p])
        /\ period[p].outstanding_commission = FeesOf(invoice[p])
        /\ period[p].live_invoices = Cardinality(LiveIn(invoice[p]))
        /\ period[p].outstanding_commission + FeesEnded(outcome[p])
             = CalculateCommission(period[p].total_staged_net,
                                   period[p].commission_rate_bps)
    BY <1>1 DEF SumsOK, LedgerMatches
  <2>2. /\ h.outstanding_net = NetOf(invoices)
        /\ h.outstanding_commission = FeesOf(invoices)
        /\ h.live_invoices = Cardinality(LiveIn(invoices))
    BY <1>8, <1>9, <2>1
  <2>3. h.outstanding_commission + FeesEnded(outcome[p])
        = CalculateCommission(h.total_staged_net, h.commission_rate_bps)
    <3> DEFINE before == CalculateCommission(period[p].total_staged_net,
                                             period[p].commission_rate_bps)
               after == CalculateCommission(staged, period[p].commission_rate_bps)
    <3>1. /\ fee = after - before /\ before \in Nat /\ after \in Nat
          /\ CalculateCommission(h.total_staged_net, h.commission_rate_bps) = after
      BY <1>6, <1>9
    <3>2. period[p].outstanding_commission + FeesEnded(outcome[p]) = before
      BY <2>1
    <3> HIDE DEF before, after
    <3> QED
      BY <1>1, <1>2, <1>3, <1>9, <3>1, <3>2
  <2> QED
    BY <2>2, <2>3 DEF LedgerMatches
<1>11. MoneyAccounted(h, pot[p], outcome[p])
  <2>1. CapGross(h) = CapGross(period[p])
    BY <1>9 DEF CapGross
  <2> QED
    BY <1>1, <1>9, <2>1 DEF SumsOK, MoneyAccounted
<1>12. IndicesUsedOnce(h, invoices, outcome[p])
  <2>1. /\ invoices[i] = inv
        /\ \A x \in InvoiceIndices \ {i} : invoices[x] = invoice[p][x]
    BY <1>2, <1>4
  <2>2. \A x \in EndedIn(outcome[p]) :
           x \in Int /\ invoice[p][x].status = "Absent" /\ x < i /\ x \in InvoiceIndices
    BY <1>1, HourlyAssumption DEF SumsOK, IndicesUsedOnce, EndedIn, InvoiceIndices
  <2> HIDE DEF invoices
  <2>3. \A x \in EndedIn(outcome[p]) : invoices[x].status = "Absent" /\ x < count
    <3> HIDE DEF i
    <3>1. count = i + 1
      BY DEF i
    <3> QED
      BY <1>2, <2>1, <2>2, <3>1
  <2>4. \A x \in InvoiceIndices :
           /\ invoices[x].status = "Absent" => invoices[x] = BlankInvoice
           /\ invoices[x].status # "Absent" => invoices[x].amount_net > 0
    <3> HIDE DEF i
    <3> QED
      BY <1>1, <1>7, <2>1 DEF SumsOK, IndicesUsedOnce
  <2> QED
    BY <1>9, <2>3, <2>4 DEF IndicesUsedOnce
<1> QED
  BY <1>5, <1>10, <1>11, <1>12 DEF SumsOK

\* raise_invoice_dispute changes no amount.
LEMMA RaiseInvoiceDisputeSums ==
    ASSUME LInv, NEW p \in Periods, NEW i \in InvoiceIndices, NEW signer \in Wallets,
           NEW deadline \in Nat, RaiseInvoiceDispute(p, i, signer, deadline)
    PROVE  SumsOK(period'[p], invoice'[p], pot'[p], outcome'[p])
<1> DEFINE inv == [invoice[p][i] EXCEPT !.status = "Disputed",
                                        !.dispute_deadline = deadline]
           invoices == [invoice[p] EXCEPT ![i] = inv]
<1>1. /\ HourlyTypeOK /\ SumsOK(period[p], invoice[p], pot[p], outcome[p])
      /\ invoice[p][i].status = "Staged"
      /\ NetOf(invoice[p]) \in Nat /\ FeesOf(invoice[p]) \in Nat
  BY SumFacts DEF RaiseInvoiceDispute, Disputable
<1>2. invoice[p] \in [InvoiceIndices -> InvoiceRecord]
  BY <1>1, PeriodFieldTypes
<1>3. /\ period'[p] = period[p] /\ invoice'[p] = invoices /\ pot'[p] = pot[p]
      /\ outcome'[p] = outcome[p]
  BY <1>1, <1>2 DEF RaiseInvoiceDispute, Disputable, HourlyTypeOK
<1>4. /\ inv \in InvoiceRecord /\ inv.status = "Disputed"
      /\ inv.amount_net = invoice[p][i].amount_net
      /\ inv.commission = invoice[p][i].commission
      /\ inv.amount_net \in Nat /\ inv.commission \in Nat
  BY <1>2 DEF InvoiceRecord
<1> HIDE DEF inv
<1>5. NetOf(invoices) = NetOf(invoice[p]) /\ FeesOf(invoices) = FeesOf(invoice[p])
  <2>1. /\ NetOf(invoices) = NetOf(invoice[p]) - invoice[p][i].amount_net + inv.amount_net
        /\ FeesOf(invoices) = FeesOf(invoice[p]) - invoice[p][i].commission + inv.commission
    BY <1>2, <1>4, InvoiceReplaced
  <2> HIDE DEF invoices
  <2> QED
    BY <1>1, <1>4, <2>1
<1>6. /\ invoices[i] = inv
      /\ \A x \in InvoiceIndices \ {i} : invoices[x] = invoice[p][x]
  BY <1>2
<1> HIDE DEF invoices
<1>7. LiveIn(invoices) = LiveIn(invoice[p])
  BY <1>1, <1>4, <1>6 DEF LiveIn
<1>8. IndicesUsedOnce(period[p], invoices, outcome[p])
  <2>1. IndicesUsedOnce(period[p], invoice[p], outcome[p])
    BY <1>1 DEF SumsOK
  <2>2. i \notin EndedIn(outcome[p])
    BY <1>1, <2>1 DEF IndicesUsedOnce
  <2>3. \A x \in EndedIn(outcome[p]) :
           invoices[x].status = "Absent" /\ x < period[p].invoice_count
    BY <1>6, <2>1, <2>2 DEF IndicesUsedOnce, EndedIn
  <2>4. \A x \in InvoiceIndices :
           /\ invoices[x].status = "Absent" => invoices[x] = BlankInvoice
           /\ invoices[x].status # "Absent" => invoices[x].amount_net > 0
    BY <1>1, <1>4, <1>6, <2>1 DEF IndicesUsedOnce
  <2> QED
    BY <2>1, <2>3, <2>4 DEF IndicesUsedOnce
<1> QED
  BY <1>1, <1>3, <1>5, <1>7, <1>8 DEF SumsOK, LedgerMatches

\* However an invoice ends and whichever account pays, what leaves that account
\* and the books is what the invoice was for, and goes into its outcome.
LEMMA EndInvoiceSums ==
    ASSUME LInv, NEW p \in Periods, NEW acct \in VaultAccounts,
           NEW i \in InvoiceIndices, NEW signer \in Wallets,
           invoice[p][i].status # "Absent",
           NEW to_employee \in Nat, NEW to_treasury \in Nat, NEW to_employer \in Nat,
           EndInvoice(p, acct, i, signer, to_employee, to_treasury, to_employer)
    PROVE  SumsOK(period'[p], invoice'[p], pot'[p], outcome'[p])
<1> DEFINE inv == invoice[p][i]
           m == period[p].token_mint
           total == to_employee + to_treasury + to_employer
           left == pot[p][acct] - total
           net == period[p].outstanding_net - inv.amount_net
           commission == period[p].outstanding_commission - inv.commission
           live == period[p].live_invoices - 1
           released == period[p].released_net + to_employee
           h == [ period[p] EXCEPT !.outstanding_net = net,
                                   !.outstanding_commission = commission,
                                   !.live_invoices = live, !.released_net = released ]
           v == [pot[p] EXCEPT ![acct] = left]
           invoices == [invoice[p] EXCEPT ![i] = BlankInvoice]
           o == [ net |-> inv.amount_net, commission |-> inv.commission,
                  disputed |-> inv.status = "Disputed", early |-> now < DueAt(inv),
                  employee |-> to_employee, treasury |-> to_treasury,
                  employer |-> to_employer, by |-> RoleOf(period[p], signer) ]
           outcomes == [outcome[p] EXCEPT ![i] = o]
<1>1. /\ HourlyTypeOK /\ BooksOK(period[p], invoice[p], outcome[p])
      /\ SumsOK(period[p], invoice[p], pot[p], outcome[p])
      /\ NetOf(invoice[p]) \in Nat /\ FeesOf(invoice[p]) \in Nat
      /\ FeesEnded(outcome[p]) \in Nat /\ PaidToWorker(outcome[p]) \in Nat
      /\ PaidToOthers(outcome[p]) \in Nat
  BY SumFacts
<1>2. /\ period[p].status \in {"Active", "Settled"} /\ i < period[p].invoice_count
      /\ m \in Assets
  BY <1>1 DEF BooksOK, LiveIn
<1>3. /\ period[p] \in PeriodRecord /\ pot[p] \in [VaultAccounts -> Nat] /\ pot[p][m] \in Nat
      /\ period[p].released_net \in Nat /\ period[p].refunded_amount \in Nat
      /\ period[p].outstanding_net \in Nat /\ period[p].outstanding_commission \in Nat
      /\ period[p].live_invoices \in Nat
      /\ invoice[p] \in [InvoiceIndices -> InvoiceRecord]
      /\ outcome[p] \in [InvoiceIndices -> Outcome]
      /\ m \in VaultAccounts /\ pot[p][acct] \in Nat
  BY <1>1, <1>2, PeriodFieldTypes, AccountsByAsset
<1>4. inv.amount_net \in Nat /\ inv.commission \in Nat
  BY <1>3 DEF InvoiceRecord
<1>5. /\ total <= pot[p][acct]
      /\ inv.amount_net <= period[p].outstanding_net
      /\ inv.commission <= period[p].outstanding_commission
      /\ period[p].live_invoices > 0
  BY DEF EndInvoice, Endable
<1>6. /\ period'[p] = h /\ invoice'[p] = invoices /\ pot'[p] = v
      /\ outcome'[p] = outcomes
  BY <1>1, <1>3 DEF EndInvoice, BookEnd, HourlyTypeOK, RegisterSettledInvoice
<1>7. /\ h.status = period[p].status /\ h.token_mint = m
      /\ h.outstanding_net = net /\ h.outstanding_commission = commission
      /\ h.live_invoices = live /\ h.released_net = released
      /\ h.invoice_count = period[p].invoice_count
      /\ h.total_staged_net = period[p].total_staged_net
      /\ h.commission_rate_bps = period[p].commission_rate_bps
      /\ h.weekly_cap_net = period[p].weekly_cap_net
      /\ h.funded_gross = period[p].funded_gross
      /\ h.refunded_amount = period[p].refunded_amount
      /\ h.vault_rent_reserve = period[p].vault_rent_reserve
  <2> HIDE DEF net, commission, live, released
  <2> QED
    BY <1>3, Zenon DEF PeriodRecord
<1> HIDE DEF h
<1>8. v[m] >= pot[p][m] - total /\ v[m] \in Nat
  <2>1. left \in Nat /\ total \in Nat
    BY <1>3, <1>5
  <2> HIDE DEF left, total
  <2>2. v[m] = IF m = acct THEN left ELSE pot[p][m]
    BY <1>2, <1>3
  <2>3. m = acct => left = pot[p][m] - total
    BY DEF left
  <2> QED
    BY <1>3, <2>1, <2>2, <2>3
<1>9. /\ o \in Outcome /\ o.commission = inv.commission /\ o.employee = to_employee
      /\ o.treasury = to_treasury /\ o.employer = to_employer
  <2>1. RoleOf(period[p], signer) \in {"nobody", "employer", "platform", "anyone"}
    BY DEF RoleOf
  <2> QED
    BY <1>4, <2>1 DEF Outcome
<1> HIDE DEF o
<1>10. outcome[p][i] = NoOutcome
  BY <1>1 DEF SumsOK, IndicesUsedOnce, EndedIn
<1>11. /\ NetOf(invoices) = NetOf(invoice[p]) - inv.amount_net
       /\ FeesOf(invoices) = FeesOf(invoice[p]) - inv.commission
       /\ Cardinality(LiveIn(invoices)) = Cardinality(LiveIn(invoice[p])) - 1
  <2>1. /\ NetOf(invoices)
             = NetOf(invoice[p]) - inv.amount_net + BlankInvoice.amount_net
        /\ FeesOf(invoices)
             = FeesOf(invoice[p]) - inv.commission + BlankInvoice.commission
    BY <1>3, BlankPeriodOK, InvoiceReplaced
  <2>2. BlankInvoice.amount_net = 0 /\ BlankInvoice.commission = 0
    BY DEF BlankInvoice
  <2>3. Cardinality(LiveIn(invoices)) = Cardinality(LiveIn(invoice[p])) - 1
    BY <1>3, LiveRemoved
  <2> HIDE DEF invoices, inv
  <2> QED
    BY <1>1, <1>4, <2>1, <2>2, <2>3
<1>12. /\ FeesEnded(outcomes) = FeesEnded(outcome[p]) + inv.commission
       /\ PaidToWorker(outcomes) = PaidToWorker(outcome[p]) + to_employee
       /\ PaidToOthers(outcomes) = PaidToOthers(outcome[p]) + (to_treasury + to_employer)
  BY <1>3, <1>9, <1>10, OutcomeReplaced
<1>13. LedgerMatches(h, invoices, outcomes)
  <2>1. LedgerMatches(period[p], invoice[p], outcome[p])
    BY <1>1 DEF SumsOK
  <2>2. /\ h.outstanding_net = NetOf(invoices)
        /\ h.outstanding_commission = FeesOf(invoices)
        /\ h.live_invoices = Cardinality(LiveIn(invoices))
    BY <1>7, <1>11, <2>1 DEF LedgerMatches
  <2>3. h.outstanding_commission + FeesEnded(outcomes)
        = period[p].outstanding_commission + FeesEnded(outcome[p])
    <3> HIDE DEF inv, outcomes
    <3> QED
      BY <1>1, <1>3, <1>4, <1>7, <1>12
  <2> QED
    BY <1>7, <2>1, <2>2, <2>3 DEF LedgerMatches
<1>14. MoneyAccounted(h, v, outcomes)
  <2>1. MoneyAccounted(period[p], pot[p], outcome[p]) /\ period[p].status # "Absent"
    BY <1>1, <1>2 DEF SumsOK
  <2>2. CapGross(h) = CapGross(period[p])
    BY <1>7 DEF CapGross
  <2>3. PaidToWorker(outcomes) = h.released_net
    BY <1>7, <1>12, <2>1 DEF MoneyAccounted
  <2>4. v[m] + PaidToWorker(outcomes) + PaidToOthers(outcomes) + h.refunded_amount
        >= pot[p][m] + PaidToWorker(outcome[p]) + PaidToOthers(outcome[p])
              + period[p].refunded_amount
    <3> HIDE DEF v, outcomes
    <3> QED
      BY <1>1, <1>3, <1>7, <1>8, <1>12
  <2> HIDE DEF v, outcomes
  <2>5. /\ v[m] \in Nat /\ PaidToWorker(outcomes) \in Nat /\ PaidToOthers(outcomes) \in Nat
        /\ period[p].funded_gross \in Nat /\ period[p].vault_rent_reserve \in Nat
    BY <1>1, <1>8, <1>12, PeriodFieldTypes
  <2>6. v[m] + PaidToWorker(outcomes) + PaidToOthers(outcomes) + h.refunded_amount
        >= h.funded_gross + h.vault_rent_reserve
    BY <1>1, <1>3, <1>7, <2>1, <2>4, <2>5 DEF MoneyAccounted
  <2> QED
    BY <1>7, <2>1, <2>2, <2>3, <2>6 DEF MoneyAccounted
<1>15. IndicesUsedOnce(h, invoices, outcomes)
  <2>1. IndicesUsedOnce(period[p], invoice[p], outcome[p])
    BY <1>1 DEF SumsOK
  <2>2. /\ invoices[i] = BlankInvoice /\ BlankInvoice.status = "Absent"
        /\ \A x \in InvoiceIndices \ {i} : /\ invoices[x] = invoice[p][x]
                                           /\ outcomes[x] = outcome[p][x]
    BY <1>3 DEF BlankInvoice
  <2> HIDE DEF invoices, outcomes, inv
  <2>3. \A x \in EndedIn(outcomes) :
           invoices[x].status = "Absent" /\ x < h.invoice_count
    BY <1>2, <1>7, <2>1, <2>2 DEF IndicesUsedOnce, EndedIn
  <2>4. \A x \in InvoiceIndices :
           /\ invoices[x].status = "Absent" => invoices[x] = BlankInvoice
           /\ invoices[x].status # "Absent" => invoices[x].amount_net > 0
    BY <2>1, <2>2 DEF IndicesUsedOnce
  <2> QED
    BY <1>2, <1>7, <2>3, <2>4 DEF IndicesUsedOnce
<1> QED
  BY <1>6, <1>13, <1>14, <1>15 DEF SumsOK

\* The three legs of every way to end an invoice are natural numbers.
LEMMA EndingLegs ==
    ASSUME LInv, NEW p \in Periods, NEW acct, NEW i \in InvoiceIndices,
           NEW signer \in Wallets,
           \/ FinalizeInvoice(p, acct, i, signer)
           \/ ApproveInvoice(p, acct, i, signer)
           \/ AutoReleaseInvoice(p, acct, i, signer)
           \/ \E share \in InvoiceShares : ResolveInvoice(p, acct, i, signer, share)
    PROVE  /\ invoice[p][i].status # "Absent"
           /\ \E to_employee, to_treasury, to_employer \in Nat :
                 /\ to_employee + to_treasury + to_employer
                       = invoice[p][i].amount_net + invoice[p][i].commission
                 /\ EndInvoice(p, acct, i, signer, to_employee, to_treasury, to_employer)
<1> DEFINE inv == invoice[p][i]
<1>1. /\ inv.amount_net \in Nat /\ inv.commission \in Nat
      /\ period[p].commission_rate_bps \in Nat
  BY SumFacts, PeriodFieldTypes DEF InvoiceRecord
<1>2. CASE \/ FinalizeInvoice(p, acct, i, signer) \/ ApproveInvoice(p, acct, i, signer)
           \/ AutoReleaseInvoice(p, acct, i, signer)
  <2>1. /\ EndInvoice(p, acct, i, signer, inv.amount_net, inv.commission, 0)
        /\ inv.status # "Absent"
    BY <1>2 DEF FinalizeInvoice, ApproveInvoice, AutoReleaseInvoice, PayInFull
  <2>2. inv.amount_net + inv.commission + 0 = inv.amount_net + inv.commission
    BY <1>1
  <2> QED
    BY <1>1, <2>1, <2>2
<1>3. ASSUME NEW share \in InvoiceShares, ResolveInvoice(p, acct, i, signer, share)
      PROVE  /\ inv.status # "Absent"
             /\ \E to_employee, to_treasury, to_employer \in Nat :
                   /\ to_employee + to_treasury + to_employer
                         = inv.amount_net + inv.commission
                   /\ EndInvoice(p, acct, i, signer, to_employee, to_treasury, to_employer)
  <2> DEFINE fee == Least(CalculateCommission(share, period[p].commission_rate_bps),
                          inv.commission)
             back == (inv.amount_net - share) + (inv.commission - fee)
  <2>1. share \in Nat /\ share <= inv.amount_net /\ inv.status # "Absent"
    BY <1>3, HourlyAssumption DEF ResolveInvoice
  <2>2. fee \in Nat /\ fee <= inv.commission
    BY <1>1, <2>1, CommissionNat, LeastNat
  <2>3. EndInvoice(p, acct, i, signer, share, fee, back)
    BY <1>3 DEF ResolveInvoice, TreasuryLeg
  <2> HIDE DEF fee
  <2>4. back \in Nat /\ share + fee + back = inv.amount_net + inv.commission
    BY <1>1, <2>1, <2>2
  <2> HIDE DEF back
  <2> QED
    BY <2>1, <2>2, <2>3, <2>4
<1> QED
  BY <1>2, <1>3

-----------------------------------------------------------------------------
(* The steps put together. *)

\* A period whose accounts a step leaves alone keeps its sums, whatever is
\* added to its vault.
LEMMA UntouchedSums ==
    ASSUME LInv, NEW p \in Periods,
           UNCHANGED <<period[p], invoice[p], outcome[p]>>,
           \A a \in VaultAccounts : pot'[p][a] \in Nat /\ pot'[p][a] >= pot[p][a]
    PROVE  SumsOK(period'[p], invoice'[p], pot'[p], outcome'[p])
<1>1. SumsOK(period[p], invoice[p], pot[p], outcome[p]) /\ HourlyTypeOK
  BY SumFacts
<1>2. MoneyAccounted(period[p], pot'[p], outcome[p])
  <2>1. CASE period[p].status = "Absent"
    BY <2>1 DEF MoneyAccounted
  <2>2. CASE period[p].status # "Absent"
    <3> DEFINE m == period[p].token_mint
    <3>1. /\ m \in Assets /\ pot[p][m] \in Nat /\ pot'[p][m] \in Nat
          /\ pot'[p][m] >= pot[p][m]
          /\ PaidToWorker(outcome[p]) \in Nat /\ PaidToOthers(outcome[p]) \in Nat
      BY <2>2, SumFacts, AccountsByAsset
    <3>2. /\ period[p].refunded_amount \in Nat /\ period[p].funded_gross \in Nat
          /\ period[p].vault_rent_reserve \in Nat
      BY <1>1, PeriodFieldTypes
    <3> QED
      BY <1>1, <2>2, <3>1, <3>2 DEF SumsOK, MoneyAccounted
  <2> QED
    BY <2>1, <2>2
<1> QED
  BY <1>1, <1>2 DEF SumsOK

\* Every instruction on a period, and every transfer to its vault, keeps the
\* sums of that period.
LEMMA HourlyStepSums ==
    ASSUME LInv, NEW p \in Periods, HourlyStep(p)
    PROVE  SumsOK(period'[p], invoice'[p], pot'[p], outcome'[p])
<1>1. /\ MaxFundAmounts \subseteq Nat /\ Caps \subseteq Nat
      /\ InvoiceAmounts \subseteq Nat /\ 0..MaxTime \subseteq Nat
      /\ ReserveSeed(period[p]) \in Nat /\ DustAmounts \subseteq Nat
  BY HourlyAssumption DEF ReserveSeed
<1>2. HourlyTypeOK
  BY SumFacts
<1>3. ASSUME NEW signer \in Wallets, PeriodInstruction(p, signer)
      PROVE  SumsOK(period'[p], invoice'[p], pot'[p], outcome'[p])
  <2>1. CASE \E employer, employee \in Users, mint \in Assets, cap \in Caps,
                rate \in Rates, review \in ReviewWindows, start \in PeriodStarts,
                duration \in PeriodDurations :
                OpenPeriod(p, signer, employer, employee, mint, cap, rate, review,
                           start, duration)
    BY <2>1, OpenPeriodSums
  <2>2. CASE \E max_fund_amount \in MaxFundAmounts :
                \/ FundPeriodSol(p, signer, max_fund_amount)
                \/ FundPeriodToken(p, signer, max_fund_amount)
    BY <1>1, <2>2, FundPeriodSums DEF FundPeriodSol, FundPeriodToken
  <2>3. CASE \E cap \in Caps : RaiseWeeklyCap(p, signer, cap)
    BY <1>1, <2>3, RaiseWeeklyCapSums
  <2>4. CASE \E acct \in VaultAccounts, amount \in InvoiceAmounts :
                \/ StageInvoiceSol(p, acct, signer, amount)
                \/ StageInvoiceToken(p, acct, signer, amount)
    BY <1>1, <2>4, StageInvoiceSums DEF StageInvoiceSol, StageInvoiceToken
  <2> QED
    BY <1>3, <2>1, <2>2, <2>3, <2>4 DEF PeriodInstruction
<1>4. ASSUME NEW signer \in Wallets, NEW i \in InvoiceIndices,
             InvoiceInstruction(p, i, signer)
      PROVE  SumsOK(period'[p], invoice'[p], pot'[p], outcome'[p])
  <2>1. CASE \E deadline \in 0..MaxTime : RaiseInvoiceDispute(p, i, signer, deadline)
    BY <1>1, <2>1, RaiseInvoiceDisputeSums
  <2>2. ASSUME NEW acct \in VaultAccounts, Endings(p, acct, i, signer)
        PROVE  SumsOK(period'[p], invoice'[p], pot'[p], outcome'[p])
    BY <2>2, EndingLegs, EndInvoiceSums
    DEF Endings, FinalizeInvoiceSol, FinalizeInvoiceToken,
        ApproveInvoiceSol, ApproveInvoiceToken, ResolveInvoiceSol,
        ResolveInvoiceToken, AutoReleaseInvoiceSol, AutoReleaseInvoiceToken
  <2> QED
    BY <1>4, <2>1, <2>2 DEF InvoiceInstruction
<1>5. CASE SettlePeriodSol(p) \/ SettlePeriodToken(p)
  BY <1>5, SettlePeriodSums DEF SettlePeriodSol, SettlePeriodToken
<1>6. CASE ClosePeriodSol(p) \/ \E acct \in TokenAccounts : ClosePeriodToken(p, acct)
  BY <1>6, ClosePeriodSums DEF ClosePeriodSol, ClosePeriodToken
<1>7. CASE \E acct \in TokenAccounts : CreatePotAta(p, acct)
  BY <1>2, <1>7, UntouchedSums, PeriodFieldTypes DEF CreatePotAta
<1>8. ASSUME NEW acct \in VaultAccounts, NEW dust \in DustAmounts, SendDust(p, acct, dust)
      PROVE  SumsOK(period'[p], invoice'[p], pot'[p], outcome'[p])
  <2>1. pot[p] \in [VaultAccounts -> Nat] /\ dust \in Nat
    BY <1>1, <1>2, PeriodFieldTypes
  <2>2. pot'[p] = [pot[p] EXCEPT ![acct] = @ + dust]
    BY <1>2, <1>8 DEF SendDust, HourlyTypeOK
  <2>3. \A a \in VaultAccounts : pot'[p][a] \in Nat /\ pot'[p][a] >= pot[p][a]
    BY <2>1, <2>2
  <2> QED
    BY <1>8, <2>3, UntouchedSums DEF SendDust
<1> QED
  BY <1>3, <1>4, <1>5, <1>6, <1>7, <1>8 DEF HourlyStep, Anyone

\* No instruction reaches the accounts or the vault of another period.
LEMMA HourlyStepLocal ==
    ASSUME HourlyTypeOK, NEW p \in Periods, HourlyStep(p), NEW x \in Periods \ {p}
    PROVE  /\ period'[x] = period[x] /\ invoice'[x] = invoice[x]
           /\ pot'[x] = pot[x] /\ outcome'[x] = outcome[x]
<1>1. ASSUME NEW signer \in Wallets, PeriodInstruction(p, signer)
      PROVE  /\ period'[x] = period[x] /\ invoice'[x] = invoice[x]
             /\ pot'[x] = pot[x] /\ outcome'[x] = outcome[x]
  <2>1. CASE \E employer, employee \in Users, mint \in Assets, cap \in Caps,
                rate \in Rates, review \in ReviewWindows, start \in PeriodStarts,
                duration \in PeriodDurations :
                OpenPeriod(p, signer, employer, employee, mint, cap, rate, review,
                           start, duration)
    BY <2>1 DEF HourlyTypeOK, OpenPeriod
  <2>2. CASE \E max_fund_amount \in MaxFundAmounts :
                \/ FundPeriodSol(p, signer, max_fund_amount)
                \/ FundPeriodToken(p, signer, max_fund_amount)
    BY <2>2 DEF HourlyTypeOK, FundPeriodSol, FundPeriodToken, FundPeriod
  <2>3. CASE \E cap \in Caps : RaiseWeeklyCap(p, signer, cap)
    BY <2>3 DEF HourlyTypeOK, RaiseWeeklyCap
  <2>4. CASE \E acct \in VaultAccounts, amount \in InvoiceAmounts :
                \/ StageInvoiceSol(p, acct, signer, amount)
                \/ StageInvoiceToken(p, acct, signer, amount)
    BY <2>4 DEF HourlyTypeOK, StageInvoiceSol, StageInvoiceToken, StageInvoice
  <2> QED
    BY <1>1, <2>1, <2>2, <2>3, <2>4 DEF PeriodInstruction
<1>2. ASSUME NEW signer \in Wallets, NEW i \in InvoiceIndices,
             InvoiceInstruction(p, i, signer)
      PROVE  /\ period'[x] = period[x] /\ invoice'[x] = invoice[x]
             /\ pot'[x] = pot[x] /\ outcome'[x] = outcome[x]
  <2>1. CASE \E deadline \in 0..MaxTime : RaiseInvoiceDispute(p, i, signer, deadline)
    BY <2>1 DEF HourlyTypeOK, RaiseInvoiceDispute
  <2>2. ASSUME NEW acct, NEW to_employee, NEW to_treasury, NEW to_employer,
               EndInvoice(p, acct, i, signer, to_employee, to_treasury, to_employer)
        PROVE  /\ period'[x] = period[x] /\ invoice'[x] = invoice[x]
               /\ pot'[x] = pot[x] /\ outcome'[x] = outcome[x]
    BY <2>2 DEF HourlyTypeOK, EndInvoice, BookEnd
  <2>3. ASSUME NEW acct \in VaultAccounts, Endings(p, acct, i, signer)
        PROVE  \E to_employee, to_treasury, to_employer :
                  EndInvoice(p, acct, i, signer, to_employee, to_treasury, to_employer)
    BY <2>3
    DEF Endings, PayInFull, FinalizeInvoiceSol, FinalizeInvoiceToken, FinalizeInvoice,
        ApproveInvoiceSol, ApproveInvoiceToken, ApproveInvoice,
        ResolveInvoiceSol, ResolveInvoiceToken, ResolveInvoice,
        AutoReleaseInvoiceSol, AutoReleaseInvoiceToken, AutoReleaseInvoice
  <2> QED
    BY <1>2, <2>1, <2>2, <2>3 DEF InvoiceInstruction
<1>3. CASE Anyone(p)
  BY <1>3
  DEF HourlyTypeOK, Anyone, SettlePeriodSol, SettlePeriodToken, SettlePeriod, Refundable,
      ClosePeriodSol, ClosePeriodToken, ClosePeriod, CreatePotAta, SendDust
<1> QED
  BY <1>1, <1>2, <1>3 DEF HourlyStep

LEMMA InitLInv == Init => LInv
<1> SUFFICES ASSUME Init PROVE LInv
  OBVIOUS
<1>1. HInv
  BY InitHInv
<1>2. ASSUME NEW p \in Periods
      PROVE  SumsOK(period[p], invoice[p], pot[p], outcome[p])
  <2>1. /\ period[p] = BlankPeriod
        /\ \A i \in InvoiceIndices :
              invoice[p][i] = BlankInvoice /\ outcome[p][i] = NoOutcome
    BY DEF Init
  <2>2. /\ BlankPeriod.outstanding_net = 0 /\ BlankPeriod.outstanding_commission = 0
        /\ BlankPeriod.live_invoices = 0 /\ BlankPeriod.total_staged_net = 0
        /\ BlankPeriod.commission_rate_bps = 0 /\ BlankPeriod.status = "Absent"
    BY DEF BlankPeriod
  <2>3. /\ NetOf(invoice[p]) = 0 /\ FeesOf(invoice[p]) = 0
        /\ Cardinality(LiveIn(invoice[p])) = 0 /\ FeesEnded(outcome[p]) = 0
    BY <2>1, NoInvoicesSums
  <2>4. CalculateCommission(0, 0) = 0
    BY CommissionOfZero
  <2>5. LedgerMatches(period[p], invoice[p], outcome[p])
    BY <2>1, <2>2, <2>3, <2>4 DEF LedgerMatches
  <2>6. IndicesUsedOnce(period[p], invoice[p], outcome[p])
    BY <2>1, <2>2 DEF IndicesUsedOnce, EndedIn, BlankInvoice
  <2> QED
    BY <2>1, <2>2, <2>5, <2>6 DEF SumsOK, MoneyAccounted
<1> QED
  BY <1>1, <1>2 DEF LInv

LEMMA NextLInv == LInv /\ [Next]_hourlyVars => LInv'
<1> SUFFICES ASSUME LInv, [Next]_hourlyVars PROVE LInv'
  OBVIOUS
<1>1. HInv'
  BY NextHInv DEF LInv
<1>2. ASSUME NEW x \in Periods
      PROVE  SumsOK(period'[x], invoice'[x], pot'[x], outcome'[x])
  <2>1. SumsOK(period[x], invoice[x], pot[x], outcome[x]) /\ HourlyTypeOK
    BY SumFacts
  <2>2. CASE UNCHANGED hourly
    BY <2>1, <2>2 DEF hourly
  <2>3. ASSUME NEW p \in Periods, HourlyStep(p)
        PROVE  SumsOK(period'[x], invoice'[x], pot'[x], outcome'[x])
    <3>1. CASE x = p
      BY <2>3, <3>1, HourlyStepSums
    <3>2. CASE x # p
      BY <2>1, <2>3, <3>2, HourlyStepLocal
    <3> QED
      BY <3>1, <3>2
  <2> QED
    BY <2>2, <2>3 DEF Next, Tick, hourly, hourlyVars
<1> QED
  BY <1>1, <1>2 DEF LInv

-----------------------------------------------------------------------------

\* The second invariant of the engine: everything below rests on it.
THEOREM LedgerInvariance == Spec => []LInv
BY InitLInv, NextLInv, PTL DEF Spec

\* The running totals of a period are at all times the sums over its invoices,
\* and the commissions ever booked add up to the commission on the total.
THEOREM LedgersMatch == Spec => []LedgerMatchesInvoices
<1>1. LInv => LedgerMatchesInvoices
  BY DEF LInv, SumsOK, LedgerMatchesInvoices
<1> QED
  BY <1>1, LedgerInvariance, PTL

\* All that was ever funded is in the vault, was paid out or was refunded.
THEOREM MoneyIsAccountedFor == Spec => []MoneyAccountedFor
<1>1. LInv => MoneyAccountedFor
  BY DEF LInv, SumsOK, MoneyAccountedFor
<1> QED
  BY <1>1, LedgerInvariance, PTL

-----------------------------------------------------------------------------
(* The hourly engine implements Earmarks. *)

\* What is earmarked in a period's pot is what its books owe.
LEMMA EarmarkedIsOutstanding ==
    ASSUME LInv, NEW p \in Periods
    PROVE  /\ Abstract!Earmarked(p) = OutstandingTotal(period[p])
           /\ OutstandingTotal(period[p]) \in Nat
           /\ ClaimsOf(p) \in [InvoiceIndices -> Nat]
<1> DEFINE net == [i \in InvoiceIndices |-> invoice[p][i].amount_net]
           fee == [i \in InvoiceIndices |-> invoice[p][i].commission]
           both == ClaimsOf(p)
<1>1. /\ HourlyTypeOK /\ LedgerMatches(period[p], invoice[p], outcome[p])
  BY SumFacts DEF SumsOK
<1>2. \A i \in InvoiceIndices :
         invoice[p][i].amount_net \in Nat /\ invoice[p][i].commission \in Nat
  BY <1>1, PeriodFieldTypes DEF InvoiceRecord
<1>3. both \in [InvoiceIndices -> Nat]
  BY <1>2 DEF ClaimsOf
<1>4. \A i \in InvoiceIndices :
         net[i] \in Nat /\ fee[i] \in Nat /\ both[i] = net[i] + fee[i]
  BY <1>2 DEF ClaimsOf
<1> HIDE DEF net, fee, both
<1>5. SumFunctionOnSet(both, InvoiceIndices)
      = SumFunctionOnSet(net, InvoiceIndices) + SumFunctionOnSet(fee, InvoiceIndices)
  BY <1>4, IndicesFinite, SumPlus
<1>6. /\ SumFunctionOnSet(net, InvoiceIndices) = period[p].outstanding_net
      /\ SumFunctionOnSet(fee, InvoiceIndices) = period[p].outstanding_commission
  BY <1>1 DEF LedgerMatches, NetOf, FeesOf, SumFunction, net, fee
<1>7. Abstract!Earmarked(p) = SumFunctionOnSet(both, InvoiceIndices)
  BY DEF Abstract!Earmarked, both,
         Abstract!SumFunctionOnSet, Abstract!FoldFunctionOnSet, Abstract!MapThenFoldSet,
         SumFunctionOnSet, FoldFunctionOnSet, MapThenFoldSet
<1>8. OutstandingTotal(period[p]) \in Nat
  BY <1>1, PeriodFieldTypes DEF OutstandingTotal
<1> QED
  BY <1>3, <1>5, <1>6, <1>7, <1>8 DEF OutstandingTotal, both

\* The accounts of an asset, and what they hold together.
Held(v, asset) == SumFunctionOnSet(v, AccountsOf(asset))

LEMMA AccountsFinite ==
    ASSUME NEW asset
    PROVE  IsFiniteSet(AccountsOf(asset))
<1>1. AccountsOf(asset) \subseteq SpareVaults \cup {asset}
  BY DEF AccountsOf, AssetOf
<1>2. IsFiniteSet(SpareVaults \cup {asset})
  BY VaultsAssumption, FS_AddElement
<1> QED
  BY <1>1, <1>2, FS_Subset

LEMMA HeldNat ==
    ASSUME NEW v \in [VaultAccounts -> Nat], NEW asset
    PROVE  /\ Held(v, asset) \in Nat
           /\ \A acct \in AccountsOf(asset) : v[acct] \in Nat /\ v[acct] <= Held(v, asset)
<1>1. \A acct \in AccountsOf(asset) : v[acct] \in Nat
  BY DEF AccountsOf
<1>2. Held(v, asset) \in Nat
  BY <1>1, AccountsFinite, SumNat DEF Held
<1>3. ASSUME NEW acct \in AccountsOf(asset)
      PROVE  v[acct] <= Held(v, asset)
  <2> DEFINE others == SumFunctionOnSet(v, AccountsOf(asset) \ {acct})
  <2>1. Held(v, asset) = v[acct] + others /\ others \in Nat
    BY <1>1, AccountsFinite, SumRemove DEF Held
  <2> HIDE DEF others
  <2> QED
    BY <1>1, <2>1
<1> QED
  BY <1>1, <1>2, <1>3

\* Money that moves in one account moves in the sum over its asset, and in no
\* other.
LEMMA HeldChanges ==
    ASSUME NEW v \in [VaultAccounts -> Nat], NEW asset,
           NEW acct \in AccountsOf(asset), NEW balance \in Nat
    PROVE  Held([v EXCEPT ![acct] = balance], asset) = Held(v, asset) - v[acct] + balance
<1> DEFINE w == [v EXCEPT ![acct] = balance]
<1>1. /\ \A a \in AccountsOf(asset) : v[a] \in Nat /\ w[a] \in Nat
      /\ \A a \in AccountsOf(asset) \ {acct} : v[a] = w[a]
      /\ w[acct] = balance
  BY DEF AccountsOf
<1> HIDE DEF w
<1>2. SumFunctionOnSet(w, AccountsOf(asset))
      = SumFunctionOnSet(v, AccountsOf(asset)) - v[acct] + w[acct]
  BY <1>1, AccountsFinite, SumReplace
<1> QED
  BY <1>1, <1>2 DEF Held, w

LEMMA HeldAfter ==
    ASSUME NEW v \in [VaultAccounts -> Nat], NEW w, NEW asset,
           NEW acct \in AccountsOf(asset), NEW balance \in Nat,
           w = [v EXCEPT ![acct] = balance]
    PROVE  Held(w, asset) = Held(v, asset) - v[acct] + balance
BY HeldChanges

LEMMA HeldStays ==
    ASSUME NEW v \in [VaultAccounts -> Nat], NEW asset,
           NEW acct, acct \notin AccountsOf(asset), NEW balance
    PROVE  Held([v EXCEPT ![acct] = balance], asset) = Held(v, asset)
<1> DEFINE w == [v EXCEPT ![acct] = balance]
<1>1. \A a \in AccountsOf(asset) : v[a] \in Nat /\ v[a] = w[a]
  BY DEF AccountsOf
<1> HIDE DEF w
<1>2. SumFunctionOnSet(v, AccountsOf(asset)) = SumFunctionOnSet(w, AccountsOf(asset))
  BY <1>1, AccountsFinite, SumCongruence
<1> QED
  BY <1>2 DEF Held, w

\* An account an instruction may name is one of the period's asset, and so is
\* the associated one.
LEMMA NamedAccounts ==
    ASSUME NEW p \in Periods, period[p].token_mint \in Assets
    PROVE  /\ period[p].token_mint \in AccountsOf(period[p].token_mint)
           /\ \A acct \in VaultAccounts :
                 NativePot(p, acct) \/ TokenPot(p, acct)
                 => acct \in AccountsOf(period[p].token_mint)
BY AccountsByAsset
DEF AccountsOf, NativePot, TokenPot, IsNativePeriod, Assets

\* A pot is never overdrawn, and covers what is owed.
LEMMA MoneyNat ==
    ASSUME HInv, NEW p \in Periods
    PROVE  /\ MoneyOf(p) \in Nat
           /\ period[p].status # "Absent" =>
                 /\ Held(pot[p], period[p].token_mint) \in Nat
                 /\ MoneyOf(p) = Held(pot[p], period[p].token_mint)
                                     - period[p].vault_rent_reserve
<1> DEFINE m == period[p].token_mint
<1>1. /\ HourlyTypeOK /\ Covered(p, period[p], pot[p], potAta)
      /\ period[p].status # "Absent" => m \in Assets
  BY PeriodFacts
<1>2. /\ period[p].vault_rent_reserve \in Nat /\ OutstandingTotal(period[p]) \in Nat
      /\ pot[p] \in [VaultAccounts -> Nat]
  BY <1>1, PeriodFieldTypes DEF OutstandingTotal
<1>3. CASE period[p].status = "Absent"
  BY <1>3 DEF MoneyOf
<1>4. CASE period[p].status # "Absent"
  <2>1. PICK acct \in VaultAccounts : Backs(p, period[p], pot[p], potAta, acct)
    BY <1>1, <1>4 DEF Covered
  <2>2. acct \in AccountsOf(m)
    BY <2>1 DEF Backs, AccountsOf
  <2>3. Held(pot[p], m) \in Nat /\ pot[p][acct] \in Nat /\ pot[p][acct] <= Held(pot[p], m)
    BY <1>2, <2>2, HeldNat
  <2>4. pot[p][acct] >= OutstandingTotal(period[p]) + period[p].vault_rent_reserve
    BY <2>1 DEF Backs
  <2>5. MoneyOf(p) = Held(pot[p], m) - period[p].vault_rent_reserve
    BY <1>4 DEF MoneyOf, MoneyIn, Held
  <2> HIDE DEF m
  <2>6. MoneyOf(p) \in Nat
    BY <1>2, <2>3, <2>4, <2>5
  <2> QED
    BY <2>3, <2>5, <2>6 DEF m
<1> QED
  BY <1>3, <1>4

NoOverdraft == \A p \in Periods : MoneyOf(p) \in Nat

LEMMA MoneyNatNext == HInv' => \A p \in Periods : MoneyOf(p)' \in Nat
<1>1. HInv => NoOverdraft
  BY MoneyNat DEF NoOverdraft
<1>2. HInv' => NoOverdraft'
  BY <1>1, PTL
<1> QED
  BY <1>2 DEF NoOverdraft

\* The other pots are not touched.
PotsBesides(p) ==
    \A x \in Periods \ {p} : UNCHANGED <<MoneyOf(x), ClaimsOf(x)>>

\* Money that only comes in is a TopUp, or no step at all.
LEMMA MoneyCameIn ==
    ASSUME NEW p \in Periods, PotsBesides(p), ClaimsOf(p)' = ClaimsOf(p),
           MoneyOf(p) \in Nat, MoneyOf(p)' \in Nat, MoneyOf(p)' >= MoneyOf(p)
    PROVE  [Abstract!Next]_Abstract!earmarksVars
<1>1. UNCHANGED [x \in Periods |-> ClaimsOf(x)]
  BY DEF PotsBesides
<1>2. CASE MoneyOf(p)' = MoneyOf(p)
  <2>1. UNCHANGED [x \in Periods |-> MoneyOf(x)]
    BY <1>2 DEF PotsBesides
  <2> QED
    BY <1>1, <2>1 DEF Abstract!earmarksVars
<1>3. CASE MoneyOf(p)' > MoneyOf(p)
  <2>1. Abstract!TopUp(p)
    BY <1>1, <1>3 DEF Abstract!TopUp, PotsBesides
  <2> QED
    BY <2>1 DEF Abstract!Next
<1> QED
  BY <1>2, <1>3

\* What goes back to the employer is a Refund.
LEMMA MoneyWentBack ==
    ASSUME LInv, NEW p \in Periods, PotsBesides(p), ClaimsOf(p)' = ClaimsOf(p),
           MoneyOf(p) \in Nat, MoneyOf(p)' \in Nat, MoneyOf(p)' <= MoneyOf(p),
           MoneyOf(p)' >= OutstandingTotal(period[p])
    PROVE  [Abstract!Next]_Abstract!earmarksVars
<1>1. UNCHANGED [x \in Periods |-> ClaimsOf(x)]
  BY DEF PotsBesides
<1>2. MoneyOf(p)' \in Abstract!Earmarked(p)..MoneyOf(p)
  BY EarmarkedIsOutstanding
<1>3. Abstract!Refund(p)
  BY <1>1, <1>2 DEF Abstract!Refund, PotsBesides
<1> QED
  BY <1>3 DEF Abstract!Next

\* A new invoice is an Earmark.
LEMMA ClaimWasMade ==
    ASSUME LInv, NEW p \in Periods, NEW i \in InvoiceIndices, NEW amount \in Nat,
           PotsBesides(p), ClaimsOf(p)[i] = 0, amount > 0,
           ClaimsOf(p)' = [ClaimsOf(p) EXCEPT ![i] = amount],
           MoneyOf(p) \in Nat, MoneyOf(p)' = MoneyOf(p),
           OutstandingTotal(period[p]) + amount <= MoneyOf(p)
    PROVE  [Abstract!Next]_Abstract!earmarksVars
<1>1. UNCHANGED [x \in Periods |-> MoneyOf(x)]
  BY DEF PotsBesides
<1>2. ClaimsOf(p)'[i] = amount
  BY EarmarkedIsOutstanding
<1>3. amount \in 1..Abstract!Free(p)
  BY EarmarkedIsOutstanding DEF Abstract!Free
<1>4. Abstract!Earmark(p, i)
  BY <1>1, <1>2, <1>3 DEF Abstract!Earmark, PotsBesides
<1> QED
  BY <1>4 DEF Abstract!Next

\* An invoice that ends is a PayOut.
LEMMA ClaimWasPaid ==
    ASSUME LInv, NEW p \in Periods, NEW i \in InvoiceIndices,
           PotsBesides(p), ClaimsOf(p)[i] > 0,
           ClaimsOf(p)' = [ClaimsOf(p) EXCEPT ![i] = 0],
           MoneyOf(p)' = MoneyOf(p) - ClaimsOf(p)[i]
    PROVE  [Abstract!Next]_Abstract!earmarksVars
<1>1. Abstract!PayOut(p, i)
  BY DEF Abstract!PayOut, PotsBesides
<1> QED
  BY <1>1 DEF Abstract!Next

\* Every instruction maps to a step of Earmarks or to none: those on the
\* period account,
LEMMA PeriodInstructionMaps ==
    ASSUME LInv, LInv', NEW p \in Periods, PotsBesides(p),
           NEW signer \in Wallets, PeriodInstruction(p, signer)
    PROVE  [Abstract!Next]_Abstract!earmarksVars
<1> DEFINE m == period[p].token_mint
<1>1. /\ HourlyTypeOK /\ HInv /\ HInv' /\ MoneyOf(p) \in Nat /\ MoneyOf(p)' \in Nat
      /\ SumsOK(period[p], invoice[p], pot[p], outcome[p])
  BY SumFacts, MoneyNat, MoneyNatNext DEF LInv
<1>2. /\ period[p] \in PeriodRecord /\ pot[p] \in [VaultAccounts -> Nat]
      /\ period[p].funded_gross \in Nat /\ period[p].vault_rent_reserve \in Nat
      /\ invoice[p] \in [InvoiceIndices -> InvoiceRecord]
  BY <1>1, PeriodFieldTypes
<1>3. period[p].status # "Absent" =>
         /\ m \in Assets /\ m \in AccountsOf(m) /\ pot[p][m] \in Nat
         /\ Held(pot[p], m) \in Nat
         /\ MoneyOf(p) = Held(pot[p], m) - period[p].vault_rent_reserve
  BY <1>1, SumFacts, MoneyNat, NamedAccounts
<1>4. CASE \E employer, employee \in Users, mint \in Assets, cap \in Caps,
              rate \in Rates, review \in ReviewWindows, start \in PeriodStarts,
              duration \in PeriodDurations :
              OpenPeriod(p, signer, employer, employee, mint, cap, rate, review,
                         start, duration)
  <2>1. ClaimsOf(p)' = ClaimsOf(p) /\ period[p].status = "Absent"
    BY <1>4 DEF OpenPeriod, ClaimsOf
  <2>2. MoneyOf(p) = 0
    BY <2>1 DEF MoneyOf
  <2> QED
    BY <1>1, <2>1, <2>2, MoneyCameIn
<1>5. ASSUME NEW max_fund_amount \in MaxFundAmounts, NEW seed \in Nat,
             FundPeriod(p, signer, max_fund_amount, seed)
      PROVE  [Abstract!Next]_Abstract!earmarksVars
  <2> DEFINE to_fund == CapGross(period[p]) - period[p].funded_gross
             balance == pot[p][m] + to_fund + seed
  <2>1. /\ ClaimsOf(p)' = ClaimsOf(p) /\ period[p].status \in Unsettled
        /\ to_fund > 0
    BY <1>5 DEF FundPeriod, ClaimsOf
  <2>2. to_fund \in Nat
    BY <1>1, <1>2, <2>1, CapGrossNat
  <2>3. /\ m \in Assets /\ m \in AccountsOf(m) /\ pot[p][m] \in Nat
        /\ Held(pot[p], m) \in Nat /\ period[p].status # "Absent"
        /\ MoneyOf(p) = Held(pot[p], m) - period[p].vault_rent_reserve
    BY <1>3, <2>1 DEF Unsettled
  <2>4. pot'[p] = [pot[p] EXCEPT ![m] = balance]
    BY <1>1, <1>5 DEF FundPeriod, HourlyTypeOK
  <2>5. /\ period'[p].token_mint = m /\ period'[p].status # "Absent"
        /\ period'[p].vault_rent_reserve = period[p].vault_rent_reserve + seed
    BY <1>1, <1>2, <1>5, <2>1 DEF FundPeriod, HourlyTypeOK, PeriodRecord, Unsettled
  <2> HIDE DEF to_fund
  <2>6. balance \in Nat /\ balance - pot[p][m] = to_fund + seed
    BY <2>2, <2>3
  <2>7. Held(pot'[p], m) = Held(pot[p], m) - pot[p][m] + balance
    <3>1. balance \in Nat /\ m \in AccountsOf(m)
      BY <2>3, <2>6
    <3> HIDE DEF balance, m
    <3> QED
      BY <1>2, <2>4, <3>1, HeldAfter
  <2>8. MoneyOf(p)' = Held(pot'[p], m) - period'[p].vault_rent_reserve
    BY <2>5 DEF MoneyOf, MoneyIn, Held
  <2>9. MoneyOf(p)' = MoneyOf(p) + to_fund
    <3> HIDE DEF balance, m
    <3> QED
      BY <1>2, <2>2, <2>3, <2>5, <2>6, <2>7, <2>8
  <2> QED
    BY <1>1, <2>1, <2>2, <2>9, MoneyCameIn
<1>6. ASSUME NEW cap \in Caps, RaiseWeeklyCap(p, signer, cap)
      PROVE  [Abstract!Next]_Abstract!earmarksVars
  <2>1. /\ period'[p].status = period[p].status /\ period'[p].token_mint = m
        /\ period'[p].vault_rent_reserve = period[p].vault_rent_reserve
    BY <1>1, <1>2, <1>6 DEF RaiseWeeklyCap, HourlyTypeOK, PeriodRecord
  <2>2. ClaimsOf(p)' = ClaimsOf(p) /\ MoneyOf(p)' = MoneyOf(p)
    BY <1>6, <2>1 DEF RaiseWeeklyCap, ClaimsOf, MoneyOf, MoneyIn
  <2> QED
    BY <1>1, <2>2, MoneyCameIn
<1>7. ASSUME NEW acct \in VaultAccounts, NEW amount \in Nat,
             NativePot(p, acct) \/ TokenPot(p, acct),
             StageInvoice(p, acct, signer, amount)
      PROVE  [Abstract!Next]_Abstract!earmarksVars
  <2> DEFINE fee == MarginalCommission(period[p], amount)
             i == period[p].invoice_count
             owed == OutstandingTotal(period[p])
             claim == amount + fee
  <2>1. /\ fee \in Nat /\ owed \in Nat /\ amount > 0
        /\ period[p].status \in {"Funded", "Active"}
        /\ owed + amount + fee <= SaturatingSub(pot[p][acct], period[p].vault_rent_reserve)
    BY <1>1, <1>7, MarginalCommissionNat, EarmarkedIsOutstanding
    DEF StageInvoice, Covers
  <2>2. /\ MoneyOf(p) = Held(pot[p], m) - period[p].vault_rent_reserve
        /\ m \in Assets /\ Held(pot[p], m) \in Nat
    BY <1>3, <2>1
  <2>3. pot[p][acct] \in Nat /\ pot[p][acct] <= Held(pot[p], m)
    BY <1>2, <1>7, <2>2, HeldNat, NamedAccounts
  <2>4. owed + claim <= MoneyOf(p) /\ claim \in Nat /\ claim > 0
    <3> HIDE DEF fee, owed, m
    <3> QED
      BY <1>2, <2>1, <2>2, <2>3 DEF SaturatingSub
  <2>5. i \in InvoiceIndices /\ invoice[p][i] = BlankInvoice
    <3>1. i \in InvoiceIndices /\ invoice[p][i].status = "Absent"
      BY <1>1, <1>7, HourlyAssumption, PeriodFieldTypes DEF StageInvoice, InvoiceIndices
    <3> QED
      BY <1>1, <3>1 DEF SumsOK, IndicesUsedOnce
  <2>6. ClaimsOf(p)[i] = 0
    BY <2>5 DEF ClaimsOf, BlankInvoice
  <2>7. ClaimsOf(p)' = [ClaimsOf(p) EXCEPT ![i] = claim]
    <3> DEFINE inv == [ status |-> "Staged", amount_net |-> amount, commission |-> fee,
                        release_at |-> now + period[p].review_window_secs,
                        dispute_deadline |-> 0 ]
    <3>1. invoice'[p] = [invoice[p] EXCEPT ![i] = inv]
      BY <1>1, <1>7 DEF StageInvoice, HourlyTypeOK
    <3>2. inv.amount_net = amount /\ inv.commission = fee
      OBVIOUS
    <3> HIDE DEF inv, fee
    <3> QED
      BY <1>2, <2>5, <3>1, <3>2 DEF ClaimsOf
  <2>8. MoneyOf(p)' = MoneyOf(p)
    <3>1. /\ period'[p].status = "Active" /\ period'[p].token_mint = m
          /\ period'[p].vault_rent_reserve = period[p].vault_rent_reserve
          /\ pot' = pot
      BY <1>1, <1>2, <1>7 DEF StageInvoice, RegisterStaged, HourlyTypeOK, PeriodRecord
    <3> QED
      BY <2>1, <3>1 DEF MoneyOf, MoneyIn
  <2> HIDE DEF claim, i
  <2> QED
    BY <1>1, <2>4, <2>5, <2>6, <2>7, <2>8, ClaimWasMade
<1>8. ReserveSeed(period[p]) \in Nat /\ InvoiceAmounts \subseteq Nat
  BY HourlyAssumption DEF ReserveSeed
<1> QED
  BY <1>4, <1>5, <1>6, <1>7, <1>8
  DEF PeriodInstruction, FundPeriodSol, FundPeriodToken, StageInvoiceSol,
      StageInvoiceToken

\* those on an invoice,
LEMMA InvoiceInstructionMaps ==
    ASSUME LInv, NEW p \in Periods, PotsBesides(p), NEW i \in InvoiceIndices,
           NEW signer \in Wallets, InvoiceInstruction(p, i, signer)
    PROVE  [Abstract!Next]_Abstract!earmarksVars
<1> DEFINE m == period[p].token_mint
<1>1. /\ HourlyTypeOK /\ HInv /\ MoneyOf(p) \in Nat
      /\ SumsOK(period[p], invoice[p], pot[p], outcome[p])
      /\ BooksOK(period[p], invoice[p], outcome[p])
  BY SumFacts, MoneyNat
<1>2. /\ period[p] \in PeriodRecord /\ pot[p] \in [VaultAccounts -> Nat]
      /\ period[p].vault_rent_reserve \in Nat
      /\ invoice[p] \in [InvoiceIndices -> InvoiceRecord]
  BY <1>1, PeriodFieldTypes
<1>3. invoice[p][i].amount_net \in Nat /\ invoice[p][i].commission \in Nat
  BY <1>2 DEF InvoiceRecord
<1>4. ASSUME NEW deadline \in 0..MaxTime, RaiseInvoiceDispute(p, i, signer, deadline)
      PROVE  [Abstract!Next]_Abstract!earmarksVars
  <2>1. ClaimsOf(p)' = ClaimsOf(p)
    BY <1>1, <1>2, <1>4
    DEF RaiseInvoiceDispute, Disputable, ClaimsOf, HourlyTypeOK, InvoiceRecord
  <2>2. MoneyOf(p)' = MoneyOf(p)
    BY <1>4 DEF RaiseInvoiceDispute, Disputable, MoneyOf, MoneyIn
  <2> QED
    BY <1>1, <2>1, <2>2, MoneyCameIn
<1>5. ASSUME NEW acct \in VaultAccounts, NativePot(p, acct) \/ TokenPot(p, acct),
             NEW to_employee \in Nat, NEW to_treasury \in Nat, NEW to_employer \in Nat,
             invoice[p][i].status # "Absent",
             to_employee + to_treasury + to_employer
                 = invoice[p][i].amount_net + invoice[p][i].commission,
             EndInvoice(p, acct, i, signer, to_employee, to_treasury, to_employer)
      PROVE  [Abstract!Next]_Abstract!earmarksVars
  <2> DEFINE claim == ClaimsOf(p)[i]
             balance == pot[p][acct] - claim
  <2>1. /\ claim = invoice[p][i].amount_net + invoice[p][i].commission
        /\ invoice[p][i].amount_net > 0
    BY <1>1, <1>5 DEF ClaimsOf, SumsOK, IndicesUsedOnce
  <2>2. ClaimsOf(p)' = [ClaimsOf(p) EXCEPT ![i] = 0]
    <3>1. /\ invoice'[p] = [invoice[p] EXCEPT ![i] = BlankInvoice]
          /\ BlankInvoice.amount_net = 0 /\ BlankInvoice.commission = 0
      BY <1>1, <1>5 DEF EndInvoice, BookEnd, HourlyTypeOK, BlankInvoice
    <3>2. \A x \in InvoiceIndices :
             invoice'[p][x].amount_net + invoice'[p][x].commission
             = IF x = i THEN 0
               ELSE invoice[p][x].amount_net + invoice[p][x].commission
      BY <1>2, <3>1
    <3> QED
      BY <3>2 DEF ClaimsOf
  <2>3. period[p].status # "Absent" /\ m \in Assets
    BY <1>1, <1>5, SumFacts DEF BooksOK, LiveIn
  <2>4. /\ MoneyOf(p) = Held(pot[p], m) - period[p].vault_rent_reserve
        /\ Held(pot[p], m) \in Nat
    BY <1>1, <1>2, <2>3, MoneyNat
  <2>5. acct \in AccountsOf(m) /\ pot[p][acct] \in Nat
    BY <1>2, <1>5, <2>3, NamedAccounts
  <2>6. /\ period'[p].status = period[p].status /\ period'[p].token_mint = m
        /\ period'[p].vault_rent_reserve = period[p].vault_rent_reserve
    BY <1>1, <1>2, <1>5
    DEF EndInvoice, BookEnd, RegisterSettledInvoice, HourlyTypeOK, PeriodRecord
  <2>7. pot'[p] = [pot[p] EXCEPT ![acct] = balance]
    BY <1>1, <1>5, <2>1 DEF EndInvoice, BookEnd, HourlyTypeOK
  <2>8. claim <= pot[p][acct]
    BY <1>5, <2>1 DEF EndInvoice, Endable
  <2>9. claim \in Nat /\ claim > 0
    BY <1>3, <2>1
  <2> HIDE DEF claim
  <2>10. balance \in Nat /\ balance = pot[p][acct] - claim
    BY <2>5, <2>8, <2>9
  <2>11. Held(pot'[p], m) = Held(pot[p], m) - pot[p][acct] + balance
    <3> HIDE DEF balance, m
    <3> QED
      BY <1>2, <2>5, <2>7, <2>10, HeldChanges
  <2>12. MoneyOf(p)' = Held(pot'[p], m) - period'[p].vault_rent_reserve
    BY <2>3, <2>6 DEF MoneyOf, MoneyIn, Held
  <2>13. MoneyOf(p)' = MoneyOf(p) - claim
    <3> HIDE DEF balance, m
    <3> QED
      BY <1>2, <2>4, <2>5, <2>6, <2>9, <2>10, <2>11, <2>12
  <2> QED
    BY <2>2, <2>9, <2>13, ClaimWasPaid DEF claim
<1>6. ASSUME NEW acct \in VaultAccounts, Endings(p, acct, i, signer)
      PROVE  [Abstract!Next]_Abstract!earmarksVars
  <2>1. /\ NativePot(p, acct) \/ TokenPot(p, acct)
        /\ \/ FinalizeInvoice(p, acct, i, signer) \/ ApproveInvoice(p, acct, i, signer)
           \/ AutoReleaseInvoice(p, acct, i, signer)
           \/ \E share \in InvoiceShares : ResolveInvoice(p, acct, i, signer, share)
    BY <1>6
    DEF Endings, FinalizeInvoiceSol, FinalizeInvoiceToken,
        ApproveInvoiceSol, ApproveInvoiceToken, ResolveInvoiceSol,
        ResolveInvoiceToken, AutoReleaseInvoiceSol, AutoReleaseInvoiceToken
  <2> QED
    BY <1>5, <2>1, EndingLegs
<1> QED
  BY <1>4, <1>6 DEF InvoiceInstruction

\* and those that anyone may send.
LEMMA AnyoneMaps ==
    ASSUME LInv, LInv', NEW p \in Periods, PotsBesides(p), Anyone(p)
    PROVE  [Abstract!Next]_Abstract!earmarksVars
<1> DEFINE m == period[p].token_mint
<1>1. /\ HourlyTypeOK /\ HInv /\ HInv' /\ MoneyOf(p) \in Nat /\ MoneyOf(p)' \in Nat
      /\ SumsOK(period[p], invoice[p], pot[p], outcome[p])
      /\ BooksOK(period[p], invoice[p], outcome[p])
      /\ OutstandingTotal(period[p]) \in Nat
  BY SumFacts, MoneyNat, MoneyNatNext, EarmarkedIsOutstanding DEF LInv
<1>2. /\ period[p] \in PeriodRecord /\ pot[p] \in [VaultAccounts -> Nat]
      /\ period[p].vault_rent_reserve \in Nat
      /\ invoice[p] \in [InvoiceIndices -> InvoiceRecord]
  BY <1>1, PeriodFieldTypes
<1>3. period[p].status # "Absent" =>
         /\ m \in Assets /\ m \in AccountsOf(m) /\ pot[p][m] \in Nat
         /\ Held(pot[p], m) \in Nat
         /\ MoneyOf(p) = Held(pot[p], m) - period[p].vault_rent_reserve
  BY <1>1, SumFacts, MoneyNat, NamedAccounts
<1>4. CASE SettlePeriod(p)
  <2> DEFINE kept == Reserved(period[p])
  <2>1. /\ period[p].status \in Unsettled /\ kept <= pot[p][m]
        /\ pot' = [pot EXCEPT ![p][m] = kept]
        /\ ClaimsOf(p)' = ClaimsOf(p)
    BY <1>4 DEF SettlePeriod, Refundable, Pot, ClaimsOf
  <2>2. /\ m \in Assets /\ m \in AccountsOf(m) /\ pot[p][m] \in Nat
        /\ Held(pot[p], m) \in Nat /\ period[p].status # "Absent"
        /\ MoneyOf(p) = Held(pot[p], m) - period[p].vault_rent_reserve
    BY <1>3, <2>1 DEF Unsettled
  <2>3. /\ period'[p].status = "Settled" /\ period'[p].token_mint = m
        /\ period'[p].vault_rent_reserve = period[p].vault_rent_reserve
    BY <1>1, <1>2, <1>4 DEF SettlePeriod, Refundable, HourlyTypeOK, PeriodRecord
  <2>4. /\ kept \in Nat
        /\ kept = OutstandingTotal(period[p]) + period[p].vault_rent_reserve
    BY <1>1, <1>2 DEF Reserved
  <2>5. pot'[p] = [pot[p] EXCEPT ![m] = kept]
    BY <1>1, <2>1 DEF HourlyTypeOK
  <2> HIDE DEF kept
  <2>6. /\ Held(pot'[p], m) = Held(pot[p], m) - pot[p][m] + kept
        /\ Held(pot[p], m) - pot[p][m] >= 0
    <3>1. pot[p][m] <= Held(pot[p], m)
      BY <1>2, <2>2, HeldNat
    <3>2. kept \in Nat /\ m \in AccountsOf(m)
      BY <2>2, <2>4
    <3> HIDE DEF m
    <3>3. Held(pot'[p], m) = Held(pot[p], m) - pot[p][m] + kept
      BY <1>2, <2>5, <3>2, HeldAfter
    <3> QED
      BY <2>2, <3>1, <3>3
  <2>7. MoneyOf(p)' = Held(pot'[p], m) - period'[p].vault_rent_reserve
    BY <2>3 DEF MoneyOf, MoneyIn, Held
  <2>8. MoneyOf(p)' <= MoneyOf(p) /\ MoneyOf(p)' >= OutstandingTotal(period[p])
    <3> HIDE DEF m
    <3> QED
      BY <1>1, <1>2, <2>1, <2>2, <2>3, <2>4, <2>6, <2>7
  <2> QED
    BY <1>1, <2>1, <2>8, MoneyWentBack
<1>5. CASE \E acct \in VaultAccounts : ClosePeriod(p, acct)
  <2>1. /\ period[p].live_invoices = 0 /\ period'[p] = BlankPeriod
        /\ ClaimsOf(p)' = ClaimsOf(p)
    BY <1>1, <1>5 DEF ClosePeriod, Closable, ClaimsOf, HourlyTypeOK
  <2>2. MoneyOf(p)' = 0
    BY <2>1 DEF MoneyOf, BlankPeriod
  <2>3. OutstandingTotal(period[p]) = 0
    <3>1. LiveIn(invoice[p]) = {}
      BY <1>1, <2>1, LiveFinite, FS_EmptySet DEF BooksOK
    <3>2. \A i \in InvoiceIndices : invoice[p][i] = BlankInvoice
      BY <1>1, <3>1 DEF SumsOK, IndicesUsedOnce, LiveIn
    <3>3. NetOf(invoice[p]) = 0 /\ FeesOf(invoice[p]) = 0
      <4> DEFINE none == [i \in InvoiceIndices |-> NoOutcome]
      <4>1. \A i \in InvoiceIndices : invoice[p][i] = BlankInvoice /\ none[i] = NoOutcome
        BY <3>2
      <4> HIDE DEF none
      <4> QED
        BY <4>1, NoInvoicesSums
    <3> QED
      BY <1>1, <3>3 DEF SumsOK, LedgerMatches, OutstandingTotal
  <2> QED
    BY <1>1, <2>1, <2>2, <2>3, MoneyWentBack
<1>6. CASE \E acct \in TokenAccounts : CreatePotAta(p, acct)
  <2>1. ClaimsOf(p)' = ClaimsOf(p) /\ MoneyOf(p)' = MoneyOf(p)
    BY <1>6 DEF CreatePotAta, ClaimsOf, MoneyOf, MoneyIn
  <2> QED
    BY <1>1, <2>1, MoneyCameIn
<1>7. ASSUME NEW acct \in VaultAccounts, NEW dust \in DustAmounts, SendDust(p, acct, dust)
      PROVE  [Abstract!Next]_Abstract!earmarksVars
  <2> DEFINE balance == pot[p][acct] + dust
  <2>1. /\ ClaimsOf(p)' = ClaimsOf(p) /\ period'[p] = period[p] /\ dust \in Nat
    BY <1>7, HourlyAssumption DEF SendDust, ClaimsOf
  <2>2. CASE period[p].status = "Absent"
    BY <1>1, <2>1, <2>2, MoneyCameIn DEF MoneyOf
  <2>3. CASE period[p].status # "Absent"
    <3>1. pot'[p] = [pot[p] EXCEPT ![acct] = balance] /\ pot[p][acct] \in Nat
      BY <1>1, <1>2, <1>7 DEF SendDust, HourlyTypeOK
    <3>2. balance \in Nat /\ balance - pot[p][acct] = dust
      BY <2>1, <3>1
    <3> HIDE DEF balance
    <3>3. Held(pot'[p], m) >= Held(pot[p], m) /\ Held(pot'[p], m) \in Nat
      <4>1. CASE acct \in AccountsOf(m)
        <5> HIDE DEF m
        <5>1. Held(pot'[p], m) = Held(pot[p], m) - pot[p][acct] + balance
          BY <1>2, <3>1, <3>2, <4>1, HeldAfter
        <5> QED
          BY <1>3, <2>1, <2>3, <3>1, <3>2, <5>1
      <4>2. CASE acct \notin AccountsOf(m)
        BY <1>2, <1>3, <2>3, <3>1, <4>2, HeldStays
      <4> QED
        BY <4>1, <4>2
    <3>4. MoneyOf(p)' = Held(pot'[p], m) - period[p].vault_rent_reserve
      BY <2>1, <2>3 DEF MoneyOf, MoneyIn, Held
    <3>5. MoneyOf(p)' >= MoneyOf(p)
      <4> HIDE DEF m
      <4> QED
        BY <1>2, <1>3, <2>3, <3>3, <3>4
    <3> QED
      BY <1>1, <2>1, <3>5, MoneyCameIn
  <2> QED
    BY <2>2, <2>3
<1>8. SOL \in VaultAccounts /\ TokenAccounts \subseteq VaultAccounts
  BY AccountsByAsset DEF Assets
<1> QED
  BY <1>4, <1>5, <1>6, <1>7, <1>8
  DEF Anyone, SettlePeriodSol, SettlePeriodToken, ClosePeriodSol, ClosePeriodToken

LEMMA OtherPotsUntouched ==
    ASSUME HourlyTypeOK, NEW p \in Periods, HourlyStep(p)
    PROVE  PotsBesides(p)
BY HourlyStepLocal DEF PotsBesides, MoneyOf, ClaimsOf, MoneyIn

LEMMA NextMaps ==
    LInv /\ LInv' /\ [Next]_hourlyVars => [Abstract!Next]_Abstract!earmarksVars
<1> SUFFICES ASSUME LInv, LInv', [Next]_hourlyVars
             PROVE  [Abstract!Next]_Abstract!earmarksVars
  OBVIOUS
<1>1. CASE UNCHANGED hourly
  <2>1. \A p \in Periods : MoneyOf(p)' = MoneyOf(p) /\ ClaimsOf(p)' = ClaimsOf(p)
    BY <1>1 DEF hourly, MoneyOf, ClaimsOf, MoneyIn
  <2> QED
    BY <2>1 DEF Abstract!earmarksVars
<1>2. ASSUME NEW p \in Periods, HourlyStep(p)
      PROVE  [Abstract!Next]_Abstract!earmarksVars
  <2>1. PotsBesides(p)
    BY <1>2, OtherPotsUntouched DEF LInv, HInv
  <2> QED
    BY <1>2, <2>1, PeriodInstructionMaps, InvoiceInstructionMaps, AnyoneMaps
    DEF HourlyStep
<1> QED
  BY <1>1, <1>2 DEF Next, Tick, hourly, hourlyVars

LEMMA InitMaps == Init => Abstract!Init
<1> SUFFICES ASSUME Init PROVE Abstract!Init
  OBVIOUS
<1>1. ASSUME NEW p \in Periods
      PROVE  MoneyOf(p) = 0 /\ ClaimsOf(p) = [i \in InvoiceIndices |-> 0]
  BY <1>1 DEF Init, MoneyOf, ClaimsOf, BlankPeriod, BlankInvoice
<1> QED
  BY <1>1 DEF Abstract!Init

\* The hourly engine implements Earmarks: every staged invoice is covered in
\* full when it is made, and leaves the pot in full, exactly once.
THEOREM HourlyImplementsEarmarks == Spec => ImplementsEarmarks
<1>1. LInv /\ LInv' /\ [Next]_hourlyVars => [Abstract!Next]_Abstract!earmarksVars
  BY NextMaps
<1>2. Init => Abstract!Init
  BY InitMaps
<1> QED
  BY <1>1, <1>2, LedgerInvariance, PTL DEF Spec, ImplementsEarmarks, Abstract!Spec

-----------------------------------------------------------------------------
(* The pause switch. *)

\* What a step leaves alone is frozen.
LEMMA UntouchedIsFrozen ==
    ASSUME HourlyTypeOK, NEW p \in Periods,
           period'[p] = period[p], invoice'[p] = invoice[p]
    PROVE  Frozen(p)
<1>1. period[p].funded_gross \in Nat /\ period[p].weekly_cap_net \in Nat
  BY PeriodFieldTypes
<1> QED
  BY <1>1 DEF Frozen

\* While paused only permissionless payouts that are due, dispute resolutions
\* and the winding down of periods go through.
LEMMA PausedStepFreezes ==
    ASSUME HourlyTypeOK, config.paused, NEW p \in Periods, HourlyStep(p)
    PROVE  Frozen(p)
<1>1. /\ period[p] \in PeriodRecord /\ invoice[p] \in [InvoiceIndices -> InvoiceRecord]
      /\ period[p].funded_gross \in Nat /\ period[p].weekly_cap_net \in Nat
  BY PeriodFieldTypes
<1>2. ASSUME NEW signer \in Wallets, PeriodInstruction(p, signer)
      PROVE  FALSE
  BY <1>2 DEF PeriodInstruction, OpenPeriod, FundPeriodSol, FundPeriodToken, FundPeriod,
              RaiseWeeklyCap, StageInvoiceSol, StageInvoiceToken, StageInvoice, NotPaused
<1>3. ASSUME NEW signer \in Wallets, NEW i \in InvoiceIndices,
             InvoiceInstruction(p, i, signer)
      PROVE  Frozen(p)
  <2>1. CASE \E deadline \in 0..MaxTime : RaiseInvoiceDispute(p, i, signer, deadline)
    <3>1. PICK deadline \in 0..MaxTime : RaiseInvoiceDispute(p, i, signer, deadline)
      BY <2>1
    <3>2. period' = period
      BY <3>1 DEF RaiseInvoiceDispute, Disputable
    <3>3. \A x \in InvoiceIndices :
             invoice'[p][x].status
             = IF x = i THEN "Disputed" ELSE invoice[p][x].status
      BY <1>1, <3>1 DEF RaiseInvoiceDispute, Disputable, HourlyTypeOK, InvoiceRecord
    <3>4. invoice[p][i].status = "Staged"
      BY <3>1 DEF RaiseInvoiceDispute, Disputable
    <3> QED
      BY <1>1, <3>2, <3>3, <3>4 DEF Frozen
  <2>2. ASSUME NEW acct, NEW to_employee, NEW to_treasury, NEW to_employer,
               EndInvoice(p, acct, i, signer, to_employee, to_treasury, to_employer),
               invoice[p][i].status = "Staged" => now >= invoice[p][i].release_at
        PROVE  Frozen(p)
    <3>1. /\ period'[p].status = period[p].status
          /\ period'[p].funded_gross = period[p].funded_gross
          /\ period'[p].weekly_cap_net = period[p].weekly_cap_net
      BY <1>1, <2>2
      DEF EndInvoice, Endable, BookEnd, RegisterSettledInvoice, HourlyTypeOK, PeriodRecord
    <3>2. \A x \in InvoiceIndices :
             invoice'[p][x].status = IF x = i THEN "Absent" ELSE invoice[p][x].status
      BY <1>1, <2>2 DEF EndInvoice, Endable, BookEnd, HourlyTypeOK, BlankInvoice
    <3> QED
      BY <1>1, <2>2, <3>1, <3>2 DEF Frozen
  <2>3. ASSUME NEW acct \in VaultAccounts, Endings(p, acct, i, signer)
        PROVE  Frozen(p)
    <3>1. CASE FinalizeInvoice(p, acct, i, signer) \/ AutoReleaseInvoice(p, acct, i, signer)
      BY <2>2, <3>1 DEF FinalizeInvoice, AutoReleaseInvoice, PayInFull, ReviewOver
    <3>2. CASE ApproveInvoice(p, acct, i, signer)
      BY <3>2 DEF ApproveInvoice, NotPaused
    <3>3. CASE \E share \in InvoiceShares : ResolveInvoice(p, acct, i, signer, share)
      BY <2>2, <3>3 DEF ResolveInvoice
    <3> QED
      BY <2>3, <3>1, <3>2, <3>3
      DEF Endings, FinalizeInvoiceSol, FinalizeInvoiceToken,
          ApproveInvoiceSol, ApproveInvoiceToken, ResolveInvoiceSol,
          ResolveInvoiceToken, AutoReleaseInvoiceSol, AutoReleaseInvoiceToken
  <2> QED
    BY <1>3, <2>1, <2>3 DEF InvoiceInstruction
<1>4. CASE SettlePeriod(p)
  <2>1. /\ period'[p].status = "Settled" /\ invoice'[p] = invoice[p]
        /\ period'[p].funded_gross = period[p].funded_gross
        /\ period'[p].weekly_cap_net = period[p].weekly_cap_net
    BY <1>1, <1>4 DEF SettlePeriod, Refundable, HourlyTypeOK, PeriodRecord
  <2> QED
    BY <1>1, <2>1 DEF Frozen
<1>5. CASE \E acct \in VaultAccounts : ClosePeriod(p, acct)
  <2>1. period'[p] = BlankPeriod /\ invoice'[p] = invoice[p]
    BY <1>5 DEF ClosePeriod, HourlyTypeOK
  <2>2. /\ BlankPeriod.status = "Absent" /\ BlankPeriod.funded_gross = 0
        /\ BlankPeriod.weekly_cap_net = 0
    BY DEF BlankPeriod
  <2> QED
    BY <1>1, <2>1, <2>2 DEF Frozen
<1>6. CASE \/ \E acct \in TokenAccounts : CreatePotAta(p, acct)
           \/ \E acct \in VaultAccounts, dust \in DustAmounts : SendDust(p, acct, dust)
  BY <1>6, UntouchedIsFrozen DEF CreatePotAta, SendDust
<1>7. SOL \in VaultAccounts /\ TokenAccounts \subseteq VaultAccounts
  BY AccountsByAsset DEF Assets
<1> QED
  BY <1>2, <1>3, <1>4, <1>5, <1>6, <1>7
  DEF HourlyStep, Anyone, SettlePeriodSol, SettlePeriodToken, ClosePeriodSol,
      ClosePeriodToken

\* While the program is paused nothing new starts and nothing ends early.
THEOREM PauseStopsHourly == Spec => PauseFreezesHourly
<1>1. HInv /\ [Next]_hourlyVars
      => [config.paused => \A p \in Periods : Frozen(p)]_hourlyVars
  <2> SUFFICES ASSUME HInv, Next, config.paused, NEW x \in Periods
               PROVE  Frozen(x)
    OBVIOUS
  <2>1. HourlyTypeOK
    BY DEF HInv
  <2>2. CASE UNCHANGED hourly
    BY <2>1, <2>2, UntouchedIsFrozen DEF hourly
  <2>3. ASSUME NEW p \in Periods, HourlyStep(p)
        PROVE  Frozen(x)
    BY <2>1, <2>3, PausedStepFreezes, HourlyStepLocal, UntouchedIsFrozen
  <2> QED
    BY <2>2, <2>3 DEF Next, Tick
<1> QED
  BY <1>1, HourlyInvariance, PTL DEF Spec, PauseFreezesHourly

-----------------------------------------------------------------------------
(* What the treasury earns, invoice by invoice. *)

Earns(p) == EarnsItsRate(period[p], invoice[p], outcome[p])

LEMMA EarnFacts ==
    ASSUME LInv, NEW p \in Periods
    PROVE  /\ HourlyTypeOK /\ period[p] \in PeriodRecord
           /\ period[p].commission_rate_bps \in Nat
           /\ period[p].total_staged_net \in Nat
           /\ invoice[p] \in [InvoiceIndices -> InvoiceRecord]
           /\ outcome[p] \in [InvoiceIndices -> Outcome]
BY SumFacts, PeriodFieldTypes DEF HourlyTypeOK, PeriodRecord

\* A handler that leaves the rate and the invoices alone.
LEMMA AmendedEarns ==
    ASSUME NEW p \in Periods, Earns(p),
           period'[p].commission_rate_bps = period[p].commission_rate_bps,
           invoice'[p] = invoice[p], outcome'[p] = outcome[p]
    PROVE  Earns(p)'
BY DEF Earns, EarnsItsRate

\* open_period sets a rate before anything is charged, and close_period_* clears
\* it when nothing is any more.
LEMMA NothingChargedEarns ==
    ASSUME NEW p \in Periods, LiveIn(invoice'[p]) = {}, EndedIn(outcome'[p]) = {}
    PROVE  Earns(p)'
BY DEF Earns, EarnsItsRate

\* The commission of a new invoice is the growth of the cumulative one.
LEMMA MarginalCommissionAtRate ==
    ASSUME HourlyTypeOK, NEW p \in Periods, NEW amount \in Nat
    PROVE  AtRate(MarginalCommission(period[p], amount), amount,
                  period[p].commission_rate_bps)
<1> DEFINE staged == period[p].total_staged_net
           rate == period[p].commission_rate_bps
           before == CalculateCommission(staged, rate)
           after == CalculateCommission(staged + amount, rate)
           own == CalculateCommission(amount, rate)
<1>1. staged \in Nat /\ rate \in Nat /\ staged + amount \in Nat
  BY PeriodFieldTypes
<1>2. MarginalCommission(period[p], amount) = after - before
  BY MarginalCommissionIsGrowth
<1> HIDE DEF staged, rate
<1>3. /\ before \in Nat /\ after \in Nat /\ own \in Nat
      /\ before + own <= after /\ after <= before + own + 1
  BY <1>1, CommissionNat, CommissionGrowth
<1>4. AtRate(after - before, amount, rate) <=> after - before \in own..own + 1
  BY DEF AtRate
<1> HIDE DEF before, after, own
<1>5. after - before \in own..own + 1
  BY <1>3
<1> QED
  BY <1>2, <1>4, <1>5 DEF rate

LEMMA StageInvoiceEarns ==
    ASSUME LInv, NEW p \in Periods, Earns(p), NEW signer \in Wallets,
           NEW acct, NEW amount \in Nat, StageInvoice(p, acct, signer, amount)
    PROVE  Earns(p)'
<1> DEFINE h == period[p]
           n == h.invoice_count
           fee == MarginalCommission(h, amount)
           inv == [ status |-> "Staged", amount_net |-> amount, commission |-> fee,
                    release_at |-> now + h.review_window_secs,
                    dispute_deadline |-> 0 ]
<1>1. /\ period'[p].commission_rate_bps = h.commission_rate_bps
      /\ outcome'[p] = outcome[p]
  BY EarnFacts DEF StageInvoice, RegisterStaged, HourlyTypeOK, PeriodRecord
<1>2. invoice'[p] = [invoice[p] EXCEPT ![n] = inv]
  BY EarnFacts DEF StageInvoice, HourlyTypeOK
<1>3. AtRate(inv.commission, inv.amount_net, h.commission_rate_bps)
  BY EarnFacts, MarginalCommissionAtRate
<1> HIDE DEF inv
<1>4. ASSUME NEW x \in LiveIn(invoice'[p])
      PROVE  AtRate(invoice'[p][x].commission, invoice'[p][x].amount_net,
                    h.commission_rate_bps)
  <2>1. x \in InvoiceIndices
    BY DEF LiveIn
  <2>2. CASE x = n
    BY <1>2, <1>3, <2>1, <2>2, EarnFacts
  <2>3. CASE x # n
    <3>1. invoice'[p][x] = invoice[p][x] /\ x \in LiveIn(invoice[p])
      BY <1>2, <2>1, <2>3, EarnFacts DEF LiveIn
    <3> QED
      BY <3>1 DEF Earns, EarnsItsRate
  <2> QED
    BY <2>2, <2>3
<1> QED
  BY <1>1, <1>4 DEF Earns, EarnsItsRate

\* A dispute changes neither amount nor commission.
LEMMA RaiseInvoiceDisputeEarns ==
    ASSUME LInv, NEW p \in Periods, Earns(p), NEW i \in InvoiceIndices,
           NEW signer, NEW deadline, RaiseInvoiceDispute(p, i, signer, deadline)
    PROVE  Earns(p)'
<1>1. period' = period /\ outcome' = outcome /\ invoice[p][i].status = "Staged"
  BY DEF RaiseInvoiceDispute, Disputable
<1>2. invoice'[p] = [invoice[p] EXCEPT ![i] =
          [invoice[p][i] EXCEPT !.status = "Disputed", !.dispute_deadline = deadline]]
  BY EarnFacts DEF RaiseInvoiceDispute, HourlyTypeOK
<1>3. ASSUME NEW x \in LiveIn(invoice'[p])
      PROVE  /\ x \in LiveIn(invoice[p])
             /\ invoice'[p][x].commission = invoice[p][x].commission
             /\ invoice'[p][x].amount_net = invoice[p][x].amount_net
  <2>1. x \in InvoiceIndices /\ invoice[p][x] \in InvoiceRecord
    BY EarnFacts DEF LiveIn
  <2> QED
    BY <1>1, <1>2, <2>1, EarnFacts DEF LiveIn, InvoiceRecord
<1> QED
  BY <1>1, <1>3 DEF Earns, EarnsItsRate

\* An invoice that ends is paid at the rate if its legs are.
LEMMA EndInvoiceEarns ==
    ASSUME LInv, NEW p \in Periods, Earns(p), NEW i \in InvoiceIndices,
           NEW acct, NEW signer, NEW to_employee, NEW to_treasury, NEW to_employer,
           EndInvoice(p, acct, i, signer, to_employee, to_treasury, to_employer),
           AtRate(to_treasury, to_employee, period[p].commission_rate_bps),
           to_employee < invoice[p][i].amount_net =>
               to_treasury
               = CalculateCommission(to_employee, period[p].commission_rate_bps)
    PROVE  Earns(p)'
<1> DEFINE rate == period[p].commission_rate_bps
           o == [ net |-> invoice[p][i].amount_net,
                  commission |-> invoice[p][i].commission,
                  disputed |-> invoice[p][i].status = "Disputed",
                  early |-> now < DueAt(invoice[p][i]),
                  employee |-> to_employee, treasury |-> to_treasury,
                  employer |-> to_employer, by |-> RoleOf(period[p], signer) ]
<1>1. period'[p].commission_rate_bps = rate
  BY EarnFacts
  DEF EndInvoice, BookEnd, RegisterSettledInvoice, HourlyTypeOK, PeriodRecord
<1>2. /\ invoice'[p] = [invoice[p] EXCEPT ![i] = BlankInvoice]
      /\ BlankInvoice.status = "Absent"
  BY EarnFacts DEF EndInvoice, BookEnd, HourlyTypeOK, BlankInvoice
<1>3. outcome'[p] = [outcome[p] EXCEPT ![i] = o]
  BY EarnFacts DEF EndInvoice, BookEnd, HourlyTypeOK
<1>4. /\ AtRate(o.treasury, o.employee, rate)
      /\ o.employee < o.net => o.treasury = CalculateCommission(o.employee, rate)
  OBVIOUS
<1> HIDE DEF o
<1>5. ASSUME NEW x \in LiveIn(invoice'[p])
      PROVE  x \in LiveIn(invoice[p]) /\ invoice'[p][x] = invoice[p][x]
  BY <1>2, EarnFacts DEF LiveIn
<1>6. ASSUME NEW x \in EndedIn(outcome'[p])
      PROVE  \/ outcome'[p][x] = o
             \/ x \in EndedIn(outcome[p]) /\ outcome'[p][x] = outcome[p][x]
  BY <1>3, EarnFacts DEF EndedIn
<1> QED
  BY <1>1, <1>4, <1>5, <1>6 DEF Earns, EarnsItsRate

\* finalize_invoice_*, approve_invoice_* and auto_release_invoice_* hand the
\* booked commission over.
LEMMA PayInFullEarns ==
    ASSUME LInv, NEW p \in Periods, Earns(p), NEW acct, NEW i \in InvoiceIndices,
           NEW signer, invoice[p][i].status # "Absent", PayInFull(p, acct, i, signer)
    PROVE  Earns(p)'
<1>1. AtRate(invoice[p][i].commission, invoice[p][i].amount_net,
             period[p].commission_rate_bps)
  BY DEF Earns, EarnsItsRate, LiveIn
<1>2. invoice[p][i].amount_net \in Nat
  BY EarnFacts DEF InvoiceRecord
<1>3. ~(invoice[p][i].amount_net < invoice[p][i].amount_net)
  BY <1>2
<1> QED
  BY <1>1, <1>3, EndInvoiceEarns DEF PayInFull

\* resolve_invoice_*: commission is monotone, so the cap at what was booked for
\* the whole invoice is never reached by the commission on a share of it.
LEMMA ResolveInvoiceEarns ==
    ASSUME LInv, NEW p \in Periods, Earns(p), NEW acct, NEW i \in InvoiceIndices,
           NEW signer, NEW share \in Nat, ResolveInvoice(p, acct, i, signer, share)
    PROVE  Earns(p)'
<1> DEFINE inv == invoice[p][i]
           rate == period[p].commission_rate_bps
           own == CalculateCommission(share, rate)
           whole == CalculateCommission(inv.amount_net, rate)
<1>1. /\ inv.amount_net \in Nat /\ inv.commission \in Nat /\ rate \in Nat
  BY EarnFacts DEF InvoiceRecord
<1>2. share <= inv.amount_net /\ inv.status = "Disputed"
  BY DEF ResolveInvoice
<1>3. inv.commission \in whole..whole + 1
  BY <1>2 DEF Earns, EarnsItsRate, LiveIn, AtRate
<1>4. \E back : EndInvoice(p, acct, i, signer, share,
                            TreasuryLeg(period[p], inv, share), back)
  BY DEF ResolveInvoice
<1>5. TreasuryLeg(period[p], inv, share) = Least(own, inv.commission)
  BY DEF TreasuryLeg
<1>6. AtRate(own, share, rate) <=> own \in own..own + 1
  BY DEF AtRate
<1> HIDE DEF inv, rate
<1>7. own \in Nat /\ whole \in Nat /\ own <= whole
  BY <1>1, <1>2, CommissionNat, CommissionMonotone
<1> HIDE DEF own, whole
<1>8. Least(own, inv.commission) = own /\ own \in own..own + 1
  BY <1>1, <1>3, <1>7 DEF Least
<1> QED
  BY <1>4, <1>5, <1>6, <1>8, EndInvoiceEarns DEF inv, rate, own

LEMMA HourlyStepEarns ==
    ASSUME LInv, NEW p \in Periods, Earns(p), HourlyStep(p)
    PROVE  Earns(p)'
<1>1. InvoiceAmounts \subseteq Nat /\ InvoiceShares \subseteq Nat
  BY HourlyAssumption
<1>2. ASSUME NEW signer \in Wallets, PeriodInstruction(p, signer)
      PROVE  Earns(p)'
  <2>1. ASSUME NEW employer, NEW employee, NEW mint, NEW cap, NEW rate, NEW review,
               NEW start, NEW duration,
               OpenPeriod(p, signer, employer, employee, mint, cap, rate, review,
                          start, duration)
        PROVE  Earns(p)'
    <3>1. /\ period[p].status = "Absent"
          /\ invoice'[p] = invoice[p] /\ outcome'[p] = outcome[p]
      BY <2>1 DEF OpenPeriod
    <3>2. LiveIn(invoice[p]) = {}
      BY <3>1, SumFacts, AbsentHasNone
    <3>3. EndedIn(outcome[p]) = {}
      <4>1. period[p].invoice_count = 0
        BY <3>1, SumFacts DEF SumsOK, IndicesUsedOnce, BlankPeriod
      <4>2. \A i \in EndedIn(outcome[p]) : i \in Nat /\ i < 0
        BY <4>1, SumFacts DEF SumsOK, IndicesUsedOnce, EndedIn, InvoiceIndices
      <4> QED
        BY <4>2
    <3> QED
      BY <3>1, <3>2, <3>3, NothingChargedEarns
  <2>2. CASE \E max_fund_amount \in MaxFundAmounts :
                \/ FundPeriodSol(p, signer, max_fund_amount)
                \/ FundPeriodToken(p, signer, max_fund_amount)
    <3>1. /\ period'[p].commission_rate_bps = period[p].commission_rate_bps
          /\ invoice' = invoice /\ outcome' = outcome
      BY <2>2, EarnFacts
      DEF FundPeriodSol, FundPeriodToken, FundPeriod, HourlyTypeOK, PeriodRecord
    <3> QED
      BY <3>1, AmendedEarns
  <2>3. CASE \E cap \in Caps : RaiseWeeklyCap(p, signer, cap)
    <3>1. /\ period'[p].commission_rate_bps = period[p].commission_rate_bps
          /\ invoice' = invoice /\ outcome' = outcome
      BY <2>3, EarnFacts DEF RaiseWeeklyCap, HourlyTypeOK, PeriodRecord
    <3> QED
      BY <3>1, AmendedEarns
  <2>4. CASE \E acct \in VaultAccounts, amount \in InvoiceAmounts :
                \/ StageInvoiceSol(p, acct, signer, amount)
                \/ StageInvoiceToken(p, acct, signer, amount)
    BY <1>1, <2>4, StageInvoiceEarns DEF StageInvoiceSol, StageInvoiceToken
  <2> QED
    BY <1>2, <2>1, <2>2, <2>3, <2>4 DEF PeriodInstruction
<1>3. ASSUME NEW signer \in Wallets, NEW i \in InvoiceIndices,
             InvoiceInstruction(p, i, signer)
      PROVE  Earns(p)'
  <2>1. CASE \E deadline \in 0..MaxTime : RaiseInvoiceDispute(p, i, signer, deadline)
    BY <2>1, RaiseInvoiceDisputeEarns
  <2>2. ASSUME NEW acct \in VaultAccounts, Endings(p, acct, i, signer)
        PROVE  Earns(p)'
    <3>1. CASE \/ FinalizeInvoice(p, acct, i, signer) \/ ApproveInvoice(p, acct, i, signer)
               \/ AutoReleaseInvoice(p, acct, i, signer)
      <4>1. invoice[p][i].status # "Absent" /\ PayInFull(p, acct, i, signer)
        BY <3>1 DEF FinalizeInvoice, ApproveInvoice, AutoReleaseInvoice
      <4> QED
        BY <4>1, PayInFullEarns
    <3>2. CASE \E share \in InvoiceShares : ResolveInvoice(p, acct, i, signer, share)
      BY <1>1, <3>2, ResolveInvoiceEarns
    <3> QED
      BY <2>2, <3>1, <3>2
      DEF Endings, FinalizeInvoiceSol, FinalizeInvoiceToken,
          ApproveInvoiceSol, ApproveInvoiceToken, ResolveInvoiceSol,
          ResolveInvoiceToken, AutoReleaseInvoiceSol, AutoReleaseInvoiceToken
  <2> QED
    BY <1>3, <2>1, <2>2 DEF InvoiceInstruction
<1>4. CASE SettlePeriodSol(p) \/ SettlePeriodToken(p)
  <2>1. SettlePeriod(p)
    BY <1>4 DEF SettlePeriodSol, SettlePeriodToken
  <2>2. invoice' = invoice /\ outcome' = outcome
    BY <2>1 DEF SettlePeriod
  <2>3. period'[p].commission_rate_bps = period[p].commission_rate_bps
    BY <2>1, EarnFacts DEF SettlePeriod, HourlyTypeOK, PeriodRecord
  <2> QED
    BY <2>2, <2>3, AmendedEarns
<1>5. CASE \E acct \in VaultAccounts : ClosePeriod(p, acct)
  <2>1. /\ invoice'[p] = invoice[p] /\ period[p].live_invoices = 0
        /\ outcome'[p] = [i \in InvoiceIndices |-> NoOutcome]
    BY <1>5, EarnFacts DEF ClosePeriod, Closable, HourlyTypeOK
  <2>2. LiveIn(invoice[p]) = {}
    BY <2>1, SumFacts, LiveFinite, FS_EmptySet DEF BooksOK
  <2> QED
    BY <2>1, <2>2, NothingChargedEarns DEF EndedIn
<1>6. CASE \/ \E acct \in TokenAccounts : CreatePotAta(p, acct)
           \/ \E acct \in VaultAccounts, dust \in DustAmounts : SendDust(p, acct, dust)
  BY <1>6, AmendedEarns DEF CreatePotAta, SendDust
<1>7. SOL \in VaultAccounts /\ TokenAccounts \subseteq VaultAccounts
  BY AccountsByAsset DEF Assets
<1> QED
  BY <1>2, <1>3, <1>4, <1>5, <1>6, <1>7
  DEF HourlyStep, Anyone, ClosePeriodSol, ClosePeriodToken

LEMMA NextEarns ==
    LInv /\ TreasuryEarnsItsRate /\ [Next]_hourlyVars => TreasuryEarnsItsRate'
<1> SUFFICES ASSUME LInv, TreasuryEarnsItsRate, [Next]_hourlyVars, NEW x \in Periods
             PROVE  Earns(x)'
  BY DEF TreasuryEarnsItsRate, Earns
<1>1. HourlyTypeOK /\ Earns(x)
  BY SumFacts DEF TreasuryEarnsItsRate, Earns
<1>2. CASE UNCHANGED hourly
  BY <1>1, <1>2, AmendedEarns DEF hourly
<1>3. ASSUME NEW p \in Periods, HourlyStep(p) PROVE Earns(x)'
  <2>1. CASE x = p
    BY <1>1, <1>3, <2>1, HourlyStepEarns
  <2>2. CASE x # p
    <3>1. /\ period'[x] = period[x] /\ invoice'[x] = invoice[x]
          /\ outcome'[x] = outcome[x]
      BY <1>1, <1>3, <2>2, HourlyStepLocal
    <3> QED
      BY <1>1, <3>1, AmendedEarns
  <2> QED
    BY <2>1, <2>2
<1> QED
  BY <1>2, <1>3 DEF Next, Tick, hourly, hourlyVars

\* However the roundings of the cumulative commission fall and however disputes
\* are split, the treasury is paid the commission on what the worker is paid,
\* to within one unit, and exactly that commission after a split.
THEOREM EarningsAtRate == Spec => []TreasuryEarnsItsRate
<1>1. Init => TreasuryEarnsItsRate
  BY DEF Init, TreasuryEarnsItsRate, EarnsItsRate, LiveIn, EndedIn, BlankInvoice
<1> QED
  BY <1>1, NextEarns, LedgerInvariance, PTL DEF Spec
=============================================================================
