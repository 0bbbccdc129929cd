---------------------------- MODULE HourlyProofs ----------------------------
(***************************************************************************)
(* The invariants of the hourly engine, proved for any number of periods,  *)
(* wallets, mints and invoices, any amounts, rates, windows and bounds.    *)
(* HInv of HourlyProperties is inductive; nothing in it is a sum over      *)
(* invoices, because every handler checks its own subtraction.             *)
(***************************************************************************)
EXTENDS HourlyProperties, ConfigProofs, FiniteSetTheorems, TLAPS

-----------------------------------------------------------------------------
(* What every action lemma uses. *)

LEMMA PeriodKeyTypes ==
    /\ Wallets \subseteq Keys /\ Users \subseteq Keys
    /\ Platforms \subseteq Keys /\ Treasuries \subseteq Keys /\ Nobody \in Keys
BY DEF Keys, Wallets

\* Which accounts hold which asset: only the vault PDA holds SOL.
LEMMA AccountsByAsset ==
    /\ Assets \subseteq VaultAccounts /\ TokenAccounts \subseteq VaultAccounts
    /\ Mints \subseteq TokenAccounts
    /\ \A m \in Assets : AssetOf(m) = m
    /\ \A acct \in VaultAccounts : AssetOf(acct) = SOL => acct = SOL
    /\ \A acct \in VaultAccounts : acct # SOL => acct \in TokenAccounts
BY VaultsAssumption, ConfigAssumption
DEF VaultAccounts, TokenAccounts, Assets, AssetOf

\* The types of one period's account, invoices, vault and history.
LEMMA PeriodFieldTypes ==
    ASSUME HourlyTypeOK, NEW p \in Periods
    PROVE  /\ period[p] \in PeriodRecord
           /\ period[p].weekly_cap_net \in Nat
           /\ period[p].commission_rate_bps \in Nat
           /\ period[p].funded_gross \in Nat /\ period[p].total_staged_net \in Nat
           /\ period[p].released_net \in Nat /\ period[p].refunded_amount \in Nat
           /\ period[p].outstanding_net \in Nat
           /\ period[p].outstanding_commission \in Nat
           /\ period[p].vault_rent_reserve \in Nat
           /\ period[p].invoice_count \in Nat /\ period[p].live_invoices \in Nat
           /\ period[p].review_window_secs \in Nat
           /\ invoice[p] \in [InvoiceIndices -> InvoiceRecord]
           /\ pot[p] \in [VaultAccounts -> Nat]
           /\ outcome[p] \in [InvoiceIndices -> Outcome]
           /\ now \in Nat /\ potAta \in SUBSET (Periods \X TokenAccounts)
BY DEF HourlyTypeOK, PeriodRecord

\* A step that changes one period.
PeriodStep(p, h, invoices, v, outcomes) ==
    /\ period' = [period EXCEPT ![p] = h]
    /\ invoice' = [invoice EXCEPT ![p] = invoices]
    /\ pot' = [pot EXCEPT ![p] = v]
    /\ outcome' = [outcome EXCEPT ![p] = outcomes]
    /\ potAta' \in SUBSET (Periods \X TokenAccounts)
    /\ \A x \in Periods \ {p} : \A m : <<x, m>> \in potAta => <<x, m>> \in potAta'
    /\ UNCHANGED <<config, now>>

\* What PotSolvent says of a period account h with vault contents v, and of the
\* account that backs it.
Backs(p, h, v, atas, acct) ==
    /\ AssetOf(acct) = h.token_mint
    /\ v[acct] >= OutstandingTotal(h) + h.vault_rent_reserve
    /\ h.live_invoices > 0 => acct = SOL \/ <<p, acct>> \in atas

Covered(p, h, v, atas) ==
    h.status # "Absent" => \E acct \in VaultAccounts : Backs(p, h, v, atas, acct)

LEMMA CoveredIsSolvent ==
    ASSUME NEW p \in Periods
    PROVE  PotSolvent(p) <=> Covered(p, period[p], pot[p], potAta)
BY DEF PotSolvent, Covered, Backs

\* Such a step keeps the invariant if it keeps it for that period: no handler
\* reaches the accounts or the vault of another one.
LEMMA PeriodStepKeeps ==
    ASSUME HInv, NEW p \in Periods, NEW h \in PeriodRecord,
           NEW invoices \in [InvoiceIndices -> InvoiceRecord],
           NEW v \in [VaultAccounts -> Nat], NEW outcomes \in [InvoiceIndices -> Outcome],
           PeriodStep(p, h, invoices, v, outcomes),
           BooksOK(h, invoices, outcomes), Covered(p, h, v, potAta')
    PROVE  HInv'
<1>1. HourlyTypeOK
  BY DEF HInv
<1>2. /\ period' \in [Periods -> PeriodRecord] /\ period'[p] = h
      /\ invoice' \in [Periods -> [InvoiceIndices -> InvoiceRecord]]
      /\ invoice'[p] = invoices
      /\ pot' \in [Periods -> [VaultAccounts -> Nat]] /\ pot'[p] = v
      /\ outcome' \in [Periods -> [InvoiceIndices -> Outcome]]
      /\ outcome'[p] = outcomes
  BY <1>1 DEF HourlyTypeOK, PeriodStep
<1>3. ConfigTypeOK' /\ now' \in Nat \ {0} /\ potAta' \in SUBSET (Periods \X TokenAccounts)
  BY <1>1 DEF HourlyTypeOK, PeriodStep, ConfigTypeOK, ConfigExists
<1>4. HourlyTypeOK'
  BY <1>2, <1>3 DEF HourlyTypeOK
<1>5. PeriodOK(p)'
  BY <1>2 DEF PeriodOK, PotSolvent, Covered, Backs, OutstandingTotal
<1>6. ASSUME NEW x \in Periods \ {p}
      PROVE  PeriodOK(x)'
  <2>1. /\ period'[x] = period[x] /\ invoice'[x] = invoice[x]
        /\ pot'[x] = pot[x] /\ outcome'[x] = outcome[x]
    BY <1>1, <1>6 DEF HourlyTypeOK, PeriodStep
  <2>2. \A m : <<x, m>> \in potAta => <<x, m>> \in potAta'
    BY <1>6 DEF PeriodStep
  <2>3. PeriodOK(x)
    BY <1>6 DEF HInv
  <2> QED
    BY <2>1, <2>2, <2>3
    DEF PeriodOK, PotSolvent, OutstandingTotal
<1> QED
  BY <1>4, <1>5, <1>6 DEF HInv

\* What the invariant says of one period.
LEMMA PeriodFacts ==
    ASSUME HInv, NEW p \in Periods
    PROVE  /\ HourlyTypeOK /\ BooksOK(period[p], invoice[p], outcome[p])
           /\ Covered(p, period[p], pot[p], potAta)
           /\ period[p].status # "Absent" => period[p].token_mint \in Assets
BY CoveredIsSolvent DEF HInv, PeriodOK, BooksOK

-----------------------------------------------------------------------------
(* The set of live invoices. *)

LEMMA LiveFinite ==
    ASSUME NEW invoices
    PROVE  IsFiniteSet(LiveIn(invoices)) /\ Cardinality(LiveIn(invoices)) \in Nat
<1>1. IsFiniteSet(InvoiceIndices)
  BY HourlyAssumption, FS_Interval DEF InvoiceIndices
<1>2. LiveIn(invoices) \subseteq InvoiceIndices
  BY DEF LiveIn
<1>3. IsFiniteSet(LiveIn(invoices))
  BY <1>1, <1>2, FS_Subset
<1> QED
  BY <1>3, FS_CardinalityType

\* Staging adds one live invoice, ending one removes it.
LEMMA LiveAdded ==
    ASSUME NEW invoices \in [InvoiceIndices -> InvoiceRecord],
           NEW i \in InvoiceIndices, NEW inv \in InvoiceRecord,
           invoices[i].status = "Absent", inv.status # "Absent"
    PROVE  /\ LiveIn([invoices EXCEPT ![i] = inv]) = LiveIn(invoices) \cup {i}
           /\ Cardinality(LiveIn([invoices EXCEPT ![i] = inv]))
              = Cardinality(LiveIn(invoices)) + 1
<1>1. LiveIn([invoices EXCEPT ![i] = inv]) = LiveIn(invoices) \cup {i}
  BY DEF LiveIn
<1>2. i \notin LiveIn(invoices)
  BY DEF LiveIn
<1> QED
  BY <1>1, <1>2, LiveFinite, FS_AddElement

LEMMA LiveRemoved ==
    ASSUME NEW invoices \in [InvoiceIndices -> InvoiceRecord],
           NEW i \in InvoiceIndices, invoices[i].status # "Absent"
    PROVE  /\ LiveIn([invoices EXCEPT ![i] = BlankInvoice]) = LiveIn(invoices) \ {i}
           /\ Cardinality(LiveIn([invoices EXCEPT ![i] = BlankInvoice]))
              = Cardinality(LiveIn(invoices)) - 1
<1>1. LiveIn([invoices EXCEPT ![i] = BlankInvoice]) = LiveIn(invoices) \ {i}
  BY DEF LiveIn, BlankInvoice
<1>2. i \in LiveIn(invoices)
  BY DEF LiveIn
<1> QED
  BY <1>1, <1>2, LiveFinite, FS_RemoveElement

LEMMA BlankPeriodOK ==
    /\ BlankPeriod \in PeriodRecord /\ BlankInvoice \in InvoiceRecord
    /\ NoOutcome \in Outcome
<1>1. "Absent" \in {"Absent", "Open", "Funded", "Active", "Settled"} /\ 0 \in Nat
      /\ Nobody \in Keys /\ Nobody \in Assets \cup {Nobody}
  BY DEF Keys
<1>2. BlankPeriod \in PeriodRecord
  BY <1>1, Zenon DEF BlankPeriod, PeriodRecord
<1>3. BlankInvoice \in InvoiceRecord
  BY DEF BlankInvoice, InvoiceRecord
<1>4. NoOutcome \in Outcome
  BY DEF NoOutcome, Outcome
<1> QED
  BY <1>2, <1>3, <1>4

-----------------------------------------------------------------------------
(* Instructions on the period account. *)

\* A period address that holds no account has no invoices.
LEMMA AbsentHasNone ==
    ASSUME NEW h, NEW invoices, NEW outcomes, BooksOK(h, invoices, outcomes),
           h.status \notin {"Active", "Settled"}
    PROVE  LiveIn(invoices) = {} /\ h.live_invoices = 0
<1>1. LiveIn(invoices) = {}
  BY DEF BooksOK
<1> QED
  BY <1>1, FS_EmptySet DEF BooksOK

\* open_period.
LEMMA OpenPeriodKeeps ==
    ASSUME HInv, NEW p \in Periods, NEW signer \in Wallets,
           NEW employer \in Users, NEW employee \in Users, NEW mint \in Assets,
           NEW cap \in Caps, NEW rate \in Rates, NEW review \in ReviewWindows,
           NEW start \in PeriodStarts, NEW duration \in PeriodDurations,
           OpenPeriod(p, signer, employer, employee, mint, cap, rate, review,
                      start, duration),
           UNCHANGED <<config, now>>
    PROVE  HInv'
<1> DEFINE end == start + duration
           h == [ BlankPeriod EXCEPT
                    !.status = "Open",
                    !.employer = employer, !.employee = employee,
                    !.platform_authority = config.platform_authority,
                    !.fee_recipient = config.fee_recipient,
                    !.token_mint = mint,
                    !.weekly_cap_net = cap, !.commission_rate_bps = rate,
                    !.review_window_secs = review,
                    !.period_start_at = start, !.period_end_at = end ]
<1>1. /\ HourlyTypeOK /\ BooksOK(period[p], invoice[p], outcome[p])
      /\ period[p].status = "Absent"
  BY PeriodFacts DEF OpenPeriod
<1>2. config.platform_authority \in Keys /\ config.fee_recipient \in Keys
  BY <1>1 DEF HourlyTypeOK, ConfigTypeOK, ConfigRecord, Keys, Wallets
<1>3. /\ cap \in Nat /\ rate \in Nat /\ review \in Nat /\ start \in Nat /\ end \in Nat
  BY HourlyAssumption, ConfigAssumption
<1>4. employer \in Keys /\ employee \in Keys
  BY PeriodKeyTypes
<1>5. h \in PeriodRecord
  <2>1. "Open" \in {"Absent", "Open", "Funded", "Active", "Settled"}
        /\ mint \in Assets \cup {Nobody}
    OBVIOUS
  <2> HIDE DEF end
  <2> QED
    BY <1>2, <1>3, <1>4, <2>1, BlankPeriodOK, Zenon DEF PeriodRecord, BlankPeriod
<1>6. /\ h.status = "Open" /\ h.token_mint = mint
      /\ h.live_invoices = 0 /\ h.vault_rent_reserve = 0
      /\ h.outstanding_net = 0 /\ h.outstanding_commission = 0
  BY Zenon DEF BlankPeriod
<1>7. PeriodStep(p, h, invoice[p], pot[p], outcome[p])
  BY <1>1 DEF PeriodStep, HourlyTypeOK, OpenPeriod
<1> HIDE DEF h
<1>8. BooksOK(h, invoice[p], outcome[p])
  <2>1. LiveIn(invoice[p]) = {} /\ Cardinality(LiveIn(invoice[p])) = 0
    BY <1>1, AbsentHasNone, FS_EmptySet
  <2> QED
    BY <1>1, <1>6, <2>1 DEF BooksOK
<1>9. Covered(p, h, pot[p], potAta')
  <2>1. mint \in VaultAccounts /\ AssetOf(mint) = mint
    BY AccountsByAsset
  <2>2. pot[p][mint] \in Nat
    BY <1>1, <2>1, PeriodFieldTypes
  <2>3. Backs(p, h, pot[p], potAta', mint)
    BY <1>6, <2>1, <2>2 DEF Backs, OutstandingTotal
  <2> QED
    BY <2>1, <2>3 DEF Covered
<1> QED
  BY <1>1, <1>5, <1>7, <1>8, <1>9, PeriodFieldTypes, PeriodStepKeeps

\* A handler that leaves the invoices and what is outstanding alone, and the
\* vault covered, keeps the invariant: fund_period_*, raise_weekly_cap and
\* settle_period_*.
LEMMA AmendPeriodKeeps ==
    ASSUME HInv, NEW p \in Periods, NEW h \in PeriodRecord, NEW v \in [VaultAccounts -> Nat],
           period[p].status \in Unsettled,
           \/ h.status = period[p].status
           \/ h.status = "Funded" /\ period[p].status = "Open"
           \/ h.status = "Settled",
           h.token_mint = period[p].token_mint,
           h.live_invoices = period[p].live_invoices,
           h.invoice_count = period[p].invoice_count,
           h.outstanding_net = period[p].outstanding_net,
           h.outstanding_commission = period[p].outstanding_commission,
           Covered(p, h, v, potAta'),
           period' = [period EXCEPT ![p] = h], pot' = [pot EXCEPT ![p] = v],
           potAta' \in SUBSET (Periods \X TokenAccounts), potAta \subseteq potAta',
           UNCHANGED <<config, now, invoice, outcome>>
    PROVE  HInv'
<1>1. /\ HourlyTypeOK /\ BooksOK(period[p], invoice[p], outcome[p])
      /\ Covered(p, period[p], pot[p], potAta)
  BY PeriodFacts
<1>2. PeriodStep(p, h, invoice[p], v, outcome[p])
  BY <1>1 DEF PeriodStep, HourlyTypeOK
<1>3. BooksOK(h, invoice[p], outcome[p])
  BY <1>1 DEF BooksOK, Unsettled
<1> QED
  BY <1>1, <1>2, <1>3, PeriodFieldTypes, PeriodStepKeeps

\* fund_period_sol and fund_period_token: the reserve set aside is part of what
\* is put in.
LEMMA FundPeriodKeeps ==
    ASSUME HInv, NEW p \in Periods, NEW signer \in Wallets,
           NEW max_fund_amount \in Nat, NEW seed \in Nat,
           IsNativePeriod(p) \/ seed = 0,
           FundPeriod(p, signer, max_fund_amount, seed),
           potAta' \in SUBSET (Periods \X TokenAccounts), potAta \subseteq potAta',
           UNCHANGED <<config, now>>
    PROVE  HInv'
<1> DEFINE m == period[p].token_mint
           to_fund == CapGross(period[p]) - period[p].funded_gross
           status == IF period[p].status = "Open" THEN "Funded" ELSE period[p].status
           gross == period[p].funded_gross + to_fund
           reserve == period[p].vault_rent_reserve + seed
           h == [period[p] EXCEPT !.funded_gross = gross,
                                  !.vault_rent_reserve = reserve,
                                  !.status = status]
           v == [pot[p] EXCEPT ![m] = @ + to_fund + seed]
<1>1. /\ HourlyTypeOK /\ period[p].status \in Unsettled /\ m \in Assets
      /\ Covered(p, period[p], pot[p], potAta)
  BY PeriodFacts DEF FundPeriod, Unsettled
<1>2. /\ period[p] \in PeriodRecord /\ m \in VaultAccounts
      /\ pot[p] \in [VaultAccounts -> Nat] /\ pot[p][m] \in Nat
      /\ period[p].vault_rent_reserve \in Nat /\ period[p].funded_gross \in Nat
      /\ period[p].outstanding_net \in Nat /\ period[p].outstanding_commission \in Nat
  BY <1>1, PeriodFieldTypes, AccountsByAsset
<1>3. CapGross(period[p]) \in Nat
  <2>1. period[p].weekly_cap_net \in Nat /\ period[p].commission_rate_bps \in Nat
    BY <1>1, PeriodFieldTypes
  <2>2. CalculateCommission(period[p].weekly_cap_net, period[p].commission_rate_bps) \in Nat
    BY <2>1, CommissionNat
  <2> QED
    BY <2>1, <2>2, SMT DEF CapGross
<1>4. to_fund \in Nat /\ to_fund > 0
  <2>1. to_fund > 0
    BY DEF FundPeriod
  <2> QED
    BY <1>2, <1>3, <2>1
<1>5. gross \in Nat /\ reserve \in Nat
  BY <1>2, <1>4
<1>6. h \in PeriodRecord
  <2>1. status \in {"Absent", "Open", "Funded", "Active", "Settled"}
    BY <1>1 DEF Unsettled
  <2> HIDE DEF status, gross, reserve
  <2> QED
    BY <1>2, <1>5, <2>1, Zenon DEF PeriodRecord
<1>7. /\ h.status = status /\ h.token_mint = m
      /\ h.vault_rent_reserve = reserve
      /\ h.live_invoices = period[p].live_invoices
      /\ h.invoice_count = period[p].invoice_count
      /\ h.outstanding_net = period[p].outstanding_net
      /\ h.outstanding_commission = period[p].outstanding_commission
  <2> HIDE DEF status, gross, reserve
  <2> QED
    BY <1>2, Zenon DEF PeriodRecord
<1>8. v \in [VaultAccounts -> Nat] /\ v[m] = pot[p][m] + to_fund + seed
  <2> HIDE DEF to_fund
  <2> QED
    BY <1>1, <1>2, <1>4
<1>9. period' = [period EXCEPT ![p] = h] /\ pot' = [pot EXCEPT ![p] = v]
  BY <1>1 DEF FundPeriod, HourlyTypeOK
<1>10. Covered(p, h, v, potAta')
  <2>1. PICK acct \in VaultAccounts : Backs(p, period[p], pot[p], potAta, acct)
    BY <1>1 DEF Covered, Unsettled
  <2>2. /\ AssetOf(acct) = h.token_mint
        /\ h.live_invoices > 0 => acct = SOL \/ <<p, acct>> \in potAta'
    <3> HIDE DEF h
    <3> QED
      BY <1>7, <2>1 DEF Backs
  <2>3. acct = m \/ seed = 0
    BY <2>1, AccountsByAsset DEF Backs, IsNativePeriod
  <2>4. v[acct] >= pot[p][acct] + seed
    <3> HIDE DEF to_fund
    <3> QED
      BY <1>2, <1>4, <2>3
  <2>5. /\ pot[p][acct] \in Nat /\ v[acct] \in Nat
        /\ pot[p][acct] >= period[p].outstanding_net + period[p].outstanding_commission
                           + period[p].vault_rent_reserve
    BY <1>2, <1>8, <2>1 DEF Backs, OutstandingTotal
  <2>6. v[acct] >= OutstandingTotal(h) + h.vault_rent_reserve
    <3> HIDE DEF to_fund, h, v
    <3> QED
      BY <1>2, <1>4, <1>7, <2>4, <2>5 DEF OutstandingTotal
  <2> HIDE DEF h, v
  <2> QED
    BY <2>2, <2>6 DEF Covered, Backs
<1>11. UNCHANGED <<invoice, outcome>>
  BY DEF FundPeriod
<1>12. \/ h.status = period[p].status
       \/ h.status = "Funded" /\ period[p].status = "Open"
  <2> HIDE DEF h
  <2> QED
    BY <1>7
<1> HIDE DEF h, v
<1> QED
  BY <1>1, <1>6, <1>7, <1>8, <1>9, <1>10, <1>11, <1>12, AmendPeriodKeeps

\* raise_weekly_cap moves no money and takes none out of reach.
LEMMA RaiseWeeklyCapKeeps ==
    ASSUME HInv, NEW p \in Periods, NEW signer \in Wallets, NEW cap \in Nat,
           RaiseWeeklyCap(p, signer, cap), UNCHANGED <<config, now>>
    PROVE  HInv'
<1> DEFINE h == [period[p] EXCEPT !.weekly_cap_net = cap]
<1>1. /\ HourlyTypeOK /\ period[p].status \in Unsettled
      /\ Covered(p, period[p], pot[p], potAta)
  BY PeriodFacts DEF RaiseWeeklyCap
<1>2. period[p] \in PeriodRecord /\ pot[p] \in [VaultAccounts -> Nat]
      /\ potAta \in SUBSET (Periods \X TokenAccounts)
  BY <1>1, PeriodFieldTypes
<1>3. h \in PeriodRecord
  BY <1>2, Zenon DEF PeriodRecord
<1>4. /\ h.status = period[p].status /\ h.token_mint = period[p].token_mint
      /\ h.vault_rent_reserve = period[p].vault_rent_reserve
      /\ h.live_invoices = period[p].live_invoices
      /\ h.invoice_count = period[p].invoice_count
      /\ h.outstanding_net = period[p].outstanding_net
      /\ h.outstanding_commission = period[p].outstanding_commission
  BY <1>2, Zenon DEF PeriodRecord
<1>5. /\ period' = [period EXCEPT ![p] = h] /\ pot' = [pot EXCEPT ![p] = pot[p]]
      /\ UNCHANGED <<invoice, potAta, outcome>>
  BY <1>1 DEF RaiseWeeklyCap, HourlyTypeOK
<1>6. Covered(p, h, pot[p], potAta')
  <2> HIDE DEF h
  <2> QED
    BY <1>1, <1>4, <1>5 DEF Covered, Backs, OutstandingTotal
<1> HIDE DEF h
<1> QED
  BY <1>1, <1>2, <1>3, <1>4, <1>5, <1>6, AmendPeriodKeeps

\* settle_period_sol and settle_period_token leave exactly what is reserved.
LEMMA SettlePeriodKeeps ==
    ASSUME HInv, NEW p \in Periods, SettlePeriod(p),
           IsNativePeriod(p) \/ <<p, period[p].token_mint>> \in potAta',
           potAta' \in SUBSET (Periods \X TokenAccounts), potAta \subseteq potAta',
           UNCHANGED <<config, now>>
    PROVE  HInv'
<1> DEFINE m == period[p].token_mint
           kept == Reserved(period[p])
           refunded == period[p].refunded_amount + (Pot(p) - kept)
           h == [period[p] EXCEPT !.status = "Settled", !.refunded_amount = refunded]
           v == [pot[p] EXCEPT ![m] = kept]
<1>1. /\ HourlyTypeOK /\ period[p].status \in Unsettled /\ m \in Assets
  BY PeriodFacts DEF SettlePeriod, Refundable, Unsettled
<1>2. /\ period[p] \in PeriodRecord /\ m \in VaultAccounts /\ AssetOf(m) = m
      /\ pot[p] \in [VaultAccounts -> Nat] /\ pot[p][m] \in Nat
      /\ period[p].vault_rent_reserve \in Nat /\ period[p].refunded_amount \in Nat
      /\ period[p].outstanding_net \in Nat /\ period[p].outstanding_commission \in Nat
  BY <1>1, PeriodFieldTypes, AccountsByAsset
<1>3. kept \in Nat /\ refunded \in Nat
  BY <1>2 DEF SettlePeriod, Refundable, Reserved, OutstandingTotal, Pot
<1>4. h \in PeriodRecord
  <2>1. "Settled" \in {"Absent", "Open", "Funded", "Active", "Settled"}
    OBVIOUS
  <2> HIDE DEF refunded
  <2> QED
    BY <1>2, <1>3, <2>1, Zenon DEF PeriodRecord
<1>5. /\ h.status = "Settled" /\ h.token_mint = m
      /\ h.vault_rent_reserve = period[p].vault_rent_reserve
      /\ h.live_invoices = period[p].live_invoices
      /\ h.invoice_count = period[p].invoice_count
      /\ h.outstanding_net = period[p].outstanding_net
      /\ h.outstanding_commission = period[p].outstanding_commission
  <2> HIDE DEF refunded
  <2> QED
    BY <1>2, Zenon DEF PeriodRecord
<1>6. v \in [VaultAccounts -> Nat] /\ v[m] = kept
  BY <1>1, <1>2, <1>3
<1>7. /\ period' = [period EXCEPT ![p] = h] /\ pot' = [pot EXCEPT ![p] = v]
      /\ UNCHANGED <<invoice, outcome>>
  BY <1>1 DEF SettlePeriod, Refundable, HourlyTypeOK
<1>8. Covered(p, h, v, potAta')
  <2>1. kept = period[p].outstanding_net + period[p].outstanding_commission
               + period[p].vault_rent_reserve
    BY DEF Reserved, OutstandingTotal
  <2>2. m = SOL \/ <<p, m>> \in potAta'
    BY DEF IsNativePeriod
  <2>3. Backs(p, h, v, potAta', m)
    <3> HIDE DEF kept, h, v, m
    <3> QED
      BY <1>2, <1>5, <1>6, <2>1, <2>2 DEF Backs, OutstandingTotal
  <2> HIDE DEF h, v
  <2> QED
    BY <1>2, <2>3 DEF Covered
<1> HIDE DEF h, v
<1> QED
  BY <1>1, <1>4, <1>5, <1>6, <1>7, <1>8, AmendPeriodKeeps

-----------------------------------------------------------------------------
(* Instructions on an invoice. *)

\* The commission register_staged books is a natural number.
LEMMA MarginalCommissionNat ==
    ASSUME HourlyTypeOK, NEW p \in Periods, NEW amount \in Nat
    PROVE  MarginalCommission(period[p], amount) \in Nat
<1>1. /\ period[p].total_staged_net \in Nat /\ period[p].commission_rate_bps \in Nat
      /\ period[p].total_staged_net + amount \in Nat
  BY PeriodFieldTypes
<1> QED
  BY <1>1, CommissionNat, SaturatingSubNat DEF MarginalCommission

\* stage_invoice_*: the account that is named covers the new invoice before it is booked.
LEMMA StageInvoiceKeeps ==
    ASSUME HInv, NEW p \in Periods, NEW acct \in VaultAccounts,
           NEW signer \in Wallets, NEW amount \in Nat,
           StageInvoice(p, acct, signer, amount),
           NativePot(p, acct) \/ TokenPot(p, acct),
           UNCHANGED <<config, now>>
    PROVE  HInv'
<1> DEFINE fee == MarginalCommission(period[p], amount)
           i == period[p].invoice_count
           due == now + period[p].review_window_secs
           inv == [ status |-> "Staged", amount_net |-> amount, commission |-> fee,
                    release_at |-> due, dispute_deadline |-> 0 ]
           invoices == [invoice[p] EXCEPT ![i] = inv]
           h == [RegisterStaged(period[p], amount, fee) EXCEPT !.status = "Active"]
<1>1. /\ HourlyTypeOK /\ BooksOK(period[p], invoice[p], outcome[p])
      /\ Covered(p, period[p], pot[p], potAta)
      /\ period[p].status \in {"Funded", "Active"}
      /\ period[p].token_mint \in Assets
  BY PeriodFacts DEF StageInvoice
<1>2. /\ period[p] \in PeriodRecord /\ pot[p] \in [VaultAccounts -> Nat]
      /\ pot[p][acct] \in Nat
      /\ period[p].vault_rent_reserve \in Nat /\ period[p].total_staged_net \in Nat
      /\ period[p].outstanding_net \in Nat /\ period[p].outstanding_commission \in Nat
      /\ i \in Nat /\ period[p].live_invoices \in Nat
      /\ invoice[p] \in [InvoiceIndices -> InvoiceRecord]
      /\ outcome[p] \in [InvoiceIndices -> Outcome]
      /\ potAta \in SUBSET (Periods \X TokenAccounts)
  BY <1>1, PeriodFieldTypes
<1>3. fee \in Nat /\ due \in Nat
  BY <1>1, MarginalCommissionNat, PeriodFieldTypes
<1>4. i \in InvoiceIndices /\ invoice[p][i].status = "Absent"
  BY <1>2, HourlyAssumption DEF StageInvoice, InvoiceIndices
<1>5. OutstandingTotal(period[p]) + amount + fee + period[p].vault_rent_reserve
      <= pot[p][acct]
  <2>1. OutstandingTotal(period[p]) + amount + fee
        <= SaturatingSub(pot[p][acct], period[p].vault_rent_reserve)
    BY DEF StageInvoice, Covers
  <2>2. OutstandingTotal(period[p]) \in Nat
    BY <1>2 DEF OutstandingTotal
  <2>3. amount > 0
    BY DEF StageInvoice
  <2> HIDE DEF fee
  <2> QED
    BY <1>2, <1>3, <2>1, <2>2, <2>3 DEF SaturatingSub
<1> HIDE DEF fee, due
<1>6. inv \in InvoiceRecord /\ inv.status = "Staged"
  BY <1>3 DEF InvoiceRecord
<1>7. invoices \in [InvoiceIndices -> InvoiceRecord]
  BY <1>2, <1>4, <1>6
<1>8. h \in PeriodRecord
  <2> DEFINE staged == period[p].total_staged_net + amount
             net == period[p].outstanding_net + amount
             commission == period[p].outstanding_commission + fee
             count == period[p].invoice_count + 1
             live == period[p].live_invoices + 1
  <2>1. h = [ period[p] EXCEPT !.total_staged_net = staged, !.outstanding_net = net,
                               !.outstanding_commission = commission,
                               !.invoice_count = count, !.live_invoices = live,
                               !.status = "Active" ]
    BY <1>2 DEF RegisterStaged, PeriodRecord
  <2>2. /\ staged \in Nat /\ net \in Nat /\ commission \in Nat
        /\ count \in Nat /\ live \in Nat
        /\ "Active" \in {"Absent", "Open", "Funded", "Active", "Settled"}
    BY <1>2, <1>3
  <2> HIDE DEF h, staged, net, commission, count, live
  <2> QED
    BY <1>2, <2>1, <2>2, Zenon DEF PeriodRecord
<1>9. /\ h.status = "Active" /\ h.token_mint = period[p].token_mint
      /\ h.vault_rent_reserve = period[p].vault_rent_reserve
      /\ h.live_invoices = period[p].live_invoices + 1
      /\ h.invoice_count = i + 1
      /\ h.outstanding_net = period[p].outstanding_net + amount
      /\ h.outstanding_commission = period[p].outstanding_commission + fee
  BY <1>2 DEF RegisterStaged, PeriodRecord
<1>10. PeriodStep(p, h, invoices, pot[p], outcome[p])
  BY <1>1, <1>2 DEF PeriodStep, HourlyTypeOK, StageInvoice, fee, due
<1>11. BooksOK(h, invoices, outcome[p])
  <2>1. /\ LiveIn(invoices) = LiveIn(invoice[p]) \cup {i}
        /\ Cardinality(LiveIn(invoices)) = Cardinality(LiveIn(invoice[p])) + 1
    BY <1>2, <1>4, <1>6, LiveAdded
  <2>2. \A x \in LiveIn(invoices) : x < h.invoice_count
    <3>1. \A x \in LiveIn(invoice[p]) : x \in Int /\ x < i
      BY <1>1, HourlyAssumption DEF BooksOK, LiveIn, InvoiceIndices
    <3> HIDE DEF h, invoices, i
    <3> QED
      BY <1>2, <1>9, <2>1, <3>1
  <2> HIDE DEF h, invoices, i
  <2> QED
    BY <1>1, <1>9, <2>1, <2>2 DEF BooksOK
<1>12. Covered(p, h, pot[p], potAta')
  <2>1. potAta' = potAta
    BY DEF StageInvoice
  <2>2. AssetOf(acct) = period[p].token_mint /\ (acct = SOL \/ <<p, acct>> \in potAta)
    BY <1>1, AccountsByAsset DEF NativePot, TokenPot, IsNativePeriod
  <2> HIDE DEF h
  <2>3. Backs(p, h, pot[p], potAta', acct)
    BY <1>2, <1>3, <1>5, <1>9, <2>1, <2>2 DEF Backs, OutstandingTotal
  <2> QED
    BY <2>3 DEF Covered
<1> HIDE DEF h, invoices
<1> QED
  BY <1>2, <1>7, <1>8, <1>10, <1>11, <1>12, PeriodStepKeeps

\* raise_invoice_dispute touches neither books nor vault.
LEMMA RaiseInvoiceDisputeKeeps ==
    ASSUME HInv, NEW p \in Periods, NEW i \in InvoiceIndices, NEW signer \in Wallets,
           NEW deadline \in Nat, RaiseInvoiceDispute(p, i, signer, deadline),
           UNCHANGED <<config, now>>
    PROVE  HInv'
<1> DEFINE inv == [invoice[p][i] EXCEPT !.status = "Disputed",
                                        !.dispute_deadline = deadline]
           invoices == [invoice[p] EXCEPT ![i] = inv]
<1>1. /\ HourlyTypeOK /\ BooksOK(period[p], invoice[p], outcome[p])
      /\ Covered(p, period[p], pot[p], potAta)
      /\ invoice[p][i].status = "Staged"
  BY PeriodFacts DEF RaiseInvoiceDispute, Disputable
<1>2. /\ period[p] \in PeriodRecord /\ pot[p] \in [VaultAccounts -> Nat]
      /\ invoice[p] \in [InvoiceIndices -> InvoiceRecord]
      /\ outcome[p] \in [InvoiceIndices -> Outcome]
      /\ potAta \in SUBSET (Periods \X TokenAccounts)
  BY <1>1, PeriodFieldTypes
<1>3. inv \in InvoiceRecord /\ inv.status = "Disputed"
  BY <1>2 DEF InvoiceRecord
<1>4. invoices \in [InvoiceIndices -> InvoiceRecord]
  BY <1>2, <1>3
<1>5. LiveIn(invoices) = LiveIn(invoice[p])
  BY <1>1, <1>2, <1>3 DEF LiveIn
<1>6. PeriodStep(p, period[p], invoices, pot[p], outcome[p])
  BY <1>1, <1>2 DEF PeriodStep, HourlyTypeOK, RaiseInvoiceDispute, Disputable
<1>7. BooksOK(period[p], invoices, outcome[p])
  BY <1>1, <1>5 DEF BooksOK
<1>8. Covered(p, period[p], pot[p], potAta')
  BY <1>1 DEF RaiseInvoiceDispute, Disputable
<1> HIDE DEF invoices
<1> QED
  BY <1>2, <1>4, <1>6, <1>7, <1>8, PeriodStepKeeps

\* Every way an invoice ends takes the same net and commission out of the named
\* account and out of the books, and is justified; the account that backs the
\* period is that one or an untouched one.
LEMMA EndInvoiceKeeps ==
    ASSUME HInv, NEW p \in Periods, NEW acct \in VaultAccounts,
           NEW i \in InvoiceIndices, NEW signer \in Wallets,
           invoice[p][i].status # "Absent",
           NEW to_employee \in Nat, NEW to_treasury \in Nat, NEW to_employer \in Nat,
           to_employee + to_treasury + to_employer
               = invoice[p][i].amount_net + invoice[p][i].commission,
           to_treasury <= invoice[p][i].commission,
           to_employee < invoice[p][i].amount_net =>
               invoice[p][i].status = "Disputed" /\ RoleOf(period[p], signer) = "platform",
           now < DueAt(invoice[p][i]) =>
               \/ RoleOf(period[p], signer) = "platform"
               \/ /\ RoleOf(period[p], signer) = "employer"
                  /\ invoice[p][i].status # "Disputed",
           EndInvoice(p, acct, i, signer, to_employee, to_treasury, to_employer),
           UNCHANGED <<config, now>>
    PROVE  HInv'
<1> DEFINE inv == invoice[p][i]
           m == period[p].token_mint
           total == to_employee + to_treasury + to_employer
           left == pot[p][acct] - total
           h == RegisterSettledInvoice(period[p], inv, to_employee)
           v == [pot[p] EXCEPT ![acct] = left]
           invoices == [invoice[p] EXCEPT ![i] = BlankInvoice]
           o == [ net |-> inv.amount_net, commission |-> inv.commission,
                  disputed |-> inv.status = "Disputed", early |-> now < DueAt(inv),
                  employee |-> to_employee, treasury |-> to_treasury,
                  employer |-> to_employer, by |-> RoleOf(period[p], signer) ]
           outcomes == [outcome[p] EXCEPT ![i] = o]
<1>1. /\ HourlyTypeOK /\ BooksOK(period[p], invoice[p], outcome[p])
      /\ Covered(p, period[p], pot[p], potAta)
  BY PeriodFacts
<1>2. /\ period[p].status \in {"Active", "Settled"} /\ i < period[p].invoice_count
      /\ m \in Assets
  BY <1>1 DEF BooksOK, LiveIn
<1>3. /\ period[p] \in PeriodRecord
      /\ pot[p] \in [VaultAccounts -> Nat] /\ pot[p][acct] \in Nat
      /\ period[p].vault_rent_reserve \in Nat /\ period[p].released_net \in Nat
      /\ period[p].outstanding_net \in Nat /\ period[p].outstanding_commission \in Nat
      /\ period[p].live_invoices \in Nat
      /\ invoice[p] \in [InvoiceIndices -> InvoiceRecord]
      /\ outcome[p] \in [InvoiceIndices -> Outcome]
      /\ potAta \in SUBSET (Periods \X TokenAccounts)
  BY <1>1, <1>2, PeriodFieldTypes
<1>4. inv.amount_net \in Nat /\ inv.commission \in Nat
  BY <1>3 DEF InvoiceRecord
<1>5. /\ total <= pot[p][acct] /\ total = inv.amount_net + inv.commission
      /\ inv.amount_net <= period[p].outstanding_net
      /\ inv.commission <= period[p].outstanding_commission
      /\ period[p].live_invoices > 0
  BY DEF EndInvoice, Endable, BookEnd
<1>6. left \in Nat /\ left = pot[p][acct] - (inv.amount_net + inv.commission)
  BY <1>3, <1>5
<1>7. v \in [VaultAccounts -> Nat] /\ v[acct] = left
  <2> HIDE DEF left
  <2> QED
    BY <1>2, <1>3, <1>6
<1>8. /\ h \in PeriodRecord /\ h.status = period[p].status /\ h.token_mint = m
      /\ h.vault_rent_reserve = period[p].vault_rent_reserve
      /\ h.invoice_count = period[p].invoice_count
      /\ h.live_invoices = period[p].live_invoices - 1
      /\ h.outstanding_net = period[p].outstanding_net - inv.amount_net
      /\ h.outstanding_commission = period[p].outstanding_commission - inv.commission
  <2> DEFINE net == period[p].outstanding_net - inv.amount_net
             commission == period[p].outstanding_commission - inv.commission
             live == period[p].live_invoices - 1
             released == period[p].released_net + to_employee
  <2>1. h = [ period[p] EXCEPT !.outstanding_net = net,
                               !.outstanding_commission = commission,
                               !.live_invoices = live, !.released_net = released ]
    BY DEF RegisterSettledInvoice
  <2>2. net \in Nat /\ commission \in Nat /\ live \in Nat /\ released \in Nat
    BY <1>3, <1>4, <1>5
  <2>3. h \in PeriodRecord
    <3> HIDE DEF h, net, commission, live, released
    <3> QED
      BY <1>3, <2>1, <2>2, Zenon DEF PeriodRecord
  <2>4. /\ h.status = period[p].status /\ h.token_mint = m
        /\ h.vault_rent_reserve = period[p].vault_rent_reserve
        /\ h.invoice_count = period[p].invoice_count
        /\ h.live_invoices = live /\ h.outstanding_net = net
        /\ h.outstanding_commission = commission
    <3> HIDE DEF h, net, commission, live, released
    <3> QED
      BY <1>3, <2>1, Zenon DEF PeriodRecord
  <2> QED
    BY <2>3, <2>4
<1>9. invoices \in [InvoiceIndices -> InvoiceRecord]
  BY <1>3, BlankPeriodOK
<1>10. o \in Outcome /\ Justified(o)
  <2>1. RoleOf(period[p], signer) \in {"nobody", "employer", "platform", "anyone"}
    BY DEF RoleOf
  <2>2. o \in Outcome
    BY <1>4, <2>1 DEF Outcome
  <2>3. Justified(o)
    BY <1>5 DEF Justified
  <2> QED
    BY <2>2, <2>3
<1> HIDE DEF o
<1>11. outcomes \in [InvoiceIndices -> Outcome]
  BY <1>3, <1>10
<1>12. PeriodStep(p, h, invoices, v, outcomes)
  BY <1>1, <1>3 DEF PeriodStep, HourlyTypeOK, EndInvoice, Endable, BookEnd, o
<1>13. BooksOK(h, invoices, outcomes)
  <2>1. /\ LiveIn(invoices) = LiveIn(invoice[p]) \ {i}
        /\ Cardinality(LiveIn(invoices)) = Cardinality(LiveIn(invoice[p])) - 1
    BY <1>3, LiveRemoved
  <2>2. \A x \in EndedIn(outcomes) : Justified(outcomes[x])
    BY <1>1, <1>3, <1>10 DEF BooksOK, EndedIn
  <2> HIDE DEF h, invoices, outcomes
  <2> QED
    BY <1>1, <1>2, <1>8, <2>1, <2>2 DEF BooksOK
<1>14. Covered(p, h, v, potAta')
  <2>1. PICK back \in VaultAccounts : Backs(p, period[p], pot[p], potAta, back)
    BY <1>1, <1>2 DEF Covered
  <2>2. /\ AssetOf(back) = m /\ pot[p][back] \in Nat
        /\ pot[p][back] >= period[p].outstanding_net + period[p].outstanding_commission
                           + period[p].vault_rent_reserve
        /\ back = SOL \/ <<p, back>> \in potAta
    BY <1>3, <1>5, <2>1 DEF Backs, OutstandingTotal
  <2>3. v[back] >= pot[p][back] - (inv.amount_net + inv.commission) /\ v[back] \in Nat
    <3> HIDE DEF left
    <3> QED
      BY <1>3, <1>4, <1>6, <2>2
  <2>4. potAta' = potAta
    BY DEF EndInvoice, Endable, BookEnd
  <2>5. v[back] >= OutstandingTotal(h) + h.vault_rent_reserve
    <3> HIDE DEF h, v, left, total, inv
    <3> QED
      BY <1>3, <1>4, <1>5, <1>8, <2>2, <2>3 DEF OutstandingTotal
  <2> HIDE DEF h, v, left, total
  <2> QED
    BY <1>8, <2>2, <2>4, <2>5 DEF Covered, Backs
<1> HIDE DEF h, v, invoices, outcomes
<1> QED
  BY <1>7, <1>8, <1>9, <1>11, <1>12, <1>13, <1>14, PeriodStepKeeps

\* finalize_invoice_*, approve_invoice_* and auto_release_invoice_*.
LEMMA PayInFullKeeps ==
    ASSUME HInv, NEW p \in Periods, NEW acct \in VaultAccounts,
           NEW i \in InvoiceIndices, NEW signer \in Wallets,
           \/ FinalizeInvoice(p, acct, i, signer)
           \/ ApproveInvoice(p, acct, i, signer)
           \/ AutoReleaseInvoice(p, acct, i, signer),
           UNCHANGED <<config, now>>
    PROVE  HInv'
<1>1. HourlyTypeOK
  BY PeriodFacts
<1>2. /\ invoice[p][i].amount_net \in Nat /\ invoice[p][i].commission \in Nat
      /\ invoice[p][i].release_at \in Nat /\ invoice[p][i].dispute_deadline \in Nat
      /\ now \in Nat
  BY <1>1, PeriodFieldTypes DEF InvoiceRecord
<1>3. PayInFull(p, acct, i, signer) /\ invoice[p][i].status \in {"Staged", "Disputed"}
  BY DEF FinalizeInvoice, ApproveInvoice, AutoReleaseInvoice
<1>4. now < DueAt(invoice[p][i]) =>
          \/ RoleOf(period[p], signer) = "platform"
          \/ /\ RoleOf(period[p], signer) = "employer"
             /\ invoice[p][i].status # "Disputed"
  BY <1>2 DEF FinalizeInvoice, ApproveInvoice, AutoReleaseInvoice, ReviewOver,
              DueAt, RoleOf
<1>5. /\ invoice[p][i].amount_net + invoice[p][i].commission + 0
         = invoice[p][i].amount_net + invoice[p][i].commission
      /\ ~(invoice[p][i].amount_net < invoice[p][i].amount_net)
      /\ invoice[p][i].commission <= invoice[p][i].commission
  BY <1>2
<1> QED
  BY <1>2, <1>3, <1>4, <1>5, EndInvoiceKeeps DEF PayInFull

\* resolve_invoice_*: the legs of a split add up because the treasury's is
\* capped at the booked commission.
LEMMA ResolveInvoiceKeeps ==
    ASSUME HInv, NEW p \in Periods, NEW acct \in VaultAccounts,
           NEW i \in InvoiceIndices, NEW signer \in Wallets,
           NEW share \in Nat, ResolveInvoice(p, acct, i, signer, share),
           UNCHANGED <<config, now>>
    PROVE  HInv'
<1> DEFINE inv == invoice[p][i]
           fee == Least(CalculateCommission(share, period[p].commission_rate_bps),
                        inv.commission)
           back == (inv.amount_net - share) + (inv.commission - fee)
<1>1. HourlyTypeOK
  BY PeriodFacts
<1>2. /\ inv.amount_net \in Nat /\ inv.commission \in Nat
      /\ period[p].commission_rate_bps \in Nat
  BY <1>1, PeriodFieldTypes DEF InvoiceRecord
<1>3. fee \in Nat /\ fee <= inv.commission
  BY <1>2, CommissionNat, LeastNat
<1>4. /\ share <= inv.amount_net /\ inv.status = "Disputed"
      /\ RoleOf(period[p], signer) = "platform"
  BY DEF ResolveInvoice, MayResolve, RoleOf
<1>5. EndInvoice(p, acct, i, signer, share, fee, back)
  BY DEF ResolveInvoice, TreasuryLeg
<1> HIDE DEF fee
<1>6. back \in Nat /\ share + fee + back = inv.amount_net + inv.commission
  BY <1>2, <1>3, <1>4
<1> HIDE DEF back
<1> QED
  BY <1>3, <1>4, <1>5, <1>6, EndInvoiceKeeps

-----------------------------------------------------------------------------
(* Closing, outsiders, the admin and the clock. *)

\* close_period_*: a period without live invoices by its counter has none.
LEMMA ClosePeriodKeeps ==
    ASSUME HInv, NEW p \in Periods, NEW acct \in VaultAccounts,
           ClosePeriod(p, acct), UNCHANGED <<config, now>>,
           potAta' \in SUBSET (Periods \X TokenAccounts),
           \A x \in Periods \ {p} : \A m : <<x, m>> \in potAta => <<x, m>> \in potAta'
    PROVE  HInv'
<1> DEFINE v == [pot[p] EXCEPT ![acct] = 0]
           outcomes == [i \in InvoiceIndices |-> NoOutcome]
<1>1. /\ HourlyTypeOK /\ BooksOK(period[p], invoice[p], outcome[p])
      /\ period[p].live_invoices = 0
  BY PeriodFacts DEF ClosePeriod, Closable
<1>2. /\ invoice[p] \in [InvoiceIndices -> InvoiceRecord]
      /\ pot[p] \in [VaultAccounts -> Nat]
  BY <1>1, PeriodFieldTypes
<1>3. v \in [VaultAccounts -> Nat] /\ outcomes \in [InvoiceIndices -> Outcome]
  BY <1>2, BlankPeriodOK
<1>4. PeriodStep(p, BlankPeriod, invoice[p], v, outcomes)
  BY <1>1 DEF PeriodStep, ClosePeriod, HourlyTypeOK
<1>5. LiveIn(invoice[p]) = {} /\ Cardinality(LiveIn(invoice[p])) = 0
  BY <1>1, LiveFinite, FS_EmptySet DEF BooksOK
<1>6. BlankPeriod.status = "Absent" /\ BlankPeriod.live_invoices = 0
  BY DEF BlankPeriod
<1>7. BooksOK(BlankPeriod, invoice[p], outcomes)
  BY <1>5, <1>6 DEF BooksOK, EndedIn
<1>8. Covered(p, BlankPeriod, v, potAta')
  BY <1>6 DEF Covered
<1> HIDE DEF v, outcomes
<1> QED
  BY <1>2, <1>3, <1>4, <1>7, <1>8, BlankPeriodOK, PeriodStepKeeps

\* Strangers only add money and vault token accounts.
LEMMA StrangersKeep ==
    ASSUME HInv, NEW p \in Periods, UNCHANGED <<config, now>>,
           \/ \E acct \in TokenAccounts : CreatePotAta(p, acct)
           \/ \E acct \in VaultAccounts, dust \in DustAmounts : SendDust(p, acct, dust)
    PROVE  HInv'
<1>1. /\ HourlyTypeOK /\ BooksOK(period[p], invoice[p], outcome[p])
      /\ Covered(p, period[p], pot[p], potAta)
      /\ period[p].status # "Absent" => period[p].token_mint \in Assets
  BY PeriodFacts
<1>2. /\ period[p] \in PeriodRecord /\ pot[p] \in [VaultAccounts -> Nat]
      /\ invoice[p] \in [InvoiceIndices -> InvoiceRecord]
      /\ outcome[p] \in [InvoiceIndices -> Outcome]
      /\ potAta \in SUBSET (Periods \X TokenAccounts)
  BY <1>1, PeriodFieldTypes
<1>3. CASE \E acct \in TokenAccounts : CreatePotAta(p, acct)
  <2>1. PICK acct \in TokenAccounts : CreatePotAta(p, acct)
    BY <1>3
  <2>2. potAta' \in SUBSET (Periods \X TokenAccounts) /\ potAta \subseteq potAta'
    BY <1>2, <2>1 DEF CreatePotAta
  <2>3. PeriodStep(p, period[p], invoice[p], pot[p], outcome[p])
    BY <1>1, <2>1, <2>2 DEF PeriodStep, CreatePotAta, HourlyTypeOK
  <2>4. Covered(p, period[p], pot[p], potAta')
    BY <1>1, <2>2 DEF Covered, Backs
  <2> QED
    BY <1>1, <1>2, <2>3, <2>4, PeriodStepKeeps
<1>4. CASE \E acct \in VaultAccounts, dust \in DustAmounts : SendDust(p, acct, dust)
  <2>1. PICK acct \in VaultAccounts, dust \in DustAmounts : SendDust(p, acct, dust)
    BY <1>4
  <2> DEFINE v == [pot[p] EXCEPT ![acct] = @ + dust]
  <2>2. dust \in Nat /\ pot[p][acct] \in Nat
    BY <1>2, HourlyAssumption
  <2>3. v \in [VaultAccounts -> Nat]
    BY <1>2, <2>2
  <2>4. PeriodStep(p, period[p], invoice[p], v, outcome[p])
    BY <1>1, <1>2, <2>1 DEF PeriodStep, SendDust, HourlyTypeOK
  <2>5. Covered(p, period[p], v, potAta')
    <3>1. potAta' = potAta
      BY <2>1 DEF SendDust
    <3>2. CASE period[p].status = "Absent"
      BY <3>2 DEF Covered
    <3>3. CASE period[p].status # "Absent"
      <4>1. PICK back \in VaultAccounts : Backs(p, period[p], pot[p], potAta, back)
        BY <1>1, <3>3 DEF Covered
      <4>2. pot[p][back] \in Nat /\ v[back] \in Nat /\ v[back] >= pot[p][back]
        BY <1>2, <2>2, <4>1
      <4>3. OutstandingTotal(period[p]) + period[p].vault_rent_reserve \in Nat
        BY <1>1, PeriodFieldTypes DEF OutstandingTotal
      <4> HIDE DEF v
      <4>4. Backs(p, period[p], v, potAta', back)
        BY <3>1, <4>1, <4>2, <4>3 DEF Backs
      <4> QED
        BY <4>4 DEF Covered
    <3> QED
      BY <3>2, <3>3
  <2> HIDE DEF v
  <2> QED
    BY <1>1, <1>2, <2>3, <2>4, <2>5, PeriodStepKeeps
<1> QED
  BY <1>3, <1>4

\* The admin writes the Config account only; open_period took its snapshot.
LEMMA AdminKeeps ==
    ASSUME HInv, ConfigNext, UNCHANGED <<now, hourly>>
    PROVE  HInv'
<1>1. ConfigTypeOK'
  BY ConfigNextTypeOK DEF HInv, HourlyTypeOK
<1>2. HourlyTypeOK'
  BY <1>1 DEF HInv, HourlyTypeOK, hourly
<1>3. \A p \in Periods : PeriodOK(p)'
  BY DEF HInv, PeriodOK, PotSolvent, OutstandingTotal, hourly
<1> QED
  BY <1>2, <1>3 DEF HInv

LEMMA TickKeepsPeriods ==
    ASSUME HInv, Tick
    PROVE  HInv'
<1>1. HourlyTypeOK'
  BY DEF HInv, HourlyTypeOK, ConfigTypeOK, ConfigExists, Tick, hourly
<1>2. \A p \in Periods : PeriodOK(p)'
  BY DEF HInv, PeriodOK, PotSolvent, OutstandingTotal, Tick, hourly
<1> QED
  BY <1>1, <1>2 DEF HInv

-----------------------------------------------------------------------------
(* The steps put together. *)

LEMMA PeriodInstructionKeeps ==
    ASSUME HInv, NEW p \in Periods, NEW signer \in Wallets,
           PeriodInstruction(p, signer), UNCHANGED <<config, now>>
    PROVE  HInv'
<1>1. /\ MaxFundAmounts \subseteq Nat /\ Caps \subseteq Nat
      /\ InvoiceAmounts \subseteq Nat /\ RentMin \in Nat
  BY HourlyAssumption
<1>2. HourlyTypeOK /\ potAta \in SUBSET (Periods \X TokenAccounts)
      /\ (period[p].status # "Absent" => period[p].token_mint \in Assets)
  BY PeriodFacts, PeriodFieldTypes
<1>3. CASE \E employer, employee \in Users, mint \in Assets, cap \in Caps,
              rate \in Rates, review \in ReviewWindows, start \in PeriodStarts,
              duration \in PeriodDurations :
              OpenPeriod(p, signer, employer, employee, mint, cap, rate, review,
                         start, duration)
  BY <1>3, OpenPeriodKeeps
<1>4. ASSUME NEW max_fund_amount \in MaxFundAmounts, FundPeriodSol(p, signer, max_fund_amount)
      PROVE  HInv'
  <2>1. ReserveSeed(period[p]) \in Nat
    BY <1>1 DEF ReserveSeed
  <2> QED
    BY <1>1, <1>2, <1>4, <2>1, FundPeriodKeeps DEF FundPeriodSol
<1>5. ASSUME NEW max_fund_amount \in MaxFundAmounts, FundPeriodToken(p, signer, max_fund_amount)
      PROVE  HInv'
  <2>1. period[p].token_mint \in Mints
    BY <1>2, <1>5 DEF FundPeriodToken, FundPeriod, IsNativePeriod, Assets, Unsettled
  <2>2. potAta' \in SUBSET (Periods \X TokenAccounts) /\ potAta \subseteq potAta'
    BY <1>2, <1>5, <2>1, AccountsByAsset DEF FundPeriodToken
  <2> QED
    BY <1>1, <1>5, <2>2, FundPeriodKeeps DEF FundPeriodToken
<1>6. CASE \E cap \in Caps : RaiseWeeklyCap(p, signer, cap)
  BY <1>1, <1>6, RaiseWeeklyCapKeeps
<1>7. CASE \E acct \in VaultAccounts, amount \in InvoiceAmounts :
              \/ StageInvoiceSol(p, acct, signer, amount)
              \/ StageInvoiceToken(p, acct, signer, amount)
  BY <1>1, <1>7, StageInvoiceKeeps DEF StageInvoiceSol, StageInvoiceToken
<1> QED
  BY <1>3, <1>4, <1>5, <1>6, <1>7 DEF PeriodInstruction

LEMMA InvoiceInstructionKeeps ==
    ASSUME HInv, NEW p \in Periods, NEW i \in InvoiceIndices, NEW signer \in Wallets,
           InvoiceInstruction(p, i, signer), UNCHANGED <<config, now>>
    PROVE  HInv'
<1>1. InvoiceShares \subseteq Nat /\ 0..MaxTime \subseteq Nat
  BY HourlyAssumption
<1>2. CASE \E deadline \in 0..MaxTime : RaiseInvoiceDispute(p, i, signer, deadline)
  BY <1>1, <1>2, RaiseInvoiceDisputeKeeps
<1>3. ASSUME NEW acct \in VaultAccounts, Endings(p, acct, i, signer)
      PROVE  HInv'
  <2>1. CASE \/ FinalizeInvoice(p, acct, i, signer) \/ ApproveInvoice(p, acct, i, signer)
             \/ AutoReleaseInvoice(p, acct, i, signer)
    BY <2>1, PayInFullKeeps
  <2>2. CASE \E share \in InvoiceShares : ResolveInvoice(p, acct, i, signer, share)
    BY <1>1, <2>2, ResolveInvoiceKeeps
  <2> QED
    BY <1>3, <2>1, <2>2
    DEF Endings, FinalizeInvoiceSol, FinalizeInvoiceToken,
        ApproveInvoiceSol, ApproveInvoiceToken, ResolveInvoiceSol,
        ResolveInvoiceToken, AutoReleaseInvoiceSol, AutoReleaseInvoiceToken
<1> QED
  BY <1>2, <1>3 DEF InvoiceInstruction

LEMMA AnyoneKeeps ==
    ASSUME HInv, NEW p \in Periods, Anyone(p), UNCHANGED <<config, now>>
    PROVE  HInv'
<1>1. HourlyTypeOK /\ potAta \in SUBSET (Periods \X TokenAccounts)
      /\ (period[p].status # "Absent" => period[p].token_mint \in Assets)
  BY PeriodFacts, PeriodFieldTypes
<1>2. CASE SettlePeriodSol(p)
  BY <1>1, <1>2, SettlePeriodKeeps DEF SettlePeriodSol
<1>3. CASE SettlePeriodToken(p)
  <2>1. period[p].token_mint \in Mints
    BY <1>1, <1>3
    DEF SettlePeriodToken, SettlePeriod, IsNativePeriod, Assets, Unsettled
  <2>2. potAta' \in SUBSET (Periods \X TokenAccounts) /\ potAta \subseteq potAta'
    BY <1>1, <1>3, <2>1, AccountsByAsset DEF SettlePeriodToken
  <2> QED
    BY <1>3, <2>2, SettlePeriodKeeps DEF SettlePeriodToken
<1>4. CASE ClosePeriodSol(p)
  <2>1. SOL \in VaultAccounts
    BY AccountsByAsset DEF Assets
  <2> QED
    BY <1>1, <1>4, <2>1, ClosePeriodKeeps DEF ClosePeriodSol
<1>5. ASSUME NEW acct \in TokenAccounts, ClosePeriodToken(p, acct)
      PROVE  HInv'
  BY <1>1, <1>5, AccountsByAsset, ClosePeriodKeeps DEF ClosePeriodToken
<1>6. CASE \/ \E acct \in TokenAccounts : CreatePotAta(p, acct)
           \/ \E acct \in VaultAccounts, dust \in DustAmounts : SendDust(p, acct, dust)
  BY <1>6, StrangersKeep
<1> QED
  BY <1>2, <1>3, <1>4, <1>5, <1>6 DEF Anyone

LEMMA InitHInv == Init => HInv
<1> SUFFICES ASSUME Init PROVE HInv
  OBVIOUS
<1>1. ConfigTypeOK
  BY NoConfigTypeOK DEF Init
<1>2. HourlyTypeOK
  BY <1>1, BlankPeriodOK DEF Init, HourlyTypeOK, EmptyVaults
<1>3. ASSUME NEW p \in Periods
      PROVE  PeriodOK(p)
  <2>1. period[p].status = "Absent" /\ period[p].live_invoices = 0
    BY <1>3 DEF Init, BlankPeriod
  <2>2. LiveIn(invoice[p]) = {} /\ Cardinality(LiveIn(invoice[p])) = 0
    BY <1>3, FS_EmptySet DEF Init, LiveIn, BlankInvoice
  <2>3. EndedIn(outcome[p]) = {}
    BY <1>3 DEF Init, EndedIn
  <2> QED
    BY <2>1, <2>2, <2>3 DEF PeriodOK, BooksOK, PotSolvent
<1> QED
  BY <1>2, <1>3 DEF HInv

LEMMA NextHInv == HInv /\ [Next]_hourlyVars => HInv'
<1> SUFFICES ASSUME HInv, [Next]_hourlyVars PROVE HInv'
  OBVIOUS
<1>1. CASE ConfigNext /\ UNCHANGED <<now, hourly>>
  BY <1>1, AdminKeeps
<1>2. ASSUME NEW p \in Periods, HourlyStep(p), UNCHANGED <<config, now>>
      PROVE  HInv'
  BY <1>2, PeriodInstructionKeeps, InvoiceInstructionKeeps, AnyoneKeeps DEF HourlyStep
<1>3. CASE Tick
  BY <1>3, TickKeepsPeriods
<1>4. CASE UNCHANGED hourlyVars
  <2>1. HourlyTypeOK'
    BY <1>4 DEF HInv, HourlyTypeOK, ConfigTypeOK, ConfigExists, hourlyVars
  <2>2. \A p \in Periods : PeriodOK(p)'
    BY <1>4 DEF HInv, PeriodOK, PotSolvent, OutstandingTotal, hourlyVars
  <2> QED
    BY <2>1, <2>2 DEF HInv
<1> QED
  BY <1>1, <1>2, <1>3, <1>4 DEF Next

-----------------------------------------------------------------------------

\* The invariant of the engine: everything below is a part of it.
THEOREM HourlyInvariance == Spec => []HInv
BY InitHInv, NextHInv, PTL DEF Spec

\* Accounts, vaults and histories keep their types: no checked subtraction of
\* register_settled_invoice and no payout ever goes below zero.
THEOREM HourlyTypeCorrect == Spec => []HourlyTypeOK
<1>1. HInv => HourlyTypeOK
  BY DEF HInv
<1> QED
  BY <1>1, HourlyInvariance, PTL

\* One vault account of a period always covers everything its books owe and the
\* rent reserve, whichever accounts are named and whatever order invoices are staged, ended and refunds taken in.
THEOREM PotsAlwaysSolvent == Spec => []PotsSolvent
<1>1. HInv => PotsSolvent
  BY DEF HInv, PeriodOK, PotsSolvent
<1> QED
  BY <1>1, HourlyInvariance, PTL

\* Every invoice that ended was paid what was staged, by somebody entitled to.
THEOREM InvoicesAlwaysEndJustly == Spec => []InvoicesEndJustly
<1>1. HInv => InvoicesEndJustly
  BY DEF HInv, PeriodOK, BooksOK, InvoicesEndJustly, Ended
<1> QED
  BY <1>1, HourlyInvariance, PTL

\* No invoice account outlives its period or blocks the next one's address.
THEOREM NeverOrphanInvoices == Spec => []NoOrphanInvoices
<1>1. HInv => NoOrphanInvoices
  BY DEF HInv, PeriodOK, BooksOK, NoOrphanInvoices, Live
<1> QED
  BY <1>1, HourlyInvariance, PTL
=============================================================================
