-------------------------- MODULE HourlyExitProofs --------------------------
(***************************************************************************)
(* The exits of the hourly engine, proved for every instance: no order of  *)
(* instructions and outside transfers leaves an invoice that cannot be     *)
(* paid once it is due, a period that cannot be settled once it is over or *)
(* a settled one that cannot be closed, and no invoice falls due later     *)
(* than the terms of its period allow.  EInv of HourlyProperties is        *)
(* inductive on top of LInv.                                               *)
(***************************************************************************)
EXTENDS HourlyLedgerProofs

Exit(p) == ExitOK(p, period[p], invoice[p], potAta)

LEMMA EInvParts == EInv <=> LInv /\ \A p \in Periods : Exit(p)
BY DEF EInv, Exit

\* What EInv says of one period, with the types it says it of.
LEMMA ExitFacts ==
    ASSUME LInv, NEW p \in Periods, Exit(p)
    PROVE  /\ HourlyTypeOK /\ BooksOK(period[p], invoice[p], outcome[p])
           /\ ReserveKept(period[p]) /\ VaultKept(p, period[p], potAta)
           /\ \A i \in LiveIn(invoice[p]) : DueTimes(period[p], invoice[p][i])
           /\ period[p] \in PeriodRecord
           /\ period[p].review_window_secs \in Nat
           /\ period[p].period_end_at \in Nat
           /\ period[p].live_invoices \in Nat
           /\ period[p].vault_rent_reserve \in Nat
           /\ invoice[p] \in [InvoiceIndices -> InvoiceRecord]
           /\ now \in Nat /\ now > 0 /\ RentMin \in Nat /\ MaxDisputeWindow \in Nat
BY SumFacts, PeriodFieldTypes, HourlyAssumption
DEF Exit, ExitOK, HourlyTypeOK, PeriodRecord

-----------------------------------------------------------------------------
(* What each instruction does to the exits of its own period. *)

\* A handler that leaves the invoices and their times alone.
LEMMA AmendedExits ==
    ASSUME LInv, NEW p \in Periods, Exit(p),
           invoice'[p] = invoice[p],
           period'[p].period_end_at = period[p].period_end_at,
           period'[p].review_window_secs = period[p].review_window_secs,
           ReserveKept(period'[p]), VaultKept(p, period'[p], potAta')
    PROVE  Exit(p)'
BY DEF Exit, ExitOK, DueTimes

\* open_period starts without a reserve and without invoices.
LEMMA OpenPeriodExits ==
    ASSUME LInv, NEW p \in Periods, NEW signer \in Wallets,
           NEW employer \in Users, NEW employee \in Users, NEW mint \in Assets,
           NEW cap \in Caps, NEW rate \in Rates, NEW review \in ReviewWindows,
           NEW start \in PeriodStarts, NEW duration \in PeriodDurations,
           OpenPeriod(p, signer, employer, employee, mint, cap, rate, review,
                      start, duration)
    PROVE  Exit(p)'
<1>1. /\ HourlyTypeOK /\ BooksOK(period[p], invoice[p], outcome[p])
      /\ period[p].status = "Absent"
  BY SumFacts DEF OpenPeriod
<1>2. /\ period'[p].status = "Open" /\ period'[p].vault_rent_reserve = 0
      /\ period'[p].live_invoices = 0
  BY <1>1, Zenon DEF OpenPeriod, HourlyTypeOK, BlankPeriod
<1>3. invoice'[p] = invoice[p]
  BY DEF OpenPeriod
<1>4. LiveIn(invoice[p]) = {}
  BY <1>1, AbsentHasNone
<1> QED
  BY <1>2, <1>3, <1>4 DEF Exit, ExitOK, ReserveKept, VaultKept

\* fund_period_sol sets the reserve aside the first time money comes in, and
\* never again.
LEMMA FundPeriodExits ==
    ASSUME LInv, NEW p \in Periods, Exit(p), NEW signer \in Wallets,
           NEW max_fund_amount \in Nat,
           \/ FundPeriodSol(p, signer, max_fund_amount)
           \/ FundPeriodToken(p, signer, max_fund_amount)
    PROVE  Exit(p)'
<1> DEFINE h == period[p]
<1>1. PICK seed : /\ FundPeriod(p, signer, max_fund_amount, seed)
                  /\ seed = IF h.token_mint = SOL THEN ReserveSeed(h) ELSE 0
  BY DEF FundPeriodSol, FundPeriodToken, IsNativePeriod
<1>2. /\ period'[p].token_mint = h.token_mint
      /\ period'[p].vault_rent_reserve = h.vault_rent_reserve + seed
      /\ period'[p].live_invoices = h.live_invoices
      /\ period'[p].period_end_at = h.period_end_at
      /\ period'[p].review_window_secs = h.review_window_secs
      /\ period'[p].status = IF h.status = "Open" THEN "Funded" ELSE h.status
      /\ invoice'[p] = invoice[p]
  BY <1>1, ExitFacts DEF FundPeriod, HourlyTypeOK, PeriodRecord
<1>3. h.status \in Unsettled
  BY <1>1 DEF FundPeriod
<1>4. ReserveKept(period'[p])
  <2>1. CASE h.token_mint = SOL
    <3>1. h.vault_rent_reserve \in {0, RentMin} /\ h.vault_rent_reserve \in Nat
          /\ RentMin \in Nat
      BY <2>1, ExitFacts DEF ReserveKept
    <3>2. h.vault_rent_reserve + seed = RentMin
      BY <1>1, <2>1, <3>1 DEF ReserveSeed
    <3> QED
      BY <1>2, <2>1, <3>2 DEF ReserveKept
  <2>2. CASE h.token_mint # SOL
    <3>1. h.vault_rent_reserve = 0 /\ seed = 0
      BY <1>1, <2>2, ExitFacts DEF ReserveKept
    <3> QED
      BY <1>2, <2>2, <3>1 DEF ReserveKept
  <2> QED
    BY <2>1, <2>2
<1>5. VaultKept(p, period'[p], potAta')
  BY <1>2, <1>3 DEF VaultKept, Unsettled
<1> QED
  BY <1>2, <1>4, <1>5, AmendedExits

LEMMA RaiseWeeklyCapExits ==
    ASSUME LInv, NEW p \in Periods, Exit(p), NEW signer \in Wallets, NEW cap \in Nat,
           RaiseWeeklyCap(p, signer, cap)
    PROVE  Exit(p)'
<1>1. /\ period'[p].token_mint = period[p].token_mint
      /\ period'[p].vault_rent_reserve = period[p].vault_rent_reserve
      /\ period'[p].live_invoices = period[p].live_invoices
      /\ period'[p].period_end_at = period[p].period_end_at
      /\ period'[p].review_window_secs = period[p].review_window_secs
      /\ period'[p].status = period[p].status
      /\ invoice'[p] = invoice[p] /\ potAta' = potAta
  BY ExitFacts DEF RaiseWeeklyCap, HourlyTypeOK, PeriodRecord
<1> QED
  BY <1>1, ExitFacts, AmendedExits DEF ReserveKept, VaultKept

\* stage_invoice_* asks for a funded period, so the reserve is there, and for
\* one that is not over, so the review ends in time.
LEMMA StageInvoiceExits ==
    ASSUME LInv, NEW p \in Periods, Exit(p), NEW signer \in Wallets, NEW amount \in Nat,
           NEW acct, StageInvoice(p, acct, signer, amount)
    PROVE  Exit(p)'
<1> DEFINE h == period[p]
           n == h.invoice_count
           inv == [ status |-> "Staged", amount_net |-> amount,
                    commission |-> MarginalCommission(h, amount),
                    release_at |-> now + h.review_window_secs,
                    dispute_deadline |-> 0 ]
<1>1. h.status \in {"Funded", "Active"} /\ now < h.period_end_at
  BY DEF StageInvoice
<1>2. /\ period'[p].token_mint = h.token_mint
      /\ period'[p].vault_rent_reserve = h.vault_rent_reserve
      /\ period'[p].period_end_at = h.period_end_at
      /\ period'[p].review_window_secs = h.review_window_secs
      /\ period'[p].status = "Active"
  BY ExitFacts DEF StageInvoice, RegisterStaged, HourlyTypeOK, PeriodRecord
<1>3. invoice'[p] = [invoice[p] EXCEPT ![n] = inv]
  BY ExitFacts DEF StageInvoice, HourlyTypeOK
<1>4. ReserveKept(period'[p]) /\ VaultKept(p, period'[p], potAta')
  BY <1>1, <1>2, ExitFacts DEF ReserveKept, VaultKept
<1>5. ASSUME NEW i \in LiveIn(invoice'[p])
      PROVE  DueTimes(period'[p], invoice'[p][i])
  <2>1. i \in InvoiceIndices
    BY DEF LiveIn
  <2>2. CASE i = n
    <3>1. /\ invoice'[p][i].release_at = now + h.review_window_secs
          /\ invoice'[p][i].status = "Staged"
      BY <1>3, <2>1, <2>2, ExitFacts
    <3>2. now + h.review_window_secs < h.period_end_at + h.review_window_secs
      BY <1>1, ExitFacts
    <3> QED
      BY <1>2, <3>1, <3>2 DEF DueTimes
  <2>3. CASE i # n
    <3>1. invoice'[p][i] = invoice[p][i]
      BY <1>3, <2>1, <2>3, ExitFacts
    <3>2. i \in LiveIn(invoice[p])
      BY <2>1, <3>1 DEF LiveIn
    <3> QED
      BY <1>2, <3>1, <3>2, ExitFacts DEF DueTimes
  <2> QED
    BY <2>2, <2>3
<1> QED
  BY <1>4, <1>5 DEF Exit, ExitOK

\* raise_invoice_dispute is in time only before release_at, so the longest
\* window counts from there at the latest.
LEMMA RaiseInvoiceDisputeExits ==
    ASSUME LInv, NEW p \in Periods, Exit(p), NEW i \in InvoiceIndices,
           NEW signer \in Wallets, NEW deadline \in Nat,
           RaiseInvoiceDispute(p, i, signer, deadline)
    PROVE  Exit(p)'
<1> DEFINE inv == [invoice[p][i] EXCEPT !.status = "Disputed",
                                        !.dispute_deadline = deadline]
<1>1. /\ period' = period /\ potAta' = potAta
      /\ invoice[p][i].status = "Staged" /\ now < invoice[p][i].release_at
      /\ deadline > now /\ deadline - now <= MaxDisputeWindow
  BY HourlyAssumption DEF RaiseInvoiceDispute, Disputable
<1>2. /\ invoice[p][i] \in InvoiceRecord /\ invoice[p][i].release_at \in Nat
      /\ i \in LiveIn(invoice[p])
  BY <1>1, ExitFacts DEF InvoiceRecord, LiveIn
<1>3. /\ inv.release_at = invoice[p][i].release_at
      /\ inv.status = "Disputed" /\ inv.dispute_deadline = deadline
  BY <1>2 DEF InvoiceRecord
<1>4. invoice'[p] = [invoice[p] EXCEPT ![i] = inv]
  BY ExitFacts DEF RaiseInvoiceDispute, HourlyTypeOK
<1>5. deadline \in 1..invoice[p][i].release_at + MaxDisputeWindow
  BY <1>1, <1>2, ExitFacts
<1> HIDE DEF inv
<1>6. ASSUME NEW x \in LiveIn(invoice'[p])
      PROVE  DueTimes(period[p], invoice'[p][x])
  <2>1. x \in InvoiceIndices
    BY DEF LiveIn
  <2>2. CASE x = i
    <3>1. DueTimes(period[p], invoice[p][i])
      BY <1>2, ExitFacts
    <3>2. invoice'[p][x] = inv
      BY <1>4, <2>2, ExitFacts
    <3> QED
      BY <1>3, <1>5, <3>1, <3>2 DEF DueTimes
  <2>3. CASE x # i
    <3>1. invoice'[p][x] = invoice[p][x]
      BY <1>4, <2>1, <2>3, ExitFacts
    <3>2. x \in LiveIn(invoice[p])
      BY <2>1, <3>1 DEF LiveIn
    <3> QED
      BY <3>1, <3>2, ExitFacts
  <2> QED
    BY <2>2, <2>3
<1> QED
  BY <1>1, <1>6, ExitFacts DEF Exit, ExitOK

\* An invoice that ends takes nothing of the reserve.
LEMMA EndInvoiceExits ==
    ASSUME LInv, NEW p \in Periods, Exit(p), NEW i \in InvoiceIndices,
           NEW signer \in Wallets, NEW acct,
           NEW to_employee, NEW to_treasury, NEW to_employer,
           EndInvoice(p, acct, i, signer, to_employee, to_treasury, to_employer)
    PROVE  Exit(p)'
<1>1. /\ period'[p].token_mint = period[p].token_mint
      /\ period'[p].vault_rent_reserve = period[p].vault_rent_reserve
      /\ period'[p].live_invoices = period[p].live_invoices - 1
      /\ period'[p].period_end_at = period[p].period_end_at
      /\ period'[p].review_window_secs = period[p].review_window_secs
      /\ period'[p].status = period[p].status
      /\ potAta' = potAta
  BY ExitFacts DEF EndInvoice, BookEnd, RegisterSettledInvoice, HourlyTypeOK, PeriodRecord
<1>2. /\ invoice'[p] = [invoice[p] EXCEPT ![i] = BlankInvoice]
      /\ BlankInvoice.status = "Absent"
  BY ExitFacts DEF EndInvoice, BookEnd, HourlyTypeOK, BlankInvoice
<1>3. ReserveKept(period'[p]) /\ VaultKept(p, period'[p], potAta')
  BY <1>1, ExitFacts DEF ReserveKept, VaultKept
<1>4. ASSUME NEW x \in LiveIn(invoice'[p])
      PROVE  DueTimes(period'[p], invoice'[p][x])
  <2>1. x \in InvoiceIndices /\ x # i
    BY <1>2, ExitFacts DEF LiveIn
  <2>2. invoice'[p][x] = invoice[p][x] /\ x \in LiveIn(invoice[p])
    BY <1>2, <2>1, ExitFacts DEF LiveIn
  <2> QED
    BY <1>1, <2>2, ExitFacts DEF DueTimes
<1> QED
  BY <1>3, <1>4 DEF Exit, ExitOK

\* settle_period_* leaves the reserve, and its token variant a vault account.
LEMMA SettlePeriodExits ==
    ASSUME LInv, NEW p \in Periods, Exit(p), SettlePeriodSol(p) \/ SettlePeriodToken(p)
    PROVE  Exit(p)'
<1>1. /\ period'[p].token_mint = period[p].token_mint
      /\ period'[p].vault_rent_reserve = period[p].vault_rent_reserve
      /\ period'[p].live_invoices = period[p].live_invoices
      /\ period'[p].period_end_at = period[p].period_end_at
      /\ period'[p].review_window_secs = period[p].review_window_secs
      /\ period'[p].status = "Settled"
      /\ invoice'[p] = invoice[p]
  BY ExitFacts
  DEF SettlePeriodSol, SettlePeriodToken, SettlePeriod, HourlyTypeOK, PeriodRecord
<1>2. period[p].token_mint = SOL \/ <<p, period[p].token_mint>> \in potAta'
  BY DEF SettlePeriodSol, SettlePeriodToken, IsNativePeriod
<1> QED
  BY <1>1, <1>2, ExitFacts, AmendedExits DEF ReserveKept, VaultKept

LEMMA ClosePeriodExits ==
    ASSUME LInv, NEW p \in Periods, Exit(p), NEW acct, ClosePeriod(p, acct)
    PROVE  Exit(p)'
<1>1. period'[p] = BlankPeriod /\ invoice'[p] = invoice[p]
  BY ExitFacts DEF ClosePeriod, HourlyTypeOK
<1>2. /\ BlankPeriod.status = "Absent" /\ BlankPeriod.live_invoices = 0
      /\ BlankPeriod.vault_rent_reserve = 0
  BY DEF BlankPeriod
<1>3. LiveIn(invoice[p]) = {}
  BY ExitFacts, LiveFinite, FS_EmptySet DEF ClosePeriod, Closable, BooksOK
<1> QED
  BY <1>1, <1>2, <1>3 DEF Exit, ExitOK, ReserveKept, VaultKept
-----------------------------------------------------------------------------
(* The steps put together. *)

LEMMA HourlyStepExits ==
    ASSUME LInv, NEW p \in Periods, Exit(p), HourlyStep(p)
    PROVE  Exit(p)'
<1>1. /\ MaxFundAmounts \subseteq Nat /\ Caps \subseteq Nat
      /\ InvoiceAmounts \subseteq Nat /\ 0..MaxTime \subseteq Nat
  BY HourlyAssumption
<1>2. ASSUME NEW signer \in Wallets, PeriodInstruction(p, signer)
      PROVE  Exit(p)'
  <2>1. CASE \E employer, employee \in Users, mint \in Assets, cap \in Caps,
                rate \in Rates, review \in ReviewWindows, start \in PeriodStarts,
                duration \in PeriodDurations :
                OpenPeriod(p, signer, employer, employee, mint, cap, rate, review,
                           start, duration)
    BY <2>1, OpenPeriodExits
  <2>2. CASE \E max_fund_amount \in MaxFundAmounts :
                \/ FundPeriodSol(p, signer, max_fund_amount)
                \/ FundPeriodToken(p, signer, max_fund_amount)
    BY <1>1, <2>2, FundPeriodExits
  <2>3. CASE \E cap \in Caps : RaiseWeeklyCap(p, signer, cap)
    BY <1>1, <2>3, RaiseWeeklyCapExits
  <2>4. CASE \E acct \in VaultAccounts, amount \in InvoiceAmounts :
                \/ StageInvoiceSol(p, acct, signer, amount)
                \/ StageInvoiceToken(p, acct, signer, amount)
    BY <1>1, <2>4, StageInvoiceExits DEF StageInvoiceSol, StageInvoiceToken
  <2> QED
    BY <1>2, <2>1, <2>2, <2>3, <2>4 DEF PeriodInstruction
<1>3. ASSUME NEW signer \in Wallets, NEW i \in InvoiceIndices,
             InvoiceInstruction(p, i, signer)
      PROVE  Exit(p)'
  <2>1. CASE \E deadline \in 0..MaxTime : RaiseInvoiceDispute(p, i, signer, deadline)
    BY <1>1, <2>1, RaiseInvoiceDisputeExits
  <2>2. ASSUME NEW acct \in VaultAccounts, Endings(p, acct, i, signer)
        PROVE  Exit(p)'
    <3>1. CASE \/ FinalizeInvoice(p, acct, i, signer)
               \/ ApproveInvoice(p, acct, i, signer)
               \/ AutoReleaseInvoice(p, acct, i, signer)
      BY <3>1, EndInvoiceExits
      DEF FinalizeInvoice, ApproveInvoice, AutoReleaseInvoice, PayInFull
    <3>2. CASE \E share \in InvoiceShares : ResolveInvoice(p, acct, i, signer, share)
      BY <3>2, EndInvoiceExits DEF ResolveInvoice
    <3> QED
      BY <2>2, <3>1, <3>2
      DEF Endings, FinalizeInvoiceSol, FinalizeInvoiceToken,
          ApproveInvoiceSol, ApproveInvoiceToken, ResolveInvoiceSol,
          ResolveInvoiceToken, AutoReleaseInvoiceSol, AutoReleaseInvoiceToken
  <2> QED
    BY <1>3, <2>1, <2>2 DEF InvoiceInstruction
<1>4. CASE SettlePeriodSol(p) \/ SettlePeriodToken(p)
  BY <1>4, SettlePeriodExits
<1>5. CASE ClosePeriodSol(p) \/ \E acct \in TokenAccounts : ClosePeriodToken(p, acct)
  BY <1>5, ClosePeriodExits DEF ClosePeriodSol, ClosePeriodToken
<1>6. CASE \/ \E acct \in TokenAccounts : CreatePotAta(p, acct)
           \/ \E acct \in VaultAccounts, dust \in DustAmounts : SendDust(p, acct, dust)
  <2>1. period' = period /\ invoice' = invoice /\ potAta \subseteq potAta'
    BY <1>6 DEF CreatePotAta, SendDust
  <2> QED
    BY <2>1, ExitFacts, AmendedExits DEF VaultKept
<1> QED
  BY <1>2, <1>3, <1>4, <1>5, <1>6 DEF HourlyStep, Anyone

\* The vault accounts of other periods stay: close_period_token closes one, of
\* its own period.
LEMMA OtherPotAtasStay ==
    ASSUME NEW p \in Periods, HourlyStep(p), NEW x \in Periods \ {p}, NEW mint,
           <<x, mint>> \in potAta
    PROVE  <<x, mint>> \in potAta'
<1>1. ASSUME NEW signer \in Wallets, PeriodInstruction(p, signer)
      PROVE  <<x, mint>> \in potAta'
  <2>1. UNCHANGED potAta \/ potAta' = potAta \cup {<<p, period[p].token_mint>>}
    <3>1. CASE \E employer, employee \in Users, m \in Assets, cap \in Caps,
                  rate \in Rates, review \in ReviewWindows, start \in PeriodStarts,
                  duration \in PeriodDurations :
                  OpenPeriod(p, signer, employer, employee, m, cap, rate, review,
                             start, duration)
      BY <3>1 DEF OpenPeriod
    <3>2. CASE \E max_fund_amount \in MaxFundAmounts :
                  \/ FundPeriodSol(p, signer, max_fund_amount)
                  \/ FundPeriodToken(p, signer, max_fund_amount)
      BY <3>2 DEF FundPeriodSol, FundPeriodToken
    <3>3. CASE \E cap \in Caps : RaiseWeeklyCap(p, signer, cap)
      BY <3>3 DEF RaiseWeeklyCap
    <3>4. CASE \E acct \in VaultAccounts, amount \in InvoiceAmounts :
                  \/ StageInvoiceSol(p, acct, signer, amount)
                  \/ StageInvoiceToken(p, acct, signer, amount)
      BY <3>4 DEF StageInvoiceSol, StageInvoiceToken, StageInvoice
    <3> QED
      BY <1>1, <3>1, <3>2, <3>3, <3>4 DEF PeriodInstruction
  <2> QED
    BY <2>1
<1>2. ASSUME NEW signer \in Wallets, NEW i \in InvoiceIndices,
             InvoiceInstruction(p, i, signer)
      PROVE  <<x, mint>> \in potAta'
  <2>1. ASSUME NEW deadline \in 0..MaxTime, RaiseInvoiceDispute(p, i, signer, deadline)
        PROVE  UNCHANGED potAta
    BY <2>1 DEF RaiseInvoiceDispute
  <2>2. ASSUME NEW acct \in VaultAccounts, Endings(p, acct, i, signer)
        PROVE  UNCHANGED potAta
    BY <2>2
    DEF Endings, EndInvoice, BookEnd, PayInFull,
        FinalizeInvoiceSol, FinalizeInvoiceToken, FinalizeInvoice,
        ApproveInvoiceSol, ApproveInvoiceToken, ApproveInvoice,
        ResolveInvoiceSol, ResolveInvoiceToken, ResolveInvoice,
        AutoReleaseInvoiceSol, AutoReleaseInvoiceToken, AutoReleaseInvoice
  <2> QED
    BY <1>2, <2>1, <2>2 DEF InvoiceInstruction
<1>3. CASE Anyone(p)
  BY <1>3
  DEF Anyone, SettlePeriodSol, SettlePeriodToken, ClosePeriodSol, ClosePeriodToken,
      CreatePotAta, SendDust
<1> QED
  BY <1>1, <1>2, <1>3 DEF HourlyStep

LEMMA InitEInv == Init => EInv
<1> SUFFICES ASSUME Init PROVE EInv
  OBVIOUS
<1>1. ASSUME NEW p \in Periods PROVE Exit(p)
  <2>1. /\ period[p].status = "Absent" /\ period[p].live_invoices = 0
        /\ period[p].vault_rent_reserve = 0 /\ LiveIn(invoice[p]) = {}
    BY DEF Init, BlankPeriod, BlankInvoice, LiveIn
  <2> QED
    BY <2>1 DEF Exit, ExitOK, ReserveKept, VaultKept
<1> QED
  BY <1>1, InitLInv, EInvParts

LEMMA NextEInv == EInv /\ LInv' /\ [Next]_hourlyVars => EInv'
<1> SUFFICES ASSUME EInv, LInv', [Next]_hourlyVars, NEW x \in Periods
             PROVE  Exit(x)'
  BY DEF EInv, Exit
<1>1. LInv /\ Exit(x) /\ HourlyTypeOK
  BY EInvParts DEF LInv, HInv
<1>2. CASE UNCHANGED hourly
  BY <1>1, <1>2 DEF hourly, Exit, ExitOK, VaultKept
<1>3. ASSUME NEW p \in Periods, HourlyStep(p) PROVE Exit(x)'
  <2>1. CASE x = p
    BY <1>1, <1>3, <2>1, HourlyStepExits
  <2>2. CASE x # p
    <3>1. period'[x] = period[x] /\ invoice'[x] = invoice[x]
      BY <1>1, <1>3, <2>2, HourlyStepLocal
    <3>2. \A mint : <<x, mint>> \in potAta => <<x, mint>> \in potAta'
      BY <1>3, <2>2, OtherPotAtasStay
    <3> QED
      BY <1>1, <3>1, <3>2, AmendedExits, ExitFacts DEF VaultKept
  <2> QED
    BY <2>1, <2>2
<1> QED
  BY <1>2, <1>3 DEF Next, Tick, hourly, hourlyVars

\* The third invariant of the engine: everything below rests on it.
THEOREM ExitInvariance == Spec => []EInv
BY InitEInv, NextEInv, LedgerInvariance, PTL DEF Spec

-----------------------------------------------------------------------------
(* What the books of a period owe is what its invoices say. *)

\* No invoice is for more than all of them together.
LEMMA PartOfTheSums ==
    ASSUME NEW invoices \in [InvoiceIndices -> InvoiceRecord], NEW i \in InvoiceIndices
    PROVE  /\ invoices[i].amount_net <= NetOf(invoices)
           /\ invoices[i].commission <= FeesOf(invoices)
<1> DEFINE net == [x \in InvoiceIndices |-> invoices[x].amount_net]
           fee == [x \in InvoiceIndices |-> invoices[x].commission]
<1>1. \A x \in InvoiceIndices : net[x] \in Nat /\ fee[x] \in Nat
  BY DEF InvoiceRecord
<1>2. /\ NetOf(invoices) = SumFunctionOnSet(net, InvoiceIndices)
      /\ FeesOf(invoices) = SumFunctionOnSet(fee, InvoiceIndices)
      /\ net[i] = invoices[i].amount_net /\ fee[i] = invoices[i].commission
  BY DEF NetOf, FeesOf, SumFunction
<1> HIDE DEF net, fee
<1>3. /\ SumFunctionOnSet(net, InvoiceIndices)
            = net[i] + SumFunctionOnSet(net, InvoiceIndices \ {i})
      /\ SumFunctionOnSet(net, InvoiceIndices \ {i}) \in Nat
      /\ SumFunctionOnSet(fee, InvoiceIndices)
            = fee[i] + SumFunctionOnSet(fee, InvoiceIndices \ {i})
      /\ SumFunctionOnSet(fee, InvoiceIndices \ {i}) \in Nat
  BY <1>1, IndicesFinite, SumRemove
<1> QED
  BY <1>1, <1>2, <1>3

\* Books without live invoices owe nothing.
LEMMA NothingLiveNothingOwed ==
    ASSUME LInv, NEW p \in Periods, LiveIn(invoice[p]) = {}
    PROVE  OutstandingTotal(period[p]) = 0
<1> DEFINE none == [i \in InvoiceIndices |-> NoOutcome]
<1>1. \A i \in InvoiceIndices : invoice[p][i] = BlankInvoice /\ none[i] = NoOutcome
  BY SumFacts DEF SumsOK, IndicesUsedOnce, LiveIn
<1>2. NetOf(invoice[p]) = 0 /\ FeesOf(invoice[p]) = 0
  BY <1>1, NoInvoicesSums
<1> QED
  BY <1>2, SumFacts DEF SumsOK, LedgerMatches, OutstandingTotal

-----------------------------------------------------------------------------
(* The exits. *)

\* A live invoice can be paid in full: the account that backs the books is there,
\* its balance covers it, what stays behind is rent-exempt, and no subtraction
\* underflows.
LEMMA LiveIsEndable ==
    ASSUME EInv, NEW p \in Periods, NEW i \in Live(p)
    PROVE  \E acct \in VaultAccounts : Payable(p, acct, i)
<1> DEFINE inv == invoice[p][i]
           total == inv.amount_net + inv.commission
<1>1. /\ LInv /\ HInv /\ Exit(p) /\ Covered(p, period[p], pot[p], potAta)
      /\ BooksOK(period[p], invoice[p], outcome[p])
  BY EInvParts, PeriodFacts DEF LInv
<1>2. /\ i \in InvoiceIndices /\ inv \in InvoiceRecord
      /\ inv.amount_net \in Nat /\ inv.commission \in Nat
  BY <1>1, ExitFacts DEF Live, LiveIn, InvoiceRecord
<1>3. /\ period[p].outstanding_net = NetOf(invoice[p])
      /\ period[p].outstanding_commission = FeesOf(invoice[p])
      /\ NetOf(invoice[p]) \in Nat /\ FeesOf(invoice[p]) \in Nat
  BY <1>1, SumFacts DEF SumsOK, LedgerMatches
<1>4. /\ inv.amount_net <= period[p].outstanding_net
      /\ inv.commission <= period[p].outstanding_commission
  BY <1>1, <1>2, <1>3, PartOfTheSums, ExitFacts
<1>5. period[p].status \in {"Active", "Settled"}
  BY <1>1 DEF Live, BooksOK
<1>6. period[p].live_invoices > 0
  <2>1. LiveIn(invoice[p]) # {}
    BY DEF Live
  <2> QED
    BY <1>1, <2>1, LiveFinite, FS_EmptySet DEF BooksOK
<1>7. PICK acct \in VaultAccounts : Backs(p, period[p], pot[p], potAta, acct)
  BY <1>1, <1>5 DEF Covered
<1>8. NativePot(p, acct) \/ TokenPot(p, acct)
  BY <1>6, <1>7, AccountsByAsset DEF Backs, NativePot, TokenPot, IsNativePeriod, Assets
<1>9. /\ pot[p][acct] >= OutstandingTotal(period[p]) + period[p].vault_rent_reserve
      /\ pot[p][acct] \in Nat /\ OutstandingTotal(period[p]) \in Nat
      /\ total <= OutstandingTotal(period[p])
  <2>1. pot[p][acct] \in Nat
    BY <1>1, PeriodFieldTypes DEF HInv
  <2> QED
    BY <1>2, <1>3, <1>4, <1>7, <2>1 DEF Backs, OutstandingTotal
<1> HIDE DEF total
<1>10. total \in Nat /\ period[p].vault_rent_reserve \in Nat /\ RentMin \in Nat
  BY <1>1, <1>2, ExitFacts DEF total
<1>11. RentSafe(p, pot[p][acct] - total)
  <2>1. CASE IsNativePeriod(p)
    <3>1. period[p].vault_rent_reserve = RentMin
      BY <1>1, <1>6, <2>1, ExitFacts DEF ReserveKept, IsNativePeriod
    <3>2. pot[p][acct] - total >= RentMin
      BY <1>9, <1>10, <3>1
    <3> QED
      BY <3>2 DEF RentSafe
  <2> QED
    BY <2>1 DEF RentSafe
<1>12. total <= pot[p][acct]
  BY <1>9, <1>10
<1>13. Endable(p, acct, i, total)
  BY <1>4, <1>6, <1>11, <1>12 DEF Endable
<1> QED
  BY <1>8, <1>13 DEF total, Payable

\* What settle_period_* leaves behind is there, and may stay: nothing, the
\* reserve, or the reserve and what live invoices are owed.  The associated
\* account of a token period may fall short only while invoices are live that
\* another account backs.
LEMMA UnsettledIsRefundable ==
    ASSUME EInv, NEW p \in Periods, period[p].status \in Unsettled,
           IsNativePeriod(p) \/ period[p].live_invoices = 0
    PROVE  Refundable(p)
<1>1. /\ LInv /\ HInv /\ Exit(p) /\ Covered(p, period[p], pot[p], potAta)
      /\ BooksOK(period[p], invoice[p], outcome[p])
      /\ period[p].token_mint \in Assets
  BY EInvParts, PeriodFacts DEF LInv, Unsettled
<1>2. Reserved(period[p]) <= Pot(p)
  <2>1. Pot(p) \in Nat
    BY <1>1, PeriodFieldTypes, AccountsByAsset DEF Pot, HInv
  <2>2. CASE IsNativePeriod(p)
    <3>1. PICK acct \in VaultAccounts : Backs(p, period[p], pot[p], potAta, acct)
      BY <1>1 DEF Covered, Unsettled
    <3>2. acct = SOL
      BY <2>2, <3>1, AccountsByAsset DEF Backs, IsNativePeriod
    <3>3. Reserved(period[p]) \in Nat
      BY <1>1, SumFacts, PeriodFieldTypes DEF Reserved, OutstandingTotal
    <3> QED
      BY <2>1, <2>2, <3>1, <3>2, <3>3 DEF Backs, Reserved, Pot, IsNativePeriod
  <2>3. CASE ~IsNativePeriod(p)
    <3>1. LiveIn(invoice[p]) = {}
      BY <1>1, <2>3, LiveFinite, FS_EmptySet DEF BooksOK
    <3>2. OutstandingTotal(period[p]) = 0
      BY <1>1, <3>1, NothingLiveNothingOwed
    <3>3. period[p].vault_rent_reserve = 0
      BY <1>1, <2>3, ExitFacts DEF ReserveKept, IsNativePeriod
    <3> QED
      BY <2>1, <3>2, <3>3 DEF Reserved
  <2> QED
    BY <2>2, <2>3
<1>3. ASSUME IsNativePeriod(p)
      PROVE  Reserved(period[p]) = 0 \/ Reserved(period[p]) >= RentMin
  <2>1. /\ period[p].vault_rent_reserve \in {0, RentMin} /\ RentMin \in Nat
        /\ period[p].status \in {"Funded", "Active"} =>
              period[p].vault_rent_reserve = RentMin
        /\ OutstandingTotal(period[p]) \in Nat
    BY <1>1, <1>3, ExitFacts, PeriodFieldTypes
    DEF ReserveKept, IsNativePeriod, OutstandingTotal
  <2>2. CASE period[p].status = "Open"
    <3>1. OutstandingTotal(period[p]) = 0
      BY <1>1, <2>2, AbsentHasNone, NothingLiveNothingOwed
    <3> QED
      BY <2>1, <3>1 DEF Reserved
  <2>3. CASE period[p].status \in {"Funded", "Active"}
    BY <2>1, <2>3 DEF Reserved
  <2> QED
    BY <2>2, <2>3 DEF Unsettled
<1> QED
  BY <1>2, <1>3 DEF Refundable, RentSafe

\* A settled period has the vault that close_period_* asks for.
LEMMA SettledHasAccount ==
    ASSUME EInv, NEW p \in Periods, period[p].status = "Settled"
    PROVE  /\ period[p].token_mint \in Assets
           /\ \/ NativePot(p, period[p].token_mint)
              \/ TokenPot(p, period[p].token_mint)
<1>1. /\ HInv /\ VaultKept(p, period[p], potAta)
  BY EInvParts, ExitFacts DEF LInv
<1>2. period[p].token_mint \in Assets
  BY <1>1, PeriodFacts
<1> QED
  BY <1>1, <1>2, AccountsByAsset DEF VaultKept, NativePot, TokenPot, IsNativePeriod

\* In every reachable state each live invoice can be paid, each period settled
\* when it is over (a token period that was staged from another account, when
\* its invoices are paid) and each settled one closed, as far as accounts,
\* balances, the rent rule and the books have a say.
THEOREM ExitsStayOpen == Spec => []ExitsOpen
<1>1. ASSUME EInv, NEW p \in Periods, period[p].status = "Settled"
      PROVE  \E acct \in VaultAccounts : NativePot(p, acct) \/ TokenPot(p, acct)
  BY <1>1, SettledHasAccount, AccountsByAsset
<1>2. ASSUME EInv, NEW p \in Periods, period[p].status \in Unsettled
      PROVE  Refundable(p) \/ (~IsNativePeriod(p) /\ period[p].live_invoices > 0)
  <2>1. period[p].live_invoices \in Nat
    BY <1>2, EInvParts, ExitFacts
  <2> QED
    BY <1>2, <2>1, UnsettledIsRefundable
<1>3. EInv => ExitsOpen
  BY <1>1, <1>2, LiveIsEndable DEF ExitsOpen
<1> QED
  BY <1>3, ExitInvariance, PTL

\* No dispute, and nothing else, puts an invoice off beyond the end of its
\* period plus one review and one dispute window.
THEOREM InvoicesFallDueInTime == Spec => []DueInTime
<1>1. ASSUME EInv, NEW p \in Periods, NEW i \in LiveIn(invoice[p])
      PROVE  DueAt(invoice[p][i]) < LatestDue(period[p])
  <2>1. LInv /\ Exit(p)
    BY <1>1, EInvParts
  <2>2. /\ DueTimes(period[p], invoice[p][i])
        /\ period[p].review_window_secs \in Nat /\ period[p].period_end_at \in Nat
        /\ MaxDisputeWindow \in Nat
    BY <1>1, <2>1, ExitFacts
  <2>3. invoice[p][i].release_at \in Nat /\ invoice[p][i].dispute_deadline \in Nat
    BY <2>1, ExitFacts DEF LiveIn, InvoiceRecord
  <2> QED
    BY <2>2, <2>3 DEF DueTimes, DueAt, LatestDue
<1>2. EInv => DueInTime
  BY <1>1 DEF DueInTime, DueInTimeOf
<1> QED
  BY <1>2, ExitInvariance, PTL

-----------------------------------------------------------------------------
(* What is due stays due. *)

\* An invoice account changes when it is created, when it is closed, and once in
\* between: by a dispute before its review is over.
Reviewed(x, i) ==
    \/ invoice'[x][i] = invoice[x][i]
    \/ invoice[x][i].status = "Absent"
    \/ invoice'[x][i].status = "Absent"
    \/ invoice[x][i].status = "Staged" /\ now < invoice[x][i].release_at

LEMMA HourlyStepReviews ==
    ASSUME HourlyTypeOK, NEW p \in Periods, HourlyStep(p), NEW x \in InvoiceIndices
    PROVE  Reviewed(p, x)
<1>1. invoice \in [Periods -> [InvoiceIndices -> InvoiceRecord]]
  BY DEF HourlyTypeOK
<1>2. ASSUME NEW signer \in Wallets, PeriodInstruction(p, signer)
      PROVE  Reviewed(p, x)
  <2>1. CASE \/ \E employer, employee \in Users, mint \in Assets, cap \in Caps,
                    rate \in Rates, review \in ReviewWindows,
                    start \in PeriodStarts, duration \in PeriodDurations :
                    OpenPeriod(p, signer, employer, employee, mint, cap, rate,
                               review, start, duration)
             \/ \E max_fund_amount \in MaxFundAmounts :
                    \/ FundPeriodSol(p, signer, max_fund_amount)
                    \/ FundPeriodToken(p, signer, max_fund_amount)
             \/ \E cap \in Caps : RaiseWeeklyCap(p, signer, cap)
    <3>1. ASSUME NEW employer, NEW employee, NEW mint, NEW cap, NEW rate, NEW review,
                 NEW start, NEW duration,
                 OpenPeriod(p, signer, employer, employee, mint, cap, rate,
                            review, start, duration)
          PROVE  UNCHANGED invoice
      BY <3>1 DEF OpenPeriod
    <3>2. ASSUME NEW max_fund_amount,
                 \/ FundPeriodSol(p, signer, max_fund_amount)
                 \/ FundPeriodToken(p, signer, max_fund_amount)
          PROVE  UNCHANGED invoice
      BY <3>2 DEF FundPeriodSol, FundPeriodToken, FundPeriod
    <3>3. ASSUME NEW cap, RaiseWeeklyCap(p, signer, cap)
          PROVE  UNCHANGED invoice
      BY <3>3 DEF RaiseWeeklyCap
    <3>4. UNCHANGED invoice
      BY <2>1, <3>1, <3>2, <3>3
    <3> QED
      BY <3>4 DEF Reviewed
  <2>2. ASSUME NEW acct \in VaultAccounts, NEW amount \in InvoiceAmounts,
               StageInvoice(p, acct, signer, amount)
        PROVE  Reviewed(p, x)
    <3>1. PICK inv : invoice' = [invoice EXCEPT ![p][period[p].invoice_count] = inv]
      BY <2>2 DEF StageInvoice
    <3>2. invoice[p][period[p].invoice_count].status = "Absent"
      BY <2>2 DEF StageInvoice
    <3> QED
      BY <1>1, <3>1, <3>2 DEF Reviewed
  <2> QED
    BY <1>2, <2>1, <2>2 DEF PeriodInstruction, StageInvoiceSol, StageInvoiceToken
<1>3. ASSUME NEW signer \in Wallets, NEW i \in InvoiceIndices,
             InvoiceInstruction(p, i, signer)
      PROVE  Reviewed(p, x)
  <2>1. ASSUME NEW deadline \in 0..MaxTime, RaiseInvoiceDispute(p, i, signer, deadline)
        PROVE  Reviewed(p, x)
    BY <1>1, <2>1 DEF RaiseInvoiceDispute, Disputable, Reviewed
  <2>2. ASSUME NEW acct, NEW to_employee, NEW to_treasury, NEW to_employer,
               EndInvoice(p, acct, i, signer, to_employee, to_treasury, to_employer)
        PROVE  Reviewed(p, x)
    <3>1. /\ invoice' = [invoice EXCEPT ![p][i] = BlankInvoice]
          /\ BlankInvoice.status = "Absent"
      BY <2>2 DEF EndInvoice, BookEnd, BlankInvoice
    <3> QED
      BY <1>1, <3>1 DEF Reviewed
  <2>3. ASSUME NEW acct \in VaultAccounts, Endings(p, acct, i, signer)
        PROVE  Reviewed(p, x)
    <3>1. CASE \/ FinalizeInvoice(p, acct, i, signer)
               \/ ApproveInvoice(p, acct, i, signer)
               \/ AutoReleaseInvoice(p, acct, i, signer)
               \/ \E share \in InvoiceShares : ResolveInvoice(p, acct, i, signer, share)
      BY <2>2, <3>1
      DEF FinalizeInvoice, ApproveInvoice, AutoReleaseInvoice, PayInFull, ResolveInvoice
    <3> QED
      BY <2>3, <3>1
      DEF Endings, FinalizeInvoiceSol, FinalizeInvoiceToken,
          ApproveInvoiceSol, ApproveInvoiceToken, ResolveInvoiceSol,
          ResolveInvoiceToken, AutoReleaseInvoiceSol, AutoReleaseInvoiceToken
  <2> QED
    BY <1>3, <2>1, <2>3 DEF InvoiceInstruction
<1>4. CASE Anyone(p)
  <2>1. UNCHANGED invoice
    BY <1>4
    DEF Anyone, SettlePeriodSol, SettlePeriodToken, SettlePeriod, ClosePeriodSol,
        ClosePeriodToken, ClosePeriod, CreatePotAta, SendDust
  <2> QED
    BY <2>1 DEF Reviewed
<1> QED
  BY <1>2, <1>3, <1>4 DEF HourlyStep

\* Once an invoice is due no step puts it off: only being paid ends it.
THEOREM DueInvoicesStayDue == Spec => DueStaysDue
<1>1. ASSUME HourlyTypeOK, Next, NEW x \in Periods
      PROVE  StillDue(x)
  <2>1. now \in Nat
    BY <1>1 DEF HourlyTypeOK
  <2>2. now' \in Nat /\ now' >= now
    BY <1>1, <2>1 DEF Next, Tick
  <2>3. \A i \in InvoiceIndices : Reviewed(x, i)
    <3>1. CASE UNCHANGED invoice
      BY <3>1 DEF Reviewed
    <3>2. ASSUME NEW p \in Periods, HourlyStep(p)
          PROVE  \A i \in InvoiceIndices : Reviewed(x, i)
      <4>1. CASE x = p
        BY <1>1, <3>2, <4>1, HourlyStepReviews
      <4>2. CASE x # p
        BY <1>1, <3>2, <4>2, HourlyStepLocal DEF Reviewed
      <4> QED
        BY <4>1, <4>2
    <3> QED
      BY <1>1, <3>1, <3>2 DEF Next, Tick, hourly
  <2> SUFFICES ASSUME NEW i \in InvoiceIndices, i \in Live(x),
                      now >= DueAt(invoice[x][i]), invoice'[x][i].status # "Absent"
               PROVE  now' >= DueAt(invoice'[x][i])
    BY DEF StillDue
  <2>4. /\ invoice[x][i].release_at \in Nat /\ invoice[x][i].dispute_deadline \in Nat
        /\ invoice[x][i].status # "Absent"
    BY <1>1 DEF HourlyTypeOK, InvoiceRecord, Live, LiveIn
  <2>5. invoice'[x][i] = invoice[x][i]
    BY <2>1, <2>3, <2>4 DEF Reviewed, DueAt
  <2>6. DueAt(invoice[x][i]) \in Nat
    BY <2>4 DEF DueAt
  <2>7. DueAt(invoice'[x][i]) = DueAt(invoice[x][i])
    BY <2>5 DEF DueAt
  <2> QED
    BY <2>1, <2>2, <2>6, <2>7
<1>2. HInv /\ [Next]_hourlyVars => [\A p \in Periods : StillDue(p)]_hourlyVars
  BY <1>1 DEF HInv
<1> QED
  BY <1>2, HourlyInvariance, PTL DEF Spec, DueStaysDue

\* The engine leaves the Config account to its own instructions.
THEOREM HourlyKeepsConfig == Spec => ConfigSpec
<1>1. Init => ConfigInit
  BY DEF Init, ConfigInit
<1>2. [Next]_hourlyVars => [ConfigNext]_config
  BY DEF Next, hourlyVars, Tick
<1> QED
  BY <1>1, <1>2, PTL DEF Spec, ConfigSpec

-----------------------------------------------------------------------------
(***************************************************************************)
(* What InvoicesEnd and PeriodsWindDown ask of the accounts.  Each theorem *)
(* takes the transfers and the new accounts of a permissionless            *)
(* instruction, and shows that they are all it needs to go through: none   *)
(* of its checks is left to fail.                                          *)
(***************************************************************************)

\* finalize_invoice_* once the review is over, auto_release_invoice_* once the
\* dispute deadline is: there is an account to name, and whichever can pay will do.
THEOREM DueInvoicesCanBePushed ==
    ASSUME EInv, NEW p \in Periods, NEW i \in Live(p), NEW caller \in Wallets,
           now >= DueAt(invoice[p][i])
    PROVE  /\ \E acct \in VaultAccounts : Payable(p, acct, i)
           /\ \A acct \in VaultAccounts :
                 /\ Payable(p, acct, i)
                 /\ BookEnd(p, acct, i, caller,
                            invoice[p][i].amount_net, invoice[p][i].commission, 0)
                 /\ UNCHANGED <<config, now>>
                 => PushInvoice(p, i)
<1> DEFINE inv == invoice[p][i]
<1>1. LInv /\ Exit(p)
  BY EInvParts
<1>2. /\ i \in InvoiceIndices /\ inv \in InvoiceRecord
      /\ inv.amount_net \in Nat /\ inv.commission \in Nat
      /\ inv.status \in {"Staged", "Disputed"}
      /\ DueTimes(period[p], inv)
  BY <1>1, ExitFacts DEF Live, LiveIn, InvoiceRecord
<1>3. ASSUME NEW acct \in VaultAccounts, Payable(p, acct, i),
             BookEnd(p, acct, i, caller, inv.amount_net, inv.commission, 0),
             UNCHANGED <<config, now>>
      PROVE  PushInvoice(p, i)
  <2>1. PayInFull(p, acct, i, caller)
    <3>1. inv.amount_net + inv.commission + 0 = inv.amount_net + inv.commission
      BY <1>2
    <3> QED
      BY <1>3, <3>1 DEF Payable, PayInFull, EndInvoice
  <2>2. FinalizeInvoice(p, acct, i, caller) \/ AutoReleaseInvoice(p, acct, i, caller)
    <3>1. CASE inv.status = "Staged"
      BY <2>1, <3>1 DEF FinalizeInvoice, ReviewOver, DueAt
    <3>2. CASE inv.status = "Disputed"
      <4>1. inv.dispute_deadline # 0
        BY <1>1, <1>2, <3>2, ExitFacts DEF DueTimes
      <4> QED
        BY <2>1, <3>2, <4>1 DEF AutoReleaseInvoice, DueAt
    <3> QED
      BY <1>2, <3>1, <3>2
  <2> QED
    BY <1>3, <2>2
    DEF Payable, PushInvoice, FinalizeInvoiceSol, FinalizeInvoiceToken,
        AutoReleaseInvoiceSol, AutoReleaseInvoiceToken
<1> QED
  BY <1>3, LiveIsEndable

\* settle_period_* once the period is over, funded or not: that of a token
\* period at the latest when its invoices are paid.
THEOREM OverPeriodsCanBeSettled ==
    ASSUME EInv, NEW p \in Periods, period[p].status \in Unsettled,
           now >= period[p].period_end_at,
           IsNativePeriod(p) \/ period[p].live_invoices = 0,
           pot' = [pot EXCEPT ![p][period[p].token_mint] = Reserved(period[p])],
           period' = [period EXCEPT
                         ![p].status = "Settled",
                         ![p].refunded_amount = @ + (Pot(p) - Reserved(period[p]))],
           potAta' = IF IsNativePeriod(p) THEN potAta
                     ELSE potAta \cup {<<p, period[p].token_mint>>},
           UNCHANGED <<config, now, invoice, outcome>>
    PROVE  PushSettle(p)
<1>1. SettlePeriod(p)
  BY UnsettledIsRefundable DEF SettlePeriod
<1> QED
  BY <1>1 DEF PushSettle, SettlePeriodSol, SettlePeriodToken

\* close_period_* once it is settled and its last invoice ended, with the vault
\* PDA or the associated account.
THEOREM SettledPeriodsCanBeClosed ==
    ASSUME EInv, NEW p \in Periods, period[p].status = "Settled", Live(p) = {},
           pot' = [pot EXCEPT ![p][period[p].token_mint] = 0],
           period' = [period EXCEPT ![p] = BlankPeriod],
           outcome' = [outcome EXCEPT ![p] = [i \in InvoiceIndices |-> NoOutcome]],
           potAta' = IF IsNativePeriod(p) THEN potAta
                     ELSE potAta \ {<<p, period[p].token_mint>>},
           UNCHANGED <<config, now, invoice>>
    PROVE  PushClose(p)
<1>1. LInv /\ Exit(p)
  BY EInvParts
<1>2. period[p].live_invoices = 0
  BY <1>1, ExitFacts, FS_EmptySet DEF BooksOK, Live
<1>3. ClosePeriod(p, period[p].token_mint)
  BY <1>2 DEF ClosePeriod, Closable
<1>4. CASE IsNativePeriod(p)
  BY <1>3, <1>4 DEF PushClose, ClosePeriodSol, IsNativePeriod
<1>5. CASE ~IsNativePeriod(p)
  <2>1. TokenPot(p, period[p].token_mint) /\ period[p].token_mint \in TokenAccounts
    BY <1>5, SettledHasAccount, AccountsByAsset DEF NativePot, IsNativePeriod, Assets
  <2> QED
    BY <1>3, <1>5, <2>1 DEF PushClose, ClosePeriodToken
<1> QED
  BY <1>4, <1>5
=============================================================================
