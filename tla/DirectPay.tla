----------------------------- MODULE DirectPay ------------------------------
(***************************************************************************)
(* Direct and batch pay: one transaction splits money of its payer among   *)
(* recipients and charges the platform's commission on top.  Nothing but   *)
(* balances changes; Config gates the payment and names the treasury.  A   *)
(* transfer that cannot be made fails the whole transaction, the legs      *)
(* already sent included: a failing payment is a disabled action.          *)
(***************************************************************************)
EXTENDS Config, Sequences

CONSTANTS
    TokenAccounts,       \* SPL token accounts; a wallet may own several
    AccountOwner,        \* the wallet each of them belongs to
    AccountMint,         \* the mint each of them holds
    PayAmounts,          \* amounts passed to pay_with_commission_*
    Batches,             \* recipients and amounts passed to batch_pay_*
    InitialBalances,     \* what the accounts may hold at the start
    MaxBatchRecipients,  \* MAX_BATCH_RECIPIENTS (16 in the code)
    RentMin,             \* rent-exempt minimum of a data-less account
    MaxU64               \* u64::MAX

\* Where money is: a wallet holds lamports, a token account holds tokens.
Accounts == Wallets \cup TokenAccounts

Legs == Seq([to : Accounts, amount : Nat])

ASSUME DirectPayAssumption ==
    /\ TokenAccounts \cap Wallets = {} /\ IsFiniteSet(TokenAccounts)
    /\ Nobody \notin Mints
    /\ AccountOwner \in [TokenAccounts -> Wallets]
    /\ AccountMint \in [TokenAccounts -> Mints]
    /\ PayAmounts \subseteq Nat /\ Batches \subseteq Legs
    /\ InitialBalances \subseteq [Accounts -> Nat]
    /\ MaxBatchRecipients \in Nat /\ RentMin \in Nat /\ MaxU64 \in Nat

VARIABLES
    balance,  \* of every account
    receipt   \* the event the last transaction emitted

directPayVars == <<config, balance, receipt>>

Events == {"DirectPaymentMade", "BatchPaymentMade"}

\* The two events.  hire_id and paid_at are left out; from, legs and fee_to,
\* the accounts of the transfers, are in the transaction that emitted it.
Receipt ==
    [ event : Events, payer : Wallets, fee_recipient : Treasuries,
      worker_amount : Nat, commission_amount : Nat, commission_bps : Nat,
      token_mint : Mints \cup {Nobody},
      from : Accounts, legs : Legs, fee_to : Accounts ]

NoReceipt == [event |-> "None"]

-----------------------------------------------------------------------------
(* Transfers. *)

\* system_program::transfer and token::transfer; one from an account to itself
\* moves nothing.
Transferred(balances, from, leg) ==
    [ [balances EXCEPT ![from] = @ - leg.amount] EXCEPT ![leg.to] = @ + leg.amount ]

\* After(..)[n]: the balances once the first n legs have been sent.
After(balances, from, legs) ==
    LET after[n \in 0..Len(legs)] ==
            IF n = 0 THEN balances ELSE Transferred(after[n - 1], from, legs[n])
    IN  after

\* Fault: each leg is compared with what the account held at the start.
FundedAtStart(balances, from, legs) ==
    \A n \in 1..Len(legs) : legs[n].amount <= balances[from]

\* Each leg is paid out of what the ones before it left.
Funded(balances, from, legs) ==
    \A n \in 1..Len(legs) : legs[n].amount <= After(balances, from, legs)[n - 1][from]

\* The runtime leaves no wallet above zero and below the rent minimum.
RentOK(balances) ==
    \A w \in Wallets : balances[w] = 0 \/ balances[w] >= RentMin

\* The sum of the amounts, 0 for an empty list.
TotalWorker(legs) ==
    LET sum[n \in 0..Len(legs)] == IF n = 0 THEN 0 ELSE sum[n - 1] + legs[n].amount
    IN  sum[Len(legs)]

\* Fault: the treasury gets its commission with every leg.
CommissionLegs(to, commission) ==
    <<[to |-> to, amount |-> commission], [to |-> to, amount |-> commission]>>

\* The commission transfer is skipped when it rounds to zero.
CommissionLeg(to, commission) ==
    IF commission = 0 THEN <<>> ELSE <<[to |-> to, amount |-> commission]>>

-----------------------------------------------------------------------------
(* The four instructions. *)

\* Fault: the commission is rounded down for each recipient.
CommissionPerLeg(legs, rate) ==
    TotalWorker([n \in DOMAIN legs |->
        [legs[n] EXCEPT !.amount = CalculateCommission(@, rate)]])

\* Once on the total, for one recipient or for many.
CommissionOn(legs, rate) == CalculateCommission(TotalWorker(legs), rate)

\* The transfers of all four instructions and the event they emit; token_mint
\* is Pubkey::default() for SOL.
Pay(event, payer, asset, from, legs, fee_to, rate) ==
    LET commission == CommissionOn(legs, rate)
        transfers == legs \o CommissionLeg(fee_to, commission)
    IN  /\ Funded(balance, from, transfers)
        /\ balance' = After(balance, from, transfers)[Len(transfers)]
        /\ asset = SOL => RentOK(balance')
        /\ receipt' = [ event |-> event, payer |-> payer,
                        fee_recipient |-> config.fee_recipient,
                        worker_amount |-> TotalWorker(legs),
                        commission_amount |-> commission, commission_bps |-> rate,
                        token_mint |-> IF asset = SOL THEN Nobody ELSE asset,
                        from |-> from, legs |-> legs, fee_to |-> fee_to ]
        /\ UNCHANGED config

\* What the four handlers ask of Config and of the rate.
PaymentAllowed(asset, rate) ==
    /\ ConfigExists
    /\ ~config.paused
    /\ IsMintAllowed(asset)
    /\ rate <= MaxCommissionRateBps

\* The checks pay_with_commission_sol and _token share; fee_recipient is the
\* account passed under that name.
PayOneAllowed(asset, payer, recipient, fee_recipient, amount, rate) ==
    /\ PaymentAllowed(asset, rate)
    /\ amount > 0
    /\ recipient # payer
    /\ fee_recipient \notin {payer, recipient}
    /\ amount + CalculateCommission(amount, rate) <= MaxU64

PayWithCommissionSol(payer, recipient, amount, rate) ==
    /\ PayOneAllowed(SOL, payer, recipient, config.fee_recipient, amount, rate)
    /\ Pay("DirectPaymentMade", payer, SOL, payer,
           <<[to |-> recipient, amount |-> amount]>>, config.fee_recipient, rate)

IsTokenAccount(account, mint, owner) ==
    /\ account \in TokenAccounts
    /\ AccountMint[account] = mint
    /\ AccountOwner[account] = owner

\* The payer is the owner of the account the money comes from.  Only the owner
\* of platform_token_account is tied to Config: the key passed as fee_recipient
\* may be anybody's, and is not where the commission goes.  Anchor refuses one
\* mutable token account in two places of the account list.
PayWithCommissionToken(from, to, fee_recipient, fee_to, amount, rate) ==
    LET mint == AccountMint[from]
        payer == AccountOwner[from]
        recipient == AccountOwner[to]
    IN  /\ PayOneAllowed(mint, payer, recipient, fee_recipient, amount, rate)
        /\ IsTokenAccount(to, mint, recipient)
        /\ IsTokenAccount(fee_to, mint, config.fee_recipient)
        /\ from # to /\ from # fee_to /\ to # fee_to
        /\ Pay("DirectPaymentMade", payer, mint, from,
               <<[to |-> to, amount |-> amount]>>, fee_to, rate)

\* The checks batch_pay_with_commission_sol and _token share.  The amounts and
\* the recipients come as two lists, which must be equally long.
BatchAllowed(asset, legs, rate) ==
    /\ PaymentAllowed(asset, rate)
    /\ Len(legs) \in 1..MaxBatchRecipients
    /\ TotalWorker(legs) \in 1..MaxU64
    /\ \A n \in 1..Len(legs) : legs[n].amount > 0

\* Fault: recipients are not compared with the payer.
BatchPayAnyone(payer, legs, rate) ==
    /\ BatchAllowed(SOL, legs, rate)
    /\ \A n \in 1..Len(legs) : legs[n].to \in Wallets
    /\ Pay("BatchPaymentMade", payer, SOL, payer, legs, config.fee_recipient, rate)

BatchPayWithCommissionSol(payer, legs, rate) ==
    /\ BatchAllowed(SOL, legs, rate)
    /\ \A n \in 1..Len(legs) : legs[n].to \in Wallets \ {payer}
    /\ Pay("BatchPaymentMade", payer, SOL, payer, legs, config.fee_recipient, rate)

\* Of a recipient's token account only the mint is looked at.
BatchPayWithCommissionToken(from, legs, fee_to, rate) ==
    LET mint == AccountMint[from] IN
    /\ BatchAllowed(mint, legs, rate)
    /\ IsTokenAccount(fee_to, mint, config.fee_recipient)
    /\ from # fee_to
    /\ \A n \in 1..Len(legs) :
          legs[n].to \in TokenAccounts /\ AccountMint[legs[n].to] = mint
    /\ Pay("BatchPaymentMade", AccountOwner[from], mint, from, legs, fee_to, rate)

-----------------------------------------------------------------------------

DirectPayInit ==
    /\ ConfigInit
    /\ balance \in InitialBalances
    /\ receipt = NoReceipt

PayInSol ==
    \E payer \in Wallets, rate \in Rates :
        \/ \E recipient \in Wallets, amount \in PayAmounts :
              PayWithCommissionSol(payer, recipient, amount, rate)
        \/ \E legs \in Batches : BatchPayWithCommissionSol(payer, legs, rate)

PayInTokens ==
    \E from, fee_to \in TokenAccounts, rate \in Rates :
        \/ \E to \in TokenAccounts, fee_recipient \in Wallets, amount \in PayAmounts :
              PayWithCommissionToken(from, to, fee_recipient, fee_to, amount, rate)
        \/ \E legs \in Batches :
              BatchPayWithCommissionToken(from, legs, fee_to, rate)

DirectPayNext ==
    \/ PayInSol
    \/ PayInTokens
    \/ ConfigNext /\ receipt' = NoReceipt /\ UNCHANGED balance

DirectPaySpec == DirectPayInit /\ [][DirectPayNext]_directPayVars
=============================================================================
