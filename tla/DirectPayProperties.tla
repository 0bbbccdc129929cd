------------------------ MODULE DirectPayProperties ------------------------
(***************************************************************************)
(* What direct and batch pay must guarantee.                               *)
(***************************************************************************)
EXTENDS DirectPay

\* Every state is well-formed: no payment, however its legs follow each other
\* and whoever is named twice, leaves a negative balance.
DirectPayTypeOK ==
    /\ ConfigTypeOK
    /\ balance \in [Accounts -> Nat]
    /\ receipt \in Receipt \cup {NoReceipt}

\* What the legs of a list pay into one account.
AmountTo(legs, account) ==
    TotalWorker([n \in DOMAIN legs |->
        [legs[n] EXCEPT !.amount = IF legs[n].to = account THEN @ ELSE 0]])

When(condition, amount) == IF condition THEN amount ELSE 0

\* The asset of an event, whose token_mint is Pubkey::default() for SOL.
AssetOf(r) == IF r.token_mint = Nobody THEN SOL ELSE r.token_mint

Owner(account) == IF account \in Wallets THEN account ELSE AccountOwner[account]

\* Indexers know direct and batch pay only by their events (README.md:497):
\* money moves only in a transaction that emits one, under the Config of that
\* moment, and every account, be it named once, many times or both as recipient
\* and as treasury, changes by exactly what the event and its legs say.
PaidAsAnnounced ==
    [][IF receipt' = NoReceipt THEN balance' = balance
       ELSE LET r == receipt' IN
            /\ ~config.paused /\ IsMintAllowed(AssetOf(r))
            /\ r.fee_recipient = config.fee_recipient
            /\ Owner(r.fee_to) = r.fee_recipient
            /\ Owner(r.from) = r.payer
            /\ \A a \in Accounts :
                  balance'[a] + When(a = r.from, r.worker_amount + r.commission_amount)
                  = balance[a] + AmountTo(r.legs, a)
                               + When(a = r.fee_to, r.commission_amount)
      ]_directPayVars

AccountsOf(w, asset) ==
    IF asset = SOL THEN {w} ELSE {a \in TokenAccounts : IsTokenAccount(a, asset, w)}

Holdings(balances, w, asset) == SumFunctionOnSet(balances, AccountsOf(w, asset))

\* events.rs:121: what is announced as paid has left the payer, whatever other
\* accounts the payer owns and whether or not the payer is the treasury, to
\* whom only the commission returns.  Batches of tokens are the exception: a
\* recipient's token account may be the payer's own.
PayerReallyPays ==
    [][receipt' # NoReceipt =>
       LET r == receipt'
           before == Holdings(balance, r.payer, AssetOf(r))
           after == Holdings(balance', r.payer, AssetOf(r))
       IN  r.event = "DirectPaymentMade" \/ AssetOf(r) = SOL =>
               after + r.worker_amount
                     + When(r.fee_recipient # r.payer, r.commission_amount) = before
      ]_directPayVars

\* A payment in many parts is charged like one payment: the commission is the
\* rate's share of the whole sum to within one unit, not to within one unit of
\* each part.
CommissionWithinOneUnit ==
    receipt # NoReceipt =>
        LET share == receipt.worker_amount * receipt.commission_bps
        IN  /\ receipt.commission_amount * BpsDenominator <= share
            /\ share < (receipt.commission_amount + 1) * BpsDenominator

\* README.md:213 of both batch instructions: "No recipient may equal the payer."
BatchPaysOthers ==
    receipt # NoReceipt /\ receipt.event = "BatchPaymentMade" =>
        \A n \in 1..Len(receipt.legs) : Owner(receipt.legs[n].to) # receipt.payer
=============================================================================
