---------------------------- MODULE EscrowProofs ----------------------------
(***************************************************************************)
(* The invariants of the milestone escrow engine, proved for any number of *)
(* escrows, wallets, mints, amounts, rates and any clock bound.  IInv of   *)
(* EscrowProperties is inductive: one lemma per action shows that it is    *)
(* kept, the theorems at the end read the invariants off it.               *)
(***************************************************************************)
EXTENDS EscrowProperties, ConfigProofs, TLAPS

-----------------------------------------------------------------------------
(* What every action lemma uses. *)

LEMMA KeyTypes ==
    /\ Wallets \subseteq Keys /\ Users \subseteq Keys
    /\ Platforms \subseteq Keys /\ Treasuries \subseteq Keys /\ Nobody \in Keys
BY DEF Keys, Wallets

LEMMA AccountTypes ==
    /\ Assets \subseteq VaultAccounts /\ TokenAccounts \subseteq VaultAccounts
    /\ Mints \subseteq TokenAccounts /\ SOL \in VaultAccounts
    /\ \A acct \in Assets : AssetOf(acct) = acct
BY VaultsAssumption DEF VaultAccounts, TokenAccounts, Assets, AssetOf

\* The types of one id's account, vault and history.
LEMMA FieldTypes ==
    ASSUME TypeOK, NEW id \in EscrowIds
    PROVE  /\ escrow[id] \in EscrowRecord
           /\ escrow[id].employer \in Keys /\ escrow[id].employee \in Keys
           /\ escrow[id].platform_authority \in Keys
           /\ escrow[id].amount \in Nat /\ escrow[id].commission_amount \in Nat
           /\ escrow[id].commission_rate_bps \in Nat
           /\ escrow[id].released_to_employee \in Nat
           /\ escrow[id].dispute_raised_at \in Nat
           /\ escrow[id].dispute_deadline \in Nat
           /\ now \in Nat /\ now # 0
           /\ vault[id] \in [VaultAccounts -> Nat] /\ paid[id] \in Payments
           /\ settledBy[id] \in SUBSET Keys /\ ata \in SUBSET (EscrowIds \X TokenAccounts)
           /\ MinDisputeWindow \in Nat
BY EscrowAssumption DEF TypeOK, EscrowRecord

\* A step that changes one id.
Step(id, e, v, p, s) ==
    /\ escrow' = [escrow EXCEPT ![id] = e]
    /\ vault' = [vault EXCEPT ![id] = v]
    /\ paid' = [paid EXCEPT ![id] = p]
    /\ settledBy' = [settledBy EXCEPT ![id] = s]
    /\ ata' \in SUBSET (EscrowIds \X TokenAccounts)
    /\ \A x \in EscrowIds \ {id} : \A m : <<x, m>> \in ata => <<x, m>> \in ata'
    /\ UNCHANGED <<config, now>>

\* Such a step keeps the invariant if it keeps it for that id: no handler
\* reaches the account, the vault or the token account of another id.
LEMMA StepKeepsOthers ==
    ASSUME IInv, NEW id \in EscrowIds, NEW e \in EscrowRecord,
           NEW v \in [VaultAccounts -> Nat], NEW p \in Payments, NEW s \in SUBSET Keys,
           Step(id, e, v, p, s), AccountOK(e, p, s),
           e.status \in Active =>
               /\ e.token_mint = SOL \/ <<id, e.token_mint>> \in ata'
               /\ v[e.token_mint] >= RemainingWorkerAmount(e) + RemainingCommission(e),
           Settled(e) => PaidAsRecorded(e, p, v[e.token_mint])
    PROVE  IInv'
<1>1. TypeOK
  BY DEF IInv
<1>2. TypeOK' /\ escrow'[id] = e /\ vault'[id] = v /\ paid'[id] = p /\ settledBy'[id] = s
  <2>1. escrow' \in [EscrowIds -> EscrowRecord] /\ escrow'[id] = e
    BY <1>1 DEF TypeOK, Step
  <2>2. vault' \in [EscrowIds -> [VaultAccounts -> Nat]] /\ vault'[id] = v
    BY <1>1 DEF TypeOK, Step
  <2>3. paid' \in [EscrowIds -> Payments] /\ paid'[id] = p
    BY <1>1 DEF TypeOK, Step
  <2>4. settledBy' \in [EscrowIds -> SUBSET Keys] /\ settledBy'[id] = s
    BY <1>1 DEF TypeOK, Step
  <2>5. ConfigTypeOK' /\ now' \in Nat \ {0} /\ ata' \in SUBSET (EscrowIds \X TokenAccounts)
    BY <1>1 DEF TypeOK, Step, ConfigTypeOK, ConfigExists
  <2> QED
    BY <2>1, <2>2, <2>3, <2>4, <2>5 DEF TypeOK
<1>3. IdOK(id)'
  BY <1>2 DEF IdOK, Solvent, IsNative, VaultTokenAccountExists, Vault
<1>4. ASSUME NEW x \in EscrowIds \ {id}
      PROVE  IdOK(x)'
  <2>1. /\ escrow'[x] = escrow[x] /\ vault'[x] = vault[x]
        /\ paid'[x] = paid[x] /\ settledBy'[x] = settledBy[x]
    BY <1>1, <1>4 DEF TypeOK, Step
  <2>2. \A m : <<x, m>> \in ata => <<x, m>> \in ata'
    BY <1>4 DEF Step
  <2>3. IdOK(x)
    BY <1>4 DEF IInv
  <2> QED
    BY <2>1, <2>2, <2>3
    DEF IdOK, Solvent, IsNative, VaultTokenAccountExists, Vault
<1> QED
  BY <1>2, <1>3, <1>4 DEF IInv

-----------------------------------------------------------------------------
(* Steps that move no money. *)

\* Rewriting a live account is harmless as long as its price, its funding mark
\* and the distance between its parties stay.
LEMMA AmendKeeps ==
    ASSUME IInv, NEW id \in EscrowIds, NEW e \in EscrowRecord,
           escrow[id].status \in {"Created"} \cup Active,
           e.status \in {"Created"} \cup Active,
           e.status = "Created" <=> escrow[id].status = "Created",
           e.token_mint = escrow[id].token_mint, e.amount = escrow[id].amount,
           e.commission_amount = escrow[id].commission_amount,
           e.commission_rate_bps = escrow[id].commission_rate_bps,
           e.released_to_employee = escrow[id].released_to_employee,
           e.funded_at = escrow[id].funded_at,
           DisputeTimed(e), Distinct(e),
           escrow' = [escrow EXCEPT ![id] = e],
           UNCHANGED <<config, now, vault, ata, paid, settledBy>>
    PROVE  IInv'
<1>1. TypeOK /\ IdOK(id)
  BY DEF IInv
<1>2. Step(id, e, vault[id], paid[id], settledBy[id])
  BY <1>1 DEF Step, TypeOK
<1>3. AccountOK(e, paid[id], settledBy[id])
  <2>1. Untouched(e, paid[id])
    BY <1>1 DEF IdOK, AccountOK, Untouched, Active
  <2>2. e.status \notin Terminal
    BY DEF Terminal, Active
  <2> QED
    BY <2>1, <2>2
    DEF AccountOK, Settled, NoClawback, PayoutJustified, Mediated, Terminal
<1>4. e.status \in Active =>
        /\ e.token_mint = SOL \/ <<id, e.token_mint>> \in ata'
        /\ vault[id][e.token_mint] >= RemainingWorkerAmount(e) + RemainingCommission(e)
  BY <1>1 DEF IdOK, Solvent, IsNative, VaultTokenAccountExists, Vault, Active,
              RemainingWorkerAmount, RemainingCommission
<1>5. ~Settled(e)
  BY DEF Settled, Terminal, Active
<1> QED
  BY <1>1, <1>2, <1>3, <1>4, <1>5, FieldTypes, StepKeepsOthers

\* confirm_completion.
LEMMA ConfirmCompletionKeeps ==
    ASSUME IInv, NEW id \in EscrowIds, NEW signer \in Wallets,
           ConfirmCompletion(id, signer), UNCHANGED <<config, now>>
    PROVE  IInv'
<1>1. TypeOK /\ IdOK(id) /\ escrow[id].status \in {"Funded", "PendingRelease"}
  BY DEF IInv, ConfirmCompletion, Confirmable
<1>2. escrow[id] \in EscrowRecord
  BY <1>1, FieldTypes
<1>3. DisputeTimed(escrow[id]) /\ Distinct(escrow[id])
  BY <1>1 DEF IdOK, AccountOK
<1>4. escrow[id].status \in Active /\ escrow[id].status # "Created"
  BY <1>1 DEF Active
<1>5. "PendingRelease" \in Statuses /\ TRUE \in BOOLEAN
  BY DEF Statuses
<1>6. CASE escrow' = [escrow EXCEPT ![id].employer_confirmed = TRUE,
                                    ![id].status = "PendingRelease"]
  <2> DEFINE e == [escrow[id] EXCEPT !.employer_confirmed = TRUE,
                                     !.status = "PendingRelease"]
  <2>1. e \in EscrowRecord
    BY <1>2, <1>5, Zenon DEF EscrowRecord
  <2>2. escrow' = [escrow EXCEPT ![id] = e]
    BY <1>1, <1>6 DEF TypeOK
  <2>3. DisputeTimed(e) /\ Distinct(e)
    BY <1>1, <1>2, <1>3 DEF DisputeTimed, Distinct, EscrowRecord
  <2>4. e.status \in Active /\ e.status # "Created"
    BY <1>2 DEF Active, EscrowRecord
  <2> QED
    BY <1>2, <1>4, <2>1, <2>2, <2>3, <2>4, AmendKeeps
    DEF ConfirmCompletion, EscrowRecord
<1>7. CASE escrow' = [escrow EXCEPT ![id].employee_confirmed = TRUE,
                                    ![id].status = "PendingRelease"]
  <2> DEFINE e == [escrow[id] EXCEPT !.employee_confirmed = TRUE,
                                     !.status = "PendingRelease"]
  <2>1. e \in EscrowRecord
    BY <1>2, <1>5, Zenon DEF EscrowRecord
  <2>2. escrow' = [escrow EXCEPT ![id] = e]
    BY <1>1, <1>7 DEF TypeOK
  <2>3. DisputeTimed(e) /\ Distinct(e)
    BY <1>1, <1>2, <1>3 DEF DisputeTimed, Distinct, EscrowRecord
  <2>4. e.status \in Active /\ e.status # "Created"
    BY <1>2 DEF Active, EscrowRecord
  <2> QED
    BY <1>2, <1>4, <2>1, <2>2, <2>3, <2>4, AmendKeeps
    DEF ConfirmCompletion, EscrowRecord
<1> QED
  BY <1>6, <1>7 DEF ConfirmCompletion

\* raise_dispute: the deadline check is what DisputeTimed asks.
LEMMA RaiseDisputeKeeps ==
    ASSUME IInv, NEW id \in EscrowIds, NEW signer \in Wallets, NEW deadline \in Nat,
           RaiseDispute(id, signer, deadline), UNCHANGED <<config, now>>
    PROVE  IInv'
<1> DEFINE e == [escrow[id] EXCEPT !.status = "Disputed",
                                   !.dispute_raised_by = signer,
                                   !.dispute_raised_at = now,
                                   !.dispute_deadline = deadline]
<1>1. TypeOK /\ IdOK(id) /\ escrow[id].status \in {"Funded", "PendingRelease"}
  BY DEF IInv, RaiseDispute, MayDispute
<1>2. escrow[id] \in EscrowRecord /\ now \in Nat /\ now # 0 /\ MinDisputeWindow \in Nat
  BY <1>1, FieldTypes
<1>3. "Disputed" \in Statuses /\ signer \in Keys
  BY KeyTypes DEF Statuses
<1>4. e \in EscrowRecord
  BY <1>2, <1>3, Zenon DEF EscrowRecord
<1>5. escrow' = [escrow EXCEPT ![id] = e]
  BY <1>1 DEF TypeOK, RaiseDispute
<1>6. DisputeTimed(e)
  BY <1>2 DEF DisputeTimed, EscrowRecord, RaiseDispute, DeadlineAllowed
<1>7. Distinct(escrow[id])
  BY <1>1 DEF IdOK, AccountOK
<1>8. Distinct(e)
  BY <1>1, <1>2, <1>7 DEF Distinct, EscrowRecord
<1>9. /\ e.status \in Active /\ e.status # "Created"
      /\ escrow[id].status \in Active /\ escrow[id].status # "Created"
  BY <1>1, <1>2 DEF Active, EscrowRecord
<1> QED
  BY <1>2, <1>4, <1>5, <1>6, <1>8, <1>9, AmendKeeps DEF RaiseDispute, EscrowRecord

\* update_platform_authority.
LEMMA UpdatePlatformAuthorityKeeps ==
    ASSUME IInv, NEW id \in EscrowIds, NEW signer \in Wallets, NEW new \in Keys,
           UpdatePlatformAuthority(id, signer, new), UNCHANGED <<config, now>>
    PROVE  IInv'
<1> DEFINE e == [escrow[id] EXCEPT !.platform_authority = new]
<1>1. TypeOK /\ IdOK(id)
  BY DEF IInv
<1>2. escrow[id] \in EscrowRecord
  BY <1>1, FieldTypes
<1>3. escrow[id].status \in {"Created", "Funded", "PendingRelease"}
  BY <1>2 DEF UpdatePlatformAuthority, Rotatable, Terminal, EscrowRecord, Statuses
<1>4. e \in EscrowRecord
  BY <1>2, Zenon DEF EscrowRecord
<1>5. escrow' = [escrow EXCEPT ![id] = e]
  BY <1>1 DEF TypeOK, UpdatePlatformAuthority
<1>6. DisputeTimed(escrow[id]) /\ Distinct(escrow[id])
  BY <1>1 DEF IdOK, AccountOK
<1>7. DisputeTimed(e)
  BY <1>2, <1>6 DEF DisputeTimed, EscrowRecord
<1>8. Distinct(e)
  BY <1>2, <1>3, <1>6
  DEF Distinct, EscrowRecord, UpdatePlatformAuthority, MayRotateTo
<1>9. /\ e.status = escrow[id].status
      /\ escrow[id].status \in {"Created"} \cup Active
  BY <1>2, <1>3 DEF Active, EscrowRecord
<1> QED
  BY <1>2, <1>4, <1>5, <1>7, <1>8, <1>9, AmendKeeps
  DEF UpdatePlatformAuthority, EscrowRecord

-----------------------------------------------------------------------------
(* Creation and funding. *)

\* create_escrow: u128 arithmetic, so the commission is the exact floor.
LEMMA CreateEscrowKeeps ==
    ASSUME IInv, NEW id \in EscrowIds, NEW employer \in Users, NEW employee \in Users,
           NEW mint \in Assets, NEW amount \in Amounts, NEW rate \in Rates,
           CreateEscrow(id, employer, employee, mint, amount, rate),
           UNCHANGED <<config, now>>
    PROVE  IInv'
<1> DEFINE fee == CalculateCommission(amount, rate)
           e == [ BlankEscrow EXCEPT
                    !.status = "Created",
                    !.employer = employer, !.employee = employee,
                    !.platform_authority = config.platform_authority,
                    !.fee_recipient = config.fee_recipient,
                    !.token_mint = mint, !.amount = amount,
                    !.commission_amount = fee, !.commission_rate_bps = rate ]
<1>1. TypeOK /\ IdOK(id) /\ escrow[id].status = "Absent"
  BY DEF IInv, CreateEscrow
<1>2. paid[id] = NoPayments
  BY <1>1 DEF IdOK, AccountOK, Untouched
<1>3. config.platform_authority \in Keys /\ config.fee_recipient \in Keys
  BY <1>1 DEF TypeOK, ConfigTypeOK, ConfigRecord, Keys, Wallets
<1>4. amount \in Nat /\ rate \in Nat /\ fee \in Nat
  BY EscrowAssumption, ConfigAssumption, CommissionNat
<1>5. employer \in Keys /\ employee \in Keys /\ Nobody \in Keys
  BY KeyTypes
<1>6. e \in EscrowRecord
  <2>1. /\ "Created" \in Statuses /\ 0 \in Nat /\ FALSE \in BOOLEAN
        /\ mint \in Assets \cup {Nobody}
    BY DEF Statuses
  <2> HIDE DEF fee
  <2> QED
    BY <1>3, <1>4, <1>5, <2>1, Zenon DEF EscrowRecord, BlankEscrow
<1>7. /\ e.status = "Created" /\ e.employer = employer /\ e.employee = employee
      /\ e.platform_authority = config.platform_authority
      /\ e.token_mint = mint /\ e.amount = amount /\ e.commission_amount = fee
      /\ e.commission_rate_bps = rate /\ e.released_to_employee = 0
      /\ e.funded_at = 0 /\ e.dispute_raised_at = 0
  BY Zenon DEF BlankEscrow
<1>8. Step(id, e, vault[id], paid[id], settledBy[id])
  BY <1>1 DEF Step, TypeOK, CreateEscrow
<1> HIDE DEF e
<1>9. AccountOK(e, paid[id], settledBy[id])
  <2>1. Untouched(e, paid[id])
    BY <1>2, <1>7 DEF Untouched, Active, CreateEscrow
  <2>2. DisputeTimed(e) /\ Distinct(e)
    BY <1>7 DEF DisputeTimed, Distinct, CreateEscrow
  <2> QED
    BY <1>7, <2>1, <2>2
    DEF AccountOK, Settled, NoClawback, PayoutJustified, Mediated, Terminal
<1>10. e.status \notin Active /\ ~Settled(e)
  BY <1>7 DEF Active, Settled
<1> QED
  BY <1>1, <1>6, <1>8, <1>9, <1>10, FieldTypes, StepKeepsOthers

\* deposit_sol and deposit_token: the vault gains the worker amount and the
\* whole commission on top of whatever was in it.
LEMMA DepositKeeps ==
    ASSUME IInv, NEW id \in EscrowIds, NEW signer \in Wallets,
           Deposit(id, signer), UNCHANGED <<config, now>>,
           ata' \in SUBSET (EscrowIds \X TokenAccounts), ata \subseteq ata',
           escrow[id].token_mint = SOL \/ <<id, escrow[id].token_mint>> \in ata'
    PROVE  IInv'
<1> DEFINE m == escrow[id].token_mint
           e == [escrow[id] EXCEPT !.status = "Funded", !.funded_at = now]
           v == [vault[id] EXCEPT ![m] = @ + TotalDeposit(escrow[id])]
<1>1. TypeOK /\ IdOK(id) /\ escrow[id].status = "Created"
  BY DEF IInv, Deposit
<1>2. /\ escrow[id] \in EscrowRecord /\ now \in Nat /\ now # 0
      /\ escrow[id].amount \in Nat /\ escrow[id].commission_amount \in Nat
      /\ escrow[id].commission_rate_bps \in Nat
  BY <1>1, FieldTypes
<1>3. Untouched(escrow[id], paid[id]) /\ DisputeTimed(escrow[id]) /\ Distinct(escrow[id])
  BY <1>1 DEF IdOK, AccountOK
<1>4. e \in EscrowRecord
  <2>1. "Funded" \in Statuses
    BY DEF Statuses
  <2> QED
    BY <1>2, <2>1, Zenon DEF EscrowRecord
<1>5. m \in Assets /\ escrow[id].released_to_employee = 0
  BY <1>1, <1>3 DEF Untouched
<1>6. v \in [VaultAccounts -> Nat] /\ v[m] >= escrow[id].amount + escrow[id].commission_amount
  BY <1>1, <1>2, <1>5, FieldTypes, AccountTypes DEF TotalDeposit
<1>7. Step(id, e, v, paid[id], settledBy[id])
  BY <1>1 DEF Step, Deposit, TypeOK
<1>8. /\ e.status = "Funded" /\ e.funded_at = now /\ e.token_mint = m
      /\ e.amount = escrow[id].amount
      /\ e.commission_amount = escrow[id].commission_amount
      /\ e.commission_rate_bps = escrow[id].commission_rate_bps
      /\ e.released_to_employee = escrow[id].released_to_employee
      /\ e.dispute_raised_at = escrow[id].dispute_raised_at
      /\ e.employer = escrow[id].employer /\ e.employee = escrow[id].employee
      /\ e.platform_authority = escrow[id].platform_authority
  BY <1>2, Zenon DEF EscrowRecord
<1> HIDE DEF e, v
<1>9. AccountOK(e, paid[id], settledBy[id])
  <2>1. Untouched(e, paid[id])
    BY <1>1, <1>2, <1>3, <1>8 DEF Untouched, Active
  <2>2. DisputeTimed(e) /\ Distinct(e)
    BY <1>1, <1>3, <1>8 DEF DisputeTimed, Distinct
  <2> QED
    BY <1>8, <2>1, <2>2
    DEF AccountOK, Settled, NoClawback, PayoutJustified, Mediated, Terminal
<1>10. v[e.token_mint] >= RemainingWorkerAmount(e) + RemainingCommission(e)
  BY <1>2, <1>5, <1>6, <1>8, CommissionOfZero
  DEF RemainingWorkerAmount, RemainingCommission, SaturatingSub
<1>11. ~Settled(e)
  BY <1>8 DEF Settled, Terminal
<1> QED
  BY <1>1, <1>4, <1>6, <1>7, <1>8, <1>9, <1>10, <1>11, FieldTypes, StepKeepsOthers

-----------------------------------------------------------------------------
(* Settlement. *)

\* What a settling transaction did to the vault and the history of an id.
Settlement(id, signers, v, p) ==
    /\ vault' = [vault EXCEPT ![id] = v]
    /\ paid' = [paid EXCEPT ![id] = p]
    /\ settledBy' = [settledBy EXCEPT ![id] = signers]
    /\ ata' = ata

\* A settlement is harmless if the terminal account agrees with what was paid.
LEMMA SettlementKeeps ==
    ASSUME IInv, NEW id \in EscrowIds, NEW e \in EscrowRecord,
           NEW v \in [VaultAccounts -> Nat], NEW p \in Payments, NEW s \in SUBSET Keys,
           Settlement(id, s, v, p), escrow' = [escrow EXCEPT ![id] = e],
           UNCHANGED <<config, now>>,
           e.status \in Terminal, Distinct(e),
           Settled(e) => PaidAsRecorded(e, p, v[e.token_mint]),
           NoClawback(e, p, s), PayoutJustified(e, p, s), Mediated(e, p)
    PROVE  IInv'
<1>1. Step(id, e, v, p, s)
  BY DEF Step, Settlement, IInv, TypeOK
<1>2. Untouched(e, p) /\ DisputeTimed(e) /\ e.status \notin Active
  BY DEF Untouched, DisputeTimed, Terminal, Active
<1> QED
  BY <1>1, <1>2, StepKeepsOthers DEF AccountOK

\* The facts about a live account the settlement lemmas start from.
LEMMA LiveFacts ==
    ASSUME IInv, NEW id \in EscrowIds, escrow[id].status \in {"Created"} \cup Active
    PROVE  /\ escrow[id].token_mint \in Assets /\ escrow[id].amount \in Nat
           /\ escrow[id].amount > 0 /\ escrow[id].commission_amount \in Nat
           /\ escrow[id].released_to_employee = 0 /\ paid[id] = NoPayments
           /\ RemainingWorkerAmount(escrow[id]) = escrow[id].amount
           /\ RemainingCommission(escrow[id]) = escrow[id].commission_amount
           /\ Vault(id) \in Nat
           /\ escrow[id].status \in Active =>
                Vault(id) >= escrow[id].amount + escrow[id].commission_amount
<1>1. TypeOK /\ IdOK(id)
  BY DEF IInv
<1>2. /\ escrow[id].amount \in Nat /\ escrow[id].commission_amount \in Nat
      /\ escrow[id].commission_rate_bps \in Nat /\ vault[id] \in [VaultAccounts -> Nat]
  BY <1>1, FieldTypes
<1>3. /\ escrow[id].token_mint \in Assets /\ escrow[id].amount > 0
      /\ escrow[id].released_to_employee = 0 /\ paid[id] = NoPayments
  BY <1>1 DEF IdOK, AccountOK, Untouched
<1>4. /\ RemainingWorkerAmount(escrow[id]) = escrow[id].amount
      /\ RemainingCommission(escrow[id]) = escrow[id].commission_amount
  BY <1>2, <1>3, CommissionOfZero
  DEF RemainingWorkerAmount, RemainingCommission, SaturatingSub
<1>5. escrow[id].status \in Active =>
         Vault(id) >= escrow[id].amount + escrow[id].commission_amount
  BY <1>1, <1>4 DEF IdOK, Solvent
<1> QED
  BY <1>2, <1>3, <1>4, <1>5, AccountTypes DEF Vault

\* A settlement names the vault PDA, or a token account with the mint of the
\* escrow: the associated one or another.
Named(id, acct) == NativeVault(id, acct) \/ TokenVault(id, acct)

LEMMA NamedAccount ==
    ASSUME IInv, NEW id \in EscrowIds, escrow[id].status \in {"Created"} \cup Active,
           NEW acct \in VaultAccounts, Named(id, acct)
    PROVE  /\ vault[id][acct] \in Nat
           /\ AssetOf(acct) = escrow[id].token_mint
           /\ acct = escrow[id].token_mint \/ escrow[id].token_mint \in Mints
<1>1. vault[id] \in [VaultAccounts -> Nat]
  BY FieldTypes DEF IInv
<1>2. escrow[id].token_mint \in Assets
  BY LiveFacts
<1>3. CASE NativeVault(id, acct)
  <2>1. AssetOf(SOL) = SOL
    BY AccountTypes DEF Assets
  <2> QED
    BY <1>1, <1>3, <2>1 DEF NativeVault, IsNative
<1>4. CASE TokenVault(id, acct)
  BY <1>1, <1>2, <1>4 DEF TokenVault, IsNative, Assets
<1> QED
  BY <1>3, <1>4 DEF Named

\* Where the deposit of a settled escrow is: paid out, or where it was.
Accounted(e, p, balance, share) ==
    \/ p.treasury = e.commission_amount /\ p.employer >= e.amount - share
    \/ DepositKept(e, balance)

\* The three transfers of resolve_dispute_*, mutual_cancel_*, cancel_escrow_*
\* and trigger_auto_release_*: when they draw on the vault that was funded the
\* treasury gets exactly the commission and the employer all the rest, and when
\* they draw on another account that vault keeps the whole deposit.
LEMMA SplitPays ==
    ASSUME IInv, NEW id \in EscrowIds, escrow[id].status \in {"Created"} \cup Active,
           NEW acct \in VaultAccounts, Named(id, acct),
           NEW signers, NEW share \in Nat, share <= escrow[id].amount,
           PaySplit(id, acct, signers, share)
    PROVE  \E p \in Payments, v \in [VaultAccounts -> Nat] :
               /\ Settlement(id, signers, v, p)
               /\ p.employee = share
               /\ escrow[id].status \in Active =>
                     Accounted(escrow[id], p, v[escrow[id].token_mint], share)
<1> DEFINE m == escrow[id].token_mint
           balance == vault[id][acct]
           left == balance - share
           fee == Least(RemainingCommission(escrow[id]), left)
           v == [vault[id] EXCEPT ![acct] = 0]
           p == [employee |-> share, employer |-> left - fee, treasury |-> fee]
<1>1. TypeOK
  BY DEF IInv
<1>2. /\ m \in VaultAccounts /\ balance \in Nat /\ escrow[id].amount \in Nat
      /\ escrow[id].commission_amount \in Nat /\ paid[id] = NoPayments
      /\ RemainingCommission(escrow[id]) = escrow[id].commission_amount
      /\ escrow[id].status \in Active =>
           vault[id][m] >= escrow[id].amount + escrow[id].commission_amount
      /\ vault[id] \in [VaultAccounts -> Nat]
      /\ acct = m \/ m \in Mints
  BY <1>1, LiveFacts, FieldTypes, AccountTypes, NamedAccount DEF Vault
<1>3. left \in Nat /\ share <= balance
  BY <1>2 DEF PaySplit
<1>4. fee \in Nat /\ fee <= left
  BY <1>2, <1>3, LeastNat
<1>5. p \in Payments /\ v \in [VaultAccounts -> Nat]
  BY <1>2, <1>3, <1>4 DEF Payments
<1>6. escrow[id].status \in Active => Accounted(escrow[id], p, v[m], share)
  <2>1. CASE acct = m
    BY <1>2, <1>3, <2>1 DEF Least, Accounted
  <2>2. CASE acct # m
    BY <1>2, <2>2 DEF Accounted, DepositKept, TotalDeposit
  <2> QED
    BY <2>1, <2>2
<1>7. Pay(id, acct, signers, share, fee, left - fee)
  BY DEF PaySplit
<1> HIDE DEF left, fee
<1>8. vault' = [vault EXCEPT ![id] = v]
  <2>1. vault[id][acct] - (share + fee + (left - fee)) = 0
    BY <1>2, <1>3, <1>4 DEF left
  <2> QED
    BY <1>1, <1>7, <2>1 DEF Pay, TypeOK
<1>9. paid' = [paid EXCEPT ![id] = p]
  BY <1>1, <1>2, <1>3, <1>4, <1>7 DEF Pay, NoPayments, TypeOK
<1>10. Settlement(id, signers, v, p)
  BY <1>7, <1>8, <1>9 DEF Settlement, Pay
<1>11. p.employee = share
  OBVIOUS
<1> HIDE DEF p, v
<1> QED
  BY <1>5, <1>6, <1>10, <1>11

\* release_sol and release_token.
LEMMA ReleaseKeeps ==
    ASSUME IInv, NEW id \in EscrowIds, NEW signer \in Wallets,
           NEW acct \in VaultAccounts, Named(id, acct),
           Release(id, acct, signer), UNCHANGED <<config, now>>
    PROVE  IInv'
<1> DEFINE m == escrow[id].token_mint
           amount == escrow[id].amount
           rest == vault[id][acct] - amount
           v == [vault[id] EXCEPT ![acct] = 0]
           p == [employee |-> amount, employer |-> 0, treasury |-> rest]
           e == [escrow[id] EXCEPT !.released_to_employee = amount,
                                   !.status = "Released",
                                   !.release_initiator = signer]
<1>1. TypeOK /\ IdOK(id) /\ escrow[id].status \in Active
  BY DEF IInv, Release, Active
<1>2. /\ m \in VaultAccounts /\ amount \in Nat /\ escrow[id].commission_amount \in Nat
      /\ RemainingWorkerAmount(escrow[id]) = amount
      /\ vault[id][acct] \in Nat
      /\ vault[id][m] >= amount + escrow[id].commission_amount
      /\ paid[id] = NoPayments
      /\ escrow[id] \in EscrowRecord /\ vault[id] \in [VaultAccounts -> Nat]
      /\ acct = m \/ m \in Mints
  BY <1>1, LiveFacts, FieldTypes, AccountTypes, NamedAccount DEF Vault
<1>3. e \in EscrowRecord
  <2>1. "Released" \in Statuses /\ signer \in Keys
    BY KeyTypes DEF Statuses
  <2> QED
    BY <1>2, <2>1, Zenon DEF EscrowRecord
<1>4. rest \in Nat /\ Pay(id, acct, {signer}, amount, rest, 0)
  BY <1>2 DEF Release
<1>5. p \in Payments /\ v \in [VaultAccounts -> Nat] /\ {signer} \in SUBSET Keys
  BY <1>2, <1>4, KeyTypes DEF Payments
<1>6. Settlement(id, {signer}, v, p)
  <2>1. vault[id][acct] - (amount + rest + 0) = 0
    BY <1>2
  <2>2. vault' = [vault EXCEPT ![id] = v]
    BY <1>1, <1>4, <2>1 DEF Pay, TypeOK
  <2>3. paid' = [paid EXCEPT ![id] = p]
    <3> HIDE DEF rest
    <3>1. paid' = [paid EXCEPT ![id] = [ employee |-> paid[id].employee + amount,
                                         employer |-> paid[id].employer + 0,
                                         treasury |-> paid[id].treasury + rest ]]
      BY <1>1, <1>4 DEF Pay, TypeOK
    <3>2. /\ paid[id].employee + amount = amount /\ paid[id].employer + 0 = 0
          /\ paid[id].treasury + rest = rest
      BY <1>2, <1>4 DEF NoPayments
    <3> QED
      BY <3>1, <3>2
  <2> QED
    BY <1>4, <2>2, <2>3 DEF Settlement, Pay
<1>7. escrow' = [escrow EXCEPT ![id] = e]
  BY <1>1 DEF Release, TypeOK
<1>8. /\ e.status = "Released" /\ e.amount = amount /\ e.token_mint = m
      /\ e.commission_amount = escrow[id].commission_amount
      /\ e.employer = escrow[id].employer /\ e.employee = escrow[id].employee
      /\ e.platform_authority = escrow[id].platform_authority
      /\ e.employer_confirmed = escrow[id].employer_confirmed
  BY <1>2, Zenon DEF EscrowRecord
<1>9. Distinct(e)
  BY <1>1, <1>8 DEF IdOK, AccountOK, Distinct, Active
<1>10. /\ p.employee = amount /\ p.employer = 0
       /\ \/ p.treasury >= escrow[id].commission_amount
          \/ m \in Mints /\ v[m] >= amount + escrow[id].commission_amount
  BY <1>2
<1>11. ReleaseAuthorized(escrow[id], signer)
  BY DEF Release
<1> HIDE DEF e, p, v
<1>12. PaidAsRecorded(e, p, v[e.token_mint])
  BY <1>8, <1>10 DEF PaidAsRecorded, WorkerPaid, RestPaid, DepositKept, TotalDeposit
<1>13. NoClawback(e, p, {signer}) /\ Mediated(e, p)
  BY <1>2, <1>8, <1>10 DEF NoClawback, Mediated
<1>14. PayoutJustified(e, p, {signer})
  BY <1>8, <1>11 DEF PayoutJustified, ReleaseAuthorized
<1>15. e.status \in Terminal
  BY <1>8 DEF Terminal
<1> QED
  BY <1>3, <1>5, <1>6, <1>7, <1>9, <1>12, <1>13, <1>14, <1>15, SettlementKeeps

\* resolve_dispute_sol and resolve_dispute_token.
LEMMA ResolveDisputeKeeps ==
    ASSUME IInv, NEW id \in EscrowIds, NEW signer \in Wallets, NEW share \in Nat,
           NEW acct \in VaultAccounts, Named(id, acct),
           ResolveDispute(id, acct, signer, share), UNCHANGED <<config, now>>
    PROVE  IInv'
<1> DEFINE amount == escrow[id].amount
           e == [escrow[id] EXCEPT !.released_to_employee = @ + share,
                                   !.status = "Resolved",
                                   !.dispute_resolved_by = signer,
                                   !.dispute_resolved_at = now,
                                   !.employee_share_resolved = share,
                                   !.employer_share_resolved =
                                       RemainingWorkerAmount(escrow[id]) - share]
<1>1. TypeOK /\ IdOK(id) /\ escrow[id].status \in Active
  BY DEF IInv, ResolveDispute, Active
<1>2. /\ amount \in Nat /\ RemainingWorkerAmount(escrow[id]) = amount
      /\ escrow[id].released_to_employee = 0
      /\ escrow[id] \in EscrowRecord /\ now \in Nat
      /\ share <= amount /\ amount - share \in Nat
  BY <1>1, LiveFacts, FieldTypes DEF ResolveDispute
<1>3. PICK p \in Payments, v \in [VaultAccounts -> Nat] :
         /\ Settlement(id, {signer}, v, p)
         /\ p.employee = share
         /\ Accounted(escrow[id], p, v[escrow[id].token_mint], share)
  BY <1>1, <1>2, SplitPays DEF ResolveDispute
<1>4. e \in EscrowRecord
  <2>1. /\ "Resolved" \in Statuses /\ signer \in Keys
        /\ escrow[id].released_to_employee + share \in Nat
    BY <1>2, KeyTypes DEF Statuses
  <2> QED
    BY <1>2, <2>1, Zenon DEF EscrowRecord
<1>5. escrow' = [escrow EXCEPT ![id] = e]
  BY <1>1 DEF ResolveDispute, TypeOK
<1>6. /\ e.status = "Resolved" /\ e.amount = amount
      /\ e.token_mint = escrow[id].token_mint
      /\ e.commission_amount = escrow[id].commission_amount
      /\ e.released_to_employee = escrow[id].released_to_employee + share
      /\ e.employee_share_resolved = share
      /\ e.employer_share_resolved = RemainingWorkerAmount(escrow[id]) - share
      /\ e.employer = escrow[id].employer /\ e.employee = escrow[id].employee
      /\ e.platform_authority = signer /\ e.dispute_resolved_by = signer
  BY <1>2, Zenon DEF EscrowRecord, ResolveDispute
<1>7. Distinct(e)
  BY <1>1, <1>6 DEF IdOK, AccountOK, Distinct, Active, ResolveDispute
<1> HIDE DEF e
<1>8. PaidAsRecorded(e, p, v[e.token_mint])
  BY <1>2, <1>3, <1>6
  DEF PaidAsRecorded, WorkerPaid, RestPaid, DepositKept, TotalDeposit, Accounted
<1>9. NoClawback(e, p, {signer}) /\ PayoutJustified(e, p, {signer}) /\ Mediated(e, p)
  BY <1>6 DEF NoClawback, PayoutJustified, Mediated
<1>10. e.status \in Terminal /\ {signer} \in SUBSET Keys
  BY <1>6, KeyTypes DEF Terminal
<1> QED
  BY <1>3, <1>4, <1>5, <1>7, <1>8, <1>9, <1>10, SettlementKeeps

\* mutual_cancel_sol and mutual_cancel_token: nobody disputed, both signed.
LEMMA MutualCancelKeeps ==
    ASSUME IInv, NEW id \in EscrowIds, NEW signers \in SUBSET Keys, NEW share \in Nat,
           NEW acct \in VaultAccounts, Named(id, acct),
           MutualCancel(id, acct, signers, share), UNCHANGED <<config, now>>
    PROVE  IInv'
<1> DEFINE amount == escrow[id].amount
           e == [escrow[id] EXCEPT !.released_to_employee = @ + share,
                                   !.status = "Resolved",
                                   !.employee_share_resolved = share,
                                   !.employer_share_resolved =
                                       RemainingWorkerAmount(escrow[id]) - share]
<1>1. /\ TypeOK /\ IdOK(id) /\ escrow[id].status \in Active
      /\ escrow[id].status \in {"Funded", "PendingRelease"}
  BY DEF IInv, MutualCancel, Active
<1>2. /\ amount \in Nat /\ RemainingWorkerAmount(escrow[id]) = amount
      /\ escrow[id].released_to_employee = 0
      /\ escrow[id] \in EscrowRecord
      /\ share <= amount /\ amount - share \in Nat
  BY <1>1, LiveFacts, FieldTypes DEF MutualCancel
<1>3. PICK p \in Payments, v \in [VaultAccounts -> Nat] :
         /\ Settlement(id, signers, v, p)
         /\ p.employee = share
         /\ Accounted(escrow[id], p, v[escrow[id].token_mint], share)
  BY <1>1, <1>2, SplitPays DEF MutualCancel
<1>4. e \in EscrowRecord
  <2>1. /\ "Resolved" \in Statuses
        /\ escrow[id].released_to_employee + share \in Nat
        /\ RemainingWorkerAmount(escrow[id]) - share \in Nat
    BY <1>2 DEF Statuses
  <2> QED
    BY <1>2, <2>1, Zenon DEF EscrowRecord
<1>5. escrow' = [escrow EXCEPT ![id] = e]
  BY <1>1 DEF MutualCancel, TypeOK
<1>6. /\ e.status = "Resolved" /\ e.amount = amount
      /\ e.token_mint = escrow[id].token_mint
      /\ e.commission_amount = escrow[id].commission_amount
      /\ e.released_to_employee = escrow[id].released_to_employee + share
      /\ e.employee_share_resolved = share
      /\ e.employer_share_resolved = RemainingWorkerAmount(escrow[id]) - share
      /\ e.employer = escrow[id].employer /\ e.employee = escrow[id].employee
      /\ e.platform_authority = escrow[id].platform_authority
      /\ e.dispute_raised_at = escrow[id].dispute_raised_at
  BY <1>2, Zenon DEF EscrowRecord
<1>7. Distinct(e) /\ e.dispute_raised_at = 0
  BY <1>1, <1>6 DEF IdOK, AccountOK, Distinct, DisputeTimed
<1>8. {e.employer, e.employee} \subseteq signers
  BY <1>6 DEF MutualCancel, BothSigned
<1> HIDE DEF e
<1>9. PaidAsRecorded(e, p, v[e.token_mint])
  BY <1>2, <1>3, <1>6
  DEF PaidAsRecorded, WorkerPaid, RestPaid, DepositKept, TotalDeposit, Accounted
<1>10. NoClawback(e, p, signers) /\ PayoutJustified(e, p, signers) /\ Mediated(e, p)
  BY <1>7, <1>8 DEF NoClawback, PayoutJustified, Mediated
<1>11. e.status \in Terminal
  BY <1>6 DEF Terminal
<1> QED
  BY <1>3, <1>4, <1>5, <1>7, <1>9, <1>10, <1>11, SettlementKeeps

\* trigger_auto_release_sol and trigger_auto_release_token: whoever calls.
LEMMA TriggerAutoReleaseKeeps ==
    ASSUME IInv, NEW id \in EscrowIds, NEW caller \in Wallets,
           NEW acct \in VaultAccounts, Named(id, acct),
           TriggerAutoRelease(id, acct, caller), UNCHANGED <<config, now>>
    PROVE  IInv'
<1> DEFINE amount == escrow[id].amount
           e == [escrow[id] EXCEPT !.released_to_employee = amount,
                                   !.status = "Resolved",
                                   !.dispute_resolved_by = caller,
                                   !.dispute_resolved_at = now,
                                   !.employee_share_resolved =
                                       RemainingWorkerAmount(escrow[id]),
                                   !.employer_share_resolved = 0]
<1>1. /\ TypeOK /\ IdOK(id) /\ escrow[id].status \in Active
      /\ escrow[id].status = "Disputed"
  BY DEF IInv, TriggerAutoRelease, Active
<1>2. /\ amount \in Nat /\ RemainingWorkerAmount(escrow[id]) = amount
      /\ escrow[id] \in EscrowRecord /\ now \in Nat
      /\ escrow[id].dispute_deadline \in Nat /\ escrow[id].dispute_raised_at \in Nat
      /\ MinDisputeWindow \in Nat
  BY <1>1, LiveFacts, FieldTypes
<1>3. PICK p \in Payments, v \in [VaultAccounts -> Nat] :
         /\ Settlement(id, {caller}, v, p)
         /\ p.employee = amount
         /\ Accounted(escrow[id], p, v[escrow[id].token_mint], amount)
  <2>1. PaySplit(id, acct, {caller}, amount)
    BY <1>2 DEF TriggerAutoRelease
  <2> QED
    BY <1>1, <1>2, <2>1, SplitPays
<1>4. e \in EscrowRecord
  <2>1. "Resolved" \in Statuses /\ caller \in Keys /\ 0 \in Nat
    BY KeyTypes DEF Statuses
  <2> QED
    BY <1>2, <2>1, Zenon DEF EscrowRecord
<1>5. escrow' = [escrow EXCEPT ![id] = e]
  BY <1>1 DEF TriggerAutoRelease, TypeOK
<1>6. /\ e.status = "Resolved" /\ e.amount = amount
      /\ e.token_mint = escrow[id].token_mint
      /\ e.commission_amount = escrow[id].commission_amount
      /\ e.released_to_employee = amount
      /\ e.employee_share_resolved = RemainingWorkerAmount(escrow[id])
      /\ e.employer_share_resolved = 0
      /\ e.employer = escrow[id].employer /\ e.employee = escrow[id].employee
      /\ e.platform_authority = escrow[id].platform_authority
      /\ e.dispute_resolved_at = now
      /\ e.dispute_raised_at = escrow[id].dispute_raised_at
      /\ e.dispute_deadline = escrow[id].dispute_deadline
  BY <1>2, Zenon DEF EscrowRecord
<1>7. Distinct(e)
  BY <1>1, <1>6 DEF IdOK, AccountOK, Distinct
<1>8. /\ now >= e.dispute_deadline /\ e.dispute_raised_at # 0
      /\ e.dispute_deadline >= e.dispute_raised_at + MinDisputeWindow
  BY <1>1, <1>6 DEF TriggerAutoRelease, DeadlinePassed, IdOK, AccountOK, DisputeTimed
<1> HIDE DEF e
<1>9. PaidAsRecorded(e, p, v[e.token_mint])
  <2>1. p.employer \in Nat
    BY DEF Payments
  <2> QED
    BY <1>2, <1>3, <1>6, <2>1
    DEF PaidAsRecorded, WorkerPaid, RestPaid, DepositKept, TotalDeposit, Accounted
<1>10. NoClawback(e, p, {caller}) /\ PayoutJustified(e, p, {caller})
  BY <1>2, <1>3, <1>6, <1>8 DEF NoClawback, PayoutJustified
<1>11. Mediated(e, p)
  BY <1>2, <1>3, <1>6, <1>8 DEF Mediated
<1>12. e.status \in Terminal /\ {caller} \in SUBSET Keys
  BY <1>6, KeyTypes DEF Terminal
<1> QED
  BY <1>3, <1>4, <1>5, <1>7, <1>9, <1>10, <1>11, <1>12, SettlementKeeps

\* cancel_escrow_sol and cancel_escrow_token, before or after funding.
LEMMA CancelEscrowKeeps ==
    ASSUME IInv, NEW id \in EscrowIds, NEW signer \in Wallets,
           NEW acct \in VaultAccounts, Named(id, acct),
           CancelEscrow(id, acct, signer), UNCHANGED <<config, now>>
    PROVE  IInv'
<1> DEFINE e == [escrow[id] EXCEPT !.status = "Cancelled", !.cancelled_by = signer]
<1>1. TypeOK /\ IdOK(id) /\ escrow[id].status \in {"Created", "Funded"}
  BY DEF IInv, CancelEscrow, MayCancel
<1>2. /\ escrow[id].status \in {"Created"} \cup Active
      /\ escrow[id].amount \in Nat /\ escrow[id] \in EscrowRecord
  BY <1>1, LiveFacts, FieldTypes DEF Active
<1>3. PICK p \in Payments, v \in [VaultAccounts -> Nat] :
         /\ Settlement(id, {signer}, v, p)
         /\ p.employee = 0
         /\ escrow[id].status \in Active =>
               Accounted(escrow[id], p, v[escrow[id].token_mint], 0)
  BY <1>1, <1>2, SplitPays DEF CancelEscrow
<1>4. e \in EscrowRecord
  <2>1. "Cancelled" \in Statuses /\ signer \in Keys
    BY KeyTypes DEF Statuses
  <2> QED
    BY <1>2, <2>1, Zenon DEF EscrowRecord
<1>5. escrow' = [escrow EXCEPT ![id] = e]
  BY <1>1 DEF CancelEscrow, TypeOK
<1>6. /\ e.status = "Cancelled" /\ e.amount = escrow[id].amount
      /\ e.token_mint = escrow[id].token_mint
      /\ e.commission_amount = escrow[id].commission_amount
      /\ e.funded_at = escrow[id].funded_at
      /\ e.employer = escrow[id].employer /\ e.employee = escrow[id].employee
      /\ e.platform_authority = escrow[id].platform_authority
  BY <1>2, Zenon DEF EscrowRecord
<1>7. Distinct(e)
  BY <1>1, <1>6 DEF IdOK, AccountOK, Distinct
<1>8. Settled(e) => escrow[id].status = "Funded" /\ signer = escrow[id].platform_authority
  <2>1. escrow[id].status = "Created" => e.funded_at = 0
    BY <1>1, <1>6 DEF IdOK, AccountOK, Untouched
  <2> QED
    BY <1>1, <2>1 DEF Settled, CancelEscrow, MayCancel
<1> HIDE DEF e
<1>9. Settled(e) => PaidAsRecorded(e, p, v[e.token_mint])
  BY <1>2, <1>3, <1>6, <1>8
  DEF PaidAsRecorded, WorkerPaid, RestPaid, DepositKept, TotalDeposit, Accounted, Active
<1>10. NoClawback(e, p, {signer}) /\ PayoutJustified(e, p, {signer}) /\ Mediated(e, p)
  BY <1>6, <1>8 DEF NoClawback, PayoutJustified, Mediated
<1>11. e.status \in Terminal /\ {signer} \in SUBSET Keys
  BY <1>6, KeyTypes DEF Terminal
<1> QED
  BY <1>3, <1>4, <1>5, <1>7, <1>9, <1>10, <1>11, SettlementKeeps

-----------------------------------------------------------------------------
(* Closing, outsiders, the Config account and the clock. *)

LEMMA BlankOK ==
    /\ BlankEscrow \in EscrowRecord /\ NoPayments \in Payments
    /\ BlankEscrow.status = "Absent" /\ AccountOK(BlankEscrow, NoPayments, {})
<1>1. BlankEscrow \in EscrowRecord
  <2>1. /\ "Absent" \in Statuses /\ Nobody \in Keys /\ Nobody \in Assets \cup {Nobody}
        /\ 0 \in Nat /\ FALSE \in BOOLEAN
    BY KeyTypes DEF Statuses
  <2> QED
    BY <2>1, Zenon DEF EscrowRecord, BlankEscrow
<1>2. BlankEscrow.status = "Absent"
  BY DEF BlankEscrow
<1>3. NoPayments \in Payments
  BY DEF NoPayments, Payments
<1> QED
  BY <1>1, <1>2, <1>3
  DEF AccountOK, Untouched, DisputeTimed, Distinct, Settled, NoClawback,
      PayoutJustified, Mediated, Active, Terminal

\* close_escrow_sol, close_escrow_token and close_unfunded_escrow_token: the
\* address returns to its first state whatever stays in the vault.
LEMMA CloseKeeps ==
    ASSUME IInv, NEW id \in EscrowIds, NEW v \in [VaultAccounts -> Nat],
           CloseAccount(id), vault' = [vault EXCEPT ![id] = v],
           ata' \in SUBSET (EscrowIds \X TokenAccounts),
           \A x \in EscrowIds \ {id} : \A m : <<x, m>> \in ata => <<x, m>> \in ata',
           UNCHANGED <<config, now>>
    PROVE  IInv'
<1>1. Step(id, BlankEscrow, v, NoPayments, {})
  BY DEF Step, CloseAccount
<1>2. BlankEscrow.status \notin Active /\ ~Settled(BlankEscrow)
  BY BlankOK DEF Active, Settled, Terminal
<1> QED
  BY <1>1, <1>2, BlankOK, StepKeepsOthers

LEMMA SweepVault ==
    ASSUME IInv, NEW id \in EscrowIds, NEW acct
    PROVE  /\ vault[id] \in [VaultAccounts -> Nat]
           /\ vault = [vault EXCEPT ![id] = vault[id]]
           /\ [vault[id] EXCEPT ![acct] = 0] \in [VaultAccounts -> Nat]
           /\ [vault EXCEPT ![id][acct] = 0]
              = [vault EXCEPT ![id] = [vault[id] EXCEPT ![acct] = 0]]
BY DEF IInv, TypeOK

\* Transfers and token accounts from outside only ever add to a vault.
LEMMA OutsidersKeep ==
    ASSUME IInv, NEW id \in EscrowIds, Outsiders(id), UNCHANGED <<config, now>>
    PROVE  IInv'
<1>1. TypeOK /\ IdOK(id) /\ escrow[id] \in EscrowRecord
  BY FieldTypes DEF IInv
<1>2. ASSUME NEW acct \in TokenAccounts, CreateVaultTokenAccount(id, acct)
      PROVE  IInv'
  <2>1. Step(id, escrow[id], vault[id], paid[id], settledBy[id])
    BY <1>1, <1>2 DEF Step, CreateVaultTokenAccount, TypeOK
  <2>2. ata \subseteq ata'
    BY <1>2 DEF CreateVaultTokenAccount
  <2> QED
    BY <1>1, <2>1, <2>2, FieldTypes, StepKeepsOthers
    DEF IdOK, Solvent, IsNative, VaultTokenAccountExists, Vault
<1>3. ASSUME NEW acct \in VaultAccounts, NEW dust \in DustAmounts,
             SendDust(id, acct, dust)
      PROVE  IInv'
  <2> DEFINE v == [vault[id] EXCEPT ![acct] = @ + dust]
             m == escrow[id].token_mint
  <2>1. dust \in Nat /\ vault[id] \in [VaultAccounts -> Nat]
    BY <1>1, EscrowAssumption, FieldTypes
  <2>2. /\ v \in [VaultAccounts -> Nat]
        /\ \A a \in VaultAccounts : v[a] \in Nat /\ v[a] >= vault[id][a]
    BY <2>1
  <2>3. Step(id, escrow[id], v, paid[id], settledBy[id])
    BY <1>1, <1>3 DEF Step, SendDust, TypeOK
  <2>4. ata' = ata
    BY <1>3 DEF SendDust
  <2> HIDE DEF v
  <2>5. escrow[id].status \in Active =>
          /\ m = SOL \/ <<id, m>> \in ata'
          /\ v[m] >= RemainingWorkerAmount(escrow[id]) + RemainingCommission(escrow[id])
    <3> SUFFICES ASSUME escrow[id].status \in Active
                 PROVE  /\ m = SOL \/ <<id, m>> \in ata'
                        /\ v[m] >= RemainingWorkerAmount(escrow[id])
                                   + RemainingCommission(escrow[id])
      OBVIOUS
    <3>1. /\ m \in VaultAccounts /\ escrow[id].amount \in Nat
          /\ escrow[id].commission_amount \in Nat
          /\ RemainingWorkerAmount(escrow[id]) = escrow[id].amount
          /\ RemainingCommission(escrow[id]) = escrow[id].commission_amount
          /\ vault[id][m] \in Nat
          /\ vault[id][m] >= escrow[id].amount + escrow[id].commission_amount
      BY LiveFacts, AccountTypes DEF Vault
    <3> QED
      BY <1>1, <2>2, <2>4, <3>1 DEF IdOK, Solvent, IsNative, VaultTokenAccountExists
  <2>6. Settled(escrow[id]) => PaidAsRecorded(escrow[id], paid[id], v[m])
    <3>1. Settled(escrow[id]) => PaidAsRecorded(escrow[id], paid[id], vault[id][m])
      BY <1>1 DEF IdOK, Vault
    <3>2. ASSUME DepositKept(escrow[id], vault[id][m])
          PROVE  DepositKept(escrow[id], v[m])
      <4>1. /\ m \in VaultAccounts /\ escrow[id].amount \in Nat
            /\ escrow[id].commission_amount \in Nat
        BY <1>1, <3>2, FieldTypes, AccountTypes DEF DepositKept, Assets
      <4> QED
        BY <2>1, <2>2, <3>2, <4>1 DEF DepositKept, TotalDeposit
    <3> QED
      BY <3>1, <3>2 DEF PaidAsRecorded
  <2> QED
    BY <1>1, <2>2, <2>3, <2>5, <2>6, FieldTypes, StepKeepsOthers DEF IdOK
<1> QED
  BY <1>2, <1>3 DEF Outsiders

\* The admin's actions write the Config account only; no escrow reads it again
\* after create_escrow took its snapshot.
LEMMA ConfigKeeps ==
    ASSUME IInv, ConfigNext, UNCHANGED <<now, custody>>
    PROVE  IInv'
<1>1. TypeOK /\ ConfigTypeOK
  BY DEF IInv, TypeOK
<1>2. ConfigTypeOK'
  BY <1>1, ConfigNextTypeOK
<1>3. TypeOK'
  BY <1>1, <1>2 DEF TypeOK, custody
<1>4. \A id \in EscrowIds : IdOK(id)'
  BY DEF IInv, IdOK, Solvent, IsNative, VaultTokenAccountExists, Vault, custody
<1> QED
  BY <1>3, <1>4 DEF IInv

LEMMA TickKeeps ==
    ASSUME IInv, Tick
    PROVE  IInv'
<1>1. TypeOK'
  BY DEF IInv, TypeOK, ConfigTypeOK, ConfigExists, Tick, custody
<1>2. \A id \in EscrowIds : IdOK(id)'
  BY DEF IInv, IdOK, Solvent, IsNative, VaultTokenAccountExists, Vault, Tick, custody
<1> QED
  BY <1>1, <1>2 DEF IInv

\* Every transaction signed by one wallet keeps the invariant.
LEMMA ProceedsKeeps ==
    ASSUME IInv, NEW id \in EscrowIds, NEW signer \in Wallets, Proceeds(signer, id),
           UNCHANGED <<config, now>>
    PROVE  IInv'
<1>1. /\ Platforms \cup {Nobody} \subseteq Keys
      /\ 0..MaxTime \subseteq Nat
  BY EscrowAssumption, KeyTypes
<1>2. /\ ata \in SUBSET (EscrowIds \X TokenAccounts)
      /\ escrow[id].token_mint \in Assets \cup {Nobody}
  BY DEF IInv, TypeOK, EscrowRecord
<1>3. CASE \E employee \in Users, mint \in Assets, amount \in Amounts, rate \in Rates :
              signer \in Users /\ CreateEscrow(id, signer, employee, mint, amount, rate)
  BY <1>3, CreateEscrowKeeps
<1>4. CASE DepositSol(id, signer)
  BY <1>2, <1>4, DepositKeeps DEF DepositSol, IsNative
<1>5. CASE DepositToken(id, signer)
  <2>1. escrow[id].token_mint \in Assets
    BY <1>5 DEF DepositToken, Deposit, IInv, IdOK, AccountOK, Untouched
  <2>2. ata' \in SUBSET (EscrowIds \X TokenAccounts)
    BY <1>2, <1>5, <2>1 DEF DepositToken, IsNative, Assets, TokenAccounts
  <2> QED
    BY <1>5, <2>2, DepositKeeps DEF DepositToken
<1>6. CASE ConfirmCompletion(id, signer)
  BY <1>6, ConfirmCompletionKeeps
<1>7. CASE \E deadline \in 0..MaxTime : RaiseDispute(id, signer, deadline)
  BY <1>1, <1>7, RaiseDisputeKeeps
<1>8. CASE \E new \in Platforms \cup {Nobody} : UpdatePlatformAuthority(id, signer, new)
  BY <1>1, <1>8, UpdatePlatformAuthorityKeeps
<1>9. CASE CloseUnfundedEscrowToken(id, signer)
  BY <1>2, <1>9, SweepVault, CloseKeeps DEF CloseUnfundedEscrowToken
<1> QED
  BY <1>3, <1>4, <1>5, <1>6, <1>7, <1>8, <1>9 DEF Proceeds

LEMMA SettlesKeeps ==
    ASSUME IInv, NEW id \in EscrowIds, NEW signer \in Wallets,
           NEW acct \in VaultAccounts, Settles(signer, id, acct),
           UNCHANGED <<config, now>>
    PROVE  IInv'
<1>1. Shares \subseteq Nat
  BY EscrowAssumption
<1>2. CASE ReleaseSol(id, acct, signer) \/ ReleaseToken(id, acct, signer)
  BY <1>2, ReleaseKeeps DEF ReleaseSol, ReleaseToken, Named
<1>3. CASE \E share \in Shares : \/ ResolveDisputeSol(id, acct, signer, share)
                                 \/ ResolveDisputeToken(id, acct, signer, share)
  BY <1>1, <1>3, ResolveDisputeKeeps
  DEF ResolveDisputeSol, ResolveDisputeToken, Named
<1>4. CASE \/ TriggerAutoReleaseSol(id, acct, signer)
           \/ TriggerAutoReleaseToken(id, acct, signer)
  BY <1>4, TriggerAutoReleaseKeeps
  DEF TriggerAutoReleaseSol, TriggerAutoReleaseToken, Named
<1>5. CASE CancelEscrowSol(id, acct, signer) \/ CancelEscrowToken(id, acct, signer)
  BY <1>5, CancelEscrowKeeps DEF CancelEscrowSol, CancelEscrowToken, Named
<1> QED
  BY <1>2, <1>3, <1>4, <1>5 DEF Settles

LEMMA ClosesKeeps ==
    ASSUME IInv, NEW id \in EscrowIds, NEW signer \in Wallets, Closes(signer, id),
           UNCHANGED <<config, now>>
    PROVE  IInv'
<1>1. ata \in SUBSET (EscrowIds \X TokenAccounts)
  BY DEF IInv, TypeOK
<1>2. CASE CloseEscrowSol(id, signer)
  BY <1>1, <1>2, SweepVault, CloseKeeps DEF CloseEscrowSol, SweepAndClose
<1>3. ASSUME NEW acct \in TokenAccounts, CloseEscrowToken(id, acct, signer)
      PROVE  IInv'
  BY <1>1, <1>3, SweepVault, CloseKeeps DEF CloseEscrowToken, SweepAndClose
<1> QED
  BY <1>2, <1>3 DEF Closes

LEMMA InitIInv == Init => IInv
<1> SUFFICES ASSUME Init PROVE IInv
  OBVIOUS
<1>1. ConfigTypeOK
  BY NoConfigTypeOK DEF Init
<1>2. TypeOK
  BY <1>1, BlankOK DEF Init, TypeOK, EmptyVaults
<1>3. ASSUME NEW id \in EscrowIds
      PROVE  IdOK(id)
  BY <1>3, BlankOK DEF Init, IdOK, Solvent, Active, Settled, Terminal
<1> QED
  BY <1>2, <1>3 DEF IInv

LEMMA NextIInv == IInv /\ [Next]_vars => IInv'
<1> SUFFICES ASSUME IInv, [Next]_vars PROVE IInv'
  OBVIOUS
<1>1. CASE ConfigNext /\ UNCHANGED <<now, custody>>
  BY <1>1, ConfigKeeps
<1>2. ASSUME NEW id \in EscrowIds, EscrowStep(id), UNCHANGED <<config, now>>
      PROVE  IInv'
  <2>1. CASE \E signer \in Wallets : SignedBy(signer, id)
    BY <1>2, <2>1, ProceedsKeeps, SettlesKeeps, ClosesKeeps DEF SignedBy
  <2>2. CASE CoSigned(id)
    <3>1. PICK acct \in VaultAccounts, share \in Shares,
               signers \in SUBSET {escrow[id].employer, escrow[id].employee} :
             Named(id, acct) /\ MutualCancel(id, acct, signers, share)
      BY <2>2 DEF CoSigned, MutualCancelSol, MutualCancelToken, Named
    <3>2. signers \in SUBSET Keys /\ share \in Nat
      BY EscrowAssumption, FieldTypes DEF IInv
    <3> QED
      BY <1>2, <3>1, <3>2, MutualCancelKeeps
  <2>3. CASE Outsiders(id)
    BY <1>2, <2>3, OutsidersKeep
  <2> QED
    BY <1>2, <2>1, <2>2, <2>3 DEF EscrowStep
<1>3. CASE Tick
  BY <1>3, TickKeeps
<1>4. CASE UNCHANGED vars
  <2>1. TypeOK'
    BY <1>4 DEF IInv, TypeOK, ConfigTypeOK, ConfigExists, vars
  <2>2. \A id \in EscrowIds : IdOK(id)'
    BY <1>4 DEF IInv, IdOK, Solvent, IsNative, VaultTokenAccountExists, Vault, vars
  <2> QED
    BY <2>1, <2>2 DEF IInv
<1> QED
  BY <1>1, <1>2, <1>3, <1>4 DEF Next

-----------------------------------------------------------------------------

\* The invariant of the engine: everything below is a part of it.
THEOREM Invariance == Spec => []IInv
BY InitIInv, NextIInv, PTL DEF Spec

\* Accounts, balances and histories keep their types; no vault goes negative.
THEOREM TypeCorrect == Spec => []TypeOK
<1>1. IInv => TypeOK
  BY DEF IInv
<1> QED
  BY <1>1, Invariance, PTL

\* A funded vault always covers what its escrow still has to pay, so no
\* settlement can fail for want of money.
THEOREM VaultsSolvent == Spec => []Solvency
<1>1. IInv => Solvency
  BY DEF IInv, IdOK, Solvency
<1> QED
  BY <1>1, Invariance, PTL

\* Every settlement paid the worker what the account records; and treasury and
\* employer as well, unless it drew on another token account than the one that
\* was funded, which then still holds the whole deposit.
THEOREM SettlementsExact == Spec => []SettlementExact
<1>1. IInv => SettlementExact
  BY DEF IInv, IdOK, SettlementExact
<1> QED
  BY <1>1, Invariance, PTL

\* Pay is taken from a worker only by the platform or by both parties together.
THEOREM WorkersProtected == Spec => []NoUnilateralClawback
<1>1. IInv => NoUnilateralClawback
  BY DEF IInv, IdOK, AccountOK, NoUnilateralClawback
<1> QED
  BY <1>1, Invariance, PTL

\* An employer pays only on its own word, the platform's, or a lapsed dispute.
THEOREM EmployersProtected == Spec => []NoUnilateralPayout
<1>1. IInv => NoUnilateralPayout
  BY DEF IInv, IdOK, AccountOK, NoUnilateralPayout
<1> QED
  BY <1>1, Invariance, PTL

\* The platform has its mediation window in every dispute.
THEOREM PlatformHasWindow == Spec => []MediationWindow
<1>1. IInv => MediationWindow
  BY DEF IInv, IdOK, AccountOK, MediationWindow
<1> QED
  BY <1>1, Invariance, PTL

\* No party of an escrow is ever its arbiter.
THEOREM NobodyArbitratesOwnDeal == Spec => []PartiesDistinct
<1>1. IInv => PartiesDistinct
  BY DEF IInv, IdOK, AccountOK, PartiesDistinct
<1> QED
  BY <1>1, Invariance, PTL
=============================================================================
