-------------------------- MODULE EscrowStepProofs --------------------------
(***************************************************************************)
(* What no transaction on the milestone engine ever does, proved for every *)
(* instance: each action property holds of every step that starts in a     *)
(* state of the inductive invariant IInv, and each step of the engine is a *)
(* step of Custody or leaves the agreed deals as they were.                *)
(***************************************************************************)
EXTENDS EscrowProofs

\* The three action properties, of one id.
Drained(id) ==
    /\ escrow[id].status \notin Terminal
    /\ escrow'[id].status \in Terminal
    => \E acct \in VaultAccounts :
          /\ AssetOf(acct) = escrow[id].token_mint
          /\ vault'[id] = [vault[id] EXCEPT ![acct] = 0]

Frozen(id) ==
    escrow[id].status = "Disputed" =>
        \/ /\ escrow'[id] = escrow[id]
           /\ \A acct \in VaultAccounts : vault'[id][acct] >= vault[id][acct]
        \/ /\ escrow'[id].status = "Resolved"
           /\ \/ escrow'[id].dispute_resolved_by = escrow[id].platform_authority
              \/ now >= escrow[id].dispute_deadline

NoInflow(id) ==
    config.paused =>
        (escrow'[id].status \in {"Created", "Funded"} =>
            escrow[id].status = escrow'[id].status)

Guarded(id) == Drained(id) /\ Frozen(id) /\ NoInflow(id)

\* A step that leaves an account alone and takes nothing from its vaults.
LEMMA UntouchedGuarded ==
    ASSUME IInv, NEW id \in EscrowIds, escrow'[id] = escrow[id],
           \A acct \in VaultAccounts : vault'[id][acct] >= vault[id][acct]
    PROVE  Guarded(id)
BY DEF Guarded, Drained, Frozen, NoInflow

\* The balances are numbers.
LEMMA BalanceTypes ==
    ASSUME IInv
    PROVE  /\ escrow \in [EscrowIds -> EscrowRecord]
           /\ vault \in [EscrowIds -> [VaultAccounts -> Nat]]
           /\ paid \in [EscrowIds -> Payments]
           /\ ata \in SUBSET (EscrowIds \X TokenAccounts)
           /\ \A id \in EscrowIds, acct \in VaultAccounts : vault[id][acct] \in Nat
BY DEF IInv, TypeOK

\* Every transaction, and everything outsiders do, concerns one id.
LEMMA OthersUntouched ==
    ASSUME IInv, NEW x \in EscrowIds, EscrowStep(x), NEW id \in EscrowIds, id # x
    PROVE  escrow'[id] = escrow[id] /\ vault'[id] = vault[id] /\ paid'[id] = paid[id]
<1>1. /\ escrow \in [EscrowIds -> EscrowRecord]
      /\ vault \in [EscrowIds -> [VaultAccounts -> Nat]]
      /\ paid \in [EscrowIds -> Payments]
  BY BalanceTypes
<1> DEFINE Alone == /\ escrow'[id] = escrow[id] /\ vault'[id] = vault[id]
                    /\ paid'[id] = paid[id]
<1>2. ASSUME NEW signer \in Wallets, Proceeds(signer, x) PROVE Alone
  <2>1. CASE \E employee \in Users, mint \in Assets, amount \in Amounts, rate \in Rates :
                CreateEscrow(x, signer, employee, mint, amount, rate)
    BY <1>1, <2>1 DEF CreateEscrow
  <2>2. CASE Deposit(x, signer)
    BY <1>1, <2>2 DEF Deposit
  <2>3. CASE ConfirmCompletion(x, signer)
    BY <1>1, <2>3 DEF ConfirmCompletion
  <2>4. CASE \E deadline \in 0..MaxTime : RaiseDispute(x, signer, deadline)
    BY <1>1, <2>4 DEF RaiseDispute
  <2>5. CASE \E new \in Platforms \cup {Nobody} : UpdatePlatformAuthority(x, signer, new)
    BY <1>1, <2>5 DEF UpdatePlatformAuthority
  <2>6. CASE CloseUnfundedEscrowToken(x, signer)
    BY <1>1, <2>6 DEF CloseUnfundedEscrowToken, CloseAccount
  <2> QED
    BY <1>2, <2>1, <2>2, <2>3, <2>4, <2>5, <2>6 DEF Proceeds, DepositSol, DepositToken
<1>3. ASSUME NEW signer \in Wallets, NEW acct \in VaultAccounts, Settles(signer, x, acct)
      PROVE  Alone
  <2>1. CASE Release(x, acct, signer)
    BY <1>1, <2>1 DEF Release, Pay
  <2>2. CASE \E share \in Shares : ResolveDispute(x, acct, signer, share)
    BY <1>1, <2>2 DEF ResolveDispute, PaySplit, Pay
  <2>3. CASE TriggerAutoRelease(x, acct, signer)
    BY <1>1, <2>3 DEF TriggerAutoRelease, PaySplit, Pay
  <2>4. CASE CancelEscrow(x, acct, signer)
    BY <1>1, <2>4 DEF CancelEscrow, PaySplit, Pay
  <2> QED
    BY <1>3, <2>1, <2>2, <2>3, <2>4
    DEF Settles, ReleaseSol, ReleaseToken, ResolveDisputeSol, ResolveDisputeToken,
        TriggerAutoReleaseSol, TriggerAutoReleaseToken, CancelEscrowSol,
        CancelEscrowToken
<1>4. ASSUME NEW signer \in Wallets, Closes(signer, x) PROVE Alone
  BY <1>1, <1>4 DEF Closes, CloseEscrowSol, CloseEscrowToken, SweepAndClose, CloseAccount
<1>5. ASSUME CoSigned(x) PROVE Alone
  <2>1. PICK acct \in VaultAccounts, share \in Shares,
             signers \in SUBSET {escrow[x].employer, escrow[x].employee} :
           MutualCancel(x, acct, signers, share)
    BY <1>5 DEF CoSigned, MutualCancelSol, MutualCancelToken
  <2> QED
    BY <1>1, <2>1 DEF MutualCancel, PaySplit, Pay
<1>6. ASSUME Outsiders(x) PROVE Alone
  BY <1>1, <1>6 DEF Outsiders, CreateVaultTokenAccount, SendDust
<1> QED
  BY <1>2, <1>3, <1>4, <1>5, <1>6 DEF EscrowStep, SignedBy

\* A settlement pays out one account, which has the asset of the escrow, to the
\* last unit, and touches no other.
PaysOut(id, acct) ==
    /\ AssetOf(acct) = escrow[id].token_mint
    /\ acct = escrow[id].token_mint \/ escrow[id].token_mint \in Mints
    /\ vault'[id] = [vault[id] EXCEPT ![acct] = 0]
    /\ paid'[id].employee + paid'[id].employer + paid'[id].treasury = vault[id][acct]

\* What Pay does when the three amounts add up to the balance.
LEMMA PayEmpties ==
    ASSUME IInv, NEW id \in EscrowIds, escrow[id].status \in {"Created"} \cup Active,
           NEW acct \in VaultAccounts, Named(id, acct), NEW signers,
           NEW w \in Nat, NEW t \in Nat, NEW r \in Nat,
           w + t + r = vault[id][acct], Pay(id, acct, signers, w, t, r)
    PROVE  PaysOut(id, acct)
<1>1. /\ vault \in [EscrowIds -> [VaultAccounts -> Nat]]
      /\ paid \in [EscrowIds -> Payments]
      /\ vault[id][acct] \in Nat /\ paid[id] = NoPayments
      /\ AssetOf(acct) = escrow[id].token_mint
      /\ acct = escrow[id].token_mint \/ escrow[id].token_mint \in Mints
  BY BalanceTypes, LiveFacts, NamedAccount
<1>2. vault'[id] = [vault[id] EXCEPT ![acct] = 0]
  <2>1. vault[id][acct] - (w + t + r) = 0
    BY <1>1
  <2>2. vault' = [vault EXCEPT ![id][acct] = vault[id][acct] - (w + t + r)]
    BY <1>1 DEF Pay
  <2> QED
    BY <1>1, <2>1, <2>2
<1>3. paid'[id] = [ employee |-> paid[id].employee + w,
                    employer |-> paid[id].employer + r,
                    treasury |-> paid[id].treasury + t ]
  BY <1>1 DEF Pay
<1>4. paid'[id].employee = w /\ paid'[id].employer = r /\ paid'[id].treasury = t
  BY <1>1, <1>3 DEF NoPayments
<1> QED
  BY <1>1, <1>2, <1>4 DEF PaysOut

\* A split hands out everything, whatever the share and the dust.
LEMMA SplitEmpties ==
    ASSUME IInv, NEW id \in EscrowIds, escrow[id].status \in {"Created"} \cup Active,
           NEW acct \in VaultAccounts, Named(id, acct),
           NEW signers, NEW share \in Nat, PaySplit(id, acct, signers, share)
    PROVE  PaysOut(id, acct)
<1> DEFINE balance == vault[id][acct]
           left == balance - share
           fee == Least(RemainingCommission(escrow[id]), left)
<1>1. balance \in Nat /\ share <= balance /\ left \in Nat
  BY BalanceTypes DEF PaySplit
<1>2. RemainingCommission(escrow[id]) \in Nat
  BY LiveFacts
<1>3. fee \in Nat /\ fee <= left
  BY <1>1, <1>2, LeastNat
<1>4. left - fee \in Nat /\ share + fee + (left - fee) = balance
  <2>1. left = balance - share
    OBVIOUS
  <2> HIDE DEF left, fee
  <2> QED
    BY <1>1, <1>3, <2>1
<1>5. Pay(id, acct, signers, share, fee, left - fee)
  BY DEF PaySplit
<1> QED
  BY <1>3, <1>4, <1>5, PayEmpties

\* A release too: what the worker does not get goes to the treasury.
LEMMA ReleaseEmpties ==
    ASSUME IInv, NEW id \in EscrowIds, NEW acct \in VaultAccounts, Named(id, acct),
           NEW signer, Release(id, acct, signer)
    PROVE  PaysOut(id, acct)
<1> DEFINE worker == RemainingWorkerAmount(escrow[id])
           rest == vault[id][acct] - worker
<1>1. escrow[id].status \in {"Created"} \cup Active
  BY DEF Release, Active
<1>2. worker \in Nat /\ vault[id][acct] \in Nat /\ worker <= vault[id][acct]
  BY <1>1, LiveFacts, BalanceTypes DEF Release
<1>3. rest \in Nat /\ worker + rest + 0 = vault[id][acct]
  BY <1>2
<1>4. Pay(id, acct, {signer}, worker, rest, 0)
  BY DEF Release
<1> QED
  BY <1>1, <1>2, <1>3, <1>4, PayEmpties

-----------------------------------------------------------------------------
(* The three ways a transaction can keep to the rules. *)

\* It neither starts from a dispute nor settles, and is no inflow.
LEMMA QuietGuarded ==
    ASSUME NEW id \in EscrowIds,
           escrow[id].status # "Disputed", escrow'[id].status \notin Terminal,
           \/ ~config.paused
           \/ escrow'[id].status = escrow[id].status
           \/ escrow'[id].status \notin {"Created", "Funded"}
    PROVE  Guarded(id)
BY DEF Guarded, Drained, Frozen, NoInflow

\* It settles, empties one account, and was entitled to end a dispute.
LEMMA SettlingGuarded ==
    ASSUME NEW id \in EscrowIds, escrow'[id].status \in Terminal,
           NEW acct \in VaultAccounts, PaysOut(id, acct), Frozen(id)
    PROVE  Guarded(id)
BY DEF Guarded, Drained, NoInflow, Terminal, PaysOut

\* The amounts a settlement may split off are numbers.
LEMMA ShareTypes == Shares \subseteq Nat
BY EscrowAssumption

\* The rules hold of every transaction one wallet signs.
LEMMA ProceedsGuarded ==
    ASSUME IInv, NEW id \in EscrowIds, NEW signer \in Wallets, Proceeds(signer, id)
    PROVE  Guarded(id)
<1>1. escrow \in [EscrowIds -> EscrowRecord]
  BY BalanceTypes
<1>2. CASE \E employee \in Users, mint \in Assets, amount \in Amounts, rate \in Rates :
              CreateEscrow(id, signer, employee, mint, amount, rate)
  <2>1. /\ ~config.paused /\ escrow[id].status # "Disputed"
        /\ escrow'[id].status = "Created"
    BY <1>1, <1>2 DEF CreateEscrow, NewMoneyAllowed, BlankEscrow
  <2> QED
    BY <2>1, QuietGuarded DEF Terminal
<1>3. CASE Deposit(id, signer)
  <2>1. /\ ~config.paused /\ escrow[id].status # "Disputed"
        /\ escrow'[id].status = "Funded"
    BY <1>1, <1>3 DEF Deposit, NewMoneyAllowed, EscrowRecord
  <2> QED
    BY <2>1, QuietGuarded DEF Terminal
<1>4. CASE ConfirmCompletion(id, signer)
  <2>1. escrow[id].status # "Disputed" /\ escrow'[id].status = "PendingRelease"
    BY <1>1, <1>4 DEF ConfirmCompletion, Confirmable, EscrowRecord
  <2> QED
    BY <2>1, QuietGuarded DEF Terminal
<1>5. CASE \E deadline \in 0..MaxTime : RaiseDispute(id, signer, deadline)
  <2>1. escrow[id].status # "Disputed" /\ escrow'[id].status = "Disputed"
    BY <1>1, <1>5 DEF RaiseDispute, MayDispute, EscrowRecord
  <2> QED
    BY <2>1, QuietGuarded DEF Terminal
<1>6. CASE \E new \in Platforms \cup {Nobody} : UpdatePlatformAuthority(id, signer, new)
  <2>1. /\ escrow[id].status \notin Terminal \cup {"Disputed"}
        /\ escrow'[id].status = escrow[id].status
    BY <1>1, <1>6 DEF UpdatePlatformAuthority, Rotatable, EscrowRecord
  <2> QED
    BY <2>1, QuietGuarded
<1>7. CASE CloseUnfundedEscrowToken(id, signer)
  <2>1. escrow[id].status # "Disputed" /\ escrow'[id].status = "Absent"
    BY <1>1, <1>7 DEF CloseUnfundedEscrowToken, CloseAccount, BlankEscrow
  <2> QED
    BY <2>1, QuietGuarded DEF Terminal
<1> QED
  BY <1>2, <1>3, <1>4, <1>5, <1>6, <1>7 DEF Proceeds, DepositSol, DepositToken

\* Whichever vault account the signer names.
LEMMA SettlesGuarded ==
    ASSUME IInv, NEW id \in EscrowIds, NEW signer \in Wallets,
           NEW acct \in VaultAccounts, Settles(signer, id, acct)
    PROVE  Guarded(id)
<1>1. escrow \in [EscrowIds -> EscrowRecord]
  BY BalanceTypes
<1>2. ASSUME Release(id, acct, signer), Named(id, acct) PROVE Guarded(id)
  <2>1. escrow[id].status # "Disputed" /\ escrow'[id].status = "Released"
    BY <1>1, <1>2 DEF Release, EscrowRecord
  <2> QED
    BY <1>2, <2>1, ReleaseEmpties, SettlingGuarded DEF Frozen, Terminal
<1>3. ASSUME NEW share \in Shares, ResolveDispute(id, acct, signer, share), Named(id, acct)
      PROVE  Guarded(id)
  <2>1. escrow'[id].status = "Resolved"
    BY <1>1, <1>3 DEF ResolveDispute, EscrowRecord
  <2>2. escrow'[id].dispute_resolved_by = escrow[id].platform_authority
    BY <1>1, <1>3 DEF ResolveDispute, EscrowRecord
  <2>3. PaysOut(id, acct)
    BY <1>3, ShareTypes, SplitEmpties DEF ResolveDispute, Active
  <2> QED
    BY <2>1, <2>2, <2>3, SettlingGuarded DEF Frozen, Terminal
<1>4. ASSUME TriggerAutoRelease(id, acct, signer), Named(id, acct) PROVE Guarded(id)
  <2>1. escrow'[id].status = "Resolved" /\ now >= escrow[id].dispute_deadline
    BY <1>1, <1>4 DEF TriggerAutoRelease, DeadlinePassed, EscrowRecord
  <2>2. escrow[id].status \in {"Created"} \cup Active
    BY <1>4 DEF TriggerAutoRelease, Active
  <2>3. RemainingWorkerAmount(escrow[id]) \in Nat
    BY <2>2, LiveFacts
  <2>4. PaysOut(id, acct)
    BY <1>4, <2>2, <2>3, SplitEmpties DEF TriggerAutoRelease
  <2> QED
    BY <2>1, <2>4, SettlingGuarded DEF Frozen, Terminal
<1>5. ASSUME CancelEscrow(id, acct, signer), Named(id, acct) PROVE Guarded(id)
  <2>1. escrow[id].status \in {"Created", "Funded"} /\ escrow'[id].status = "Cancelled"
    BY <1>1, <1>5 DEF CancelEscrow, MayCancel, EscrowRecord
  <2>2. PaysOut(id, acct)
    BY <1>5, <2>1, SplitEmpties DEF CancelEscrow, Active
  <2> QED
    BY <2>1, <2>2, SettlingGuarded DEF Frozen, Terminal
<1> QED
  BY <1>2, <1>3, <1>4, <1>5
  DEF Settles, Named, ReleaseSol, ReleaseToken, ResolveDisputeSol, ResolveDisputeToken,
      TriggerAutoReleaseSol, TriggerAutoReleaseToken, CancelEscrowSol, CancelEscrowToken

LEMMA ClosesGuarded ==
    ASSUME IInv, NEW id \in EscrowIds, NEW signer \in Wallets, Closes(signer, id)
    PROVE  Guarded(id)
<1>1. MayClose(id, signer) /\ CloseAccount(id)
  BY DEF Closes, CloseEscrowSol, CloseEscrowToken, SweepAndClose
<1>2. escrow[id].status # "Disputed" /\ escrow'[id].status = "Absent"
  BY <1>1, BalanceTypes DEF MayClose, CloseAccount, BlankEscrow, Terminal
<1> QED
  BY <1>2, QuietGuarded DEF Terminal

\* They hold of a mutual cancellation, which cannot start from a dispute.
LEMMA CoSignedGuarded ==
    ASSUME IInv, NEW id \in EscrowIds, CoSigned(id)
    PROVE  Guarded(id)
<1>1. PICK acct \in VaultAccounts, share \in Shares,
           signers \in SUBSET {escrow[id].employer, escrow[id].employee} :
         MutualCancel(id, acct, signers, share) /\ Named(id, acct)
  BY DEF CoSigned, MutualCancelSol, MutualCancelToken, Named
<1>2. escrow[id].status \in {"Funded", "PendingRelease"} /\ escrow'[id].status = "Resolved"
  BY <1>1, BalanceTypes DEF MutualCancel, EscrowRecord
<1>3. PaysOut(id, acct)
  BY <1>1, <1>2, ShareTypes, SplitEmpties DEF MutualCancel, Active
<1> QED
  BY <1>2, <1>3, SettlingGuarded DEF Frozen, Terminal

\* Outsiders can only add to a vault.
LEMMA OutsidersAdd ==
    ASSUME IInv, NEW id \in EscrowIds, Outsiders(id)
    PROVE  /\ escrow' = escrow /\ paid' = paid /\ ata \subseteq ata'
           /\ \A acct \in VaultAccounts :
                 vault'[id][acct] \in Nat /\ vault'[id][acct] >= vault[id][acct]
<1>1. CASE \E acct \in TokenAccounts : CreateVaultTokenAccount(id, acct)
  BY <1>1, BalanceTypes DEF CreateVaultTokenAccount
<1>2. CASE \E acct \in VaultAccounts, dust \in DustAmounts : SendDust(id, acct, dust)
  <2>1. PICK acct \in VaultAccounts, dust \in DustAmounts : SendDust(id, acct, dust)
    BY <1>2
  <2>2. vault'[id] = [vault[id] EXCEPT ![acct] = @ + dust]
    BY <2>1, BalanceTypes DEF SendDust
  <2>3. dust \in Nat
    BY EscrowAssumption
  <2> QED
    BY <2>1, <2>2, <2>3, BalanceTypes DEF SendDust
<1> QED
  BY <1>1, <1>2 DEF Outsiders

LEMMA OutsidersGuarded ==
    ASSUME IInv, NEW id \in EscrowIds, Outsiders(id)
    PROVE  Guarded(id)
BY OutsidersAdd, UntouchedGuarded

\* No step of the engine breaks the rules for any id.
LEMMA NextGuarded ==
    ASSUME IInv, Next, NEW id \in EscrowIds
    PROVE  Guarded(id)
<1>1. \A acct \in VaultAccounts : vault[id][acct] >= vault[id][acct]
  BY BalanceTypes
<1>2. CASE UNCHANGED custody
  BY <1>1, <1>2, UntouchedGuarded DEF custody
<1>3. ASSUME NEW x \in EscrowIds, EscrowStep(x) PROVE Guarded(id)
  <2>1. CASE x = id
    BY <1>3, <2>1, ProceedsGuarded, SettlesGuarded, ClosesGuarded, CoSignedGuarded,
       OutsidersGuarded DEF EscrowStep, SignedBy
  <2>2. CASE x # id
    <3>1. escrow'[id] = escrow[id] /\ vault'[id] = vault[id]
      BY <1>3, <2>2, OthersUntouched
    <3> QED
      BY <1>1, <3>1, UntouchedGuarded
  <2> QED
    BY <2>1, <2>2
<1> QED
  BY <1>2, <1>3 DEF Next, Tick

-----------------------------------------------------------------------------

\* Every settlement leaves exactly nothing in the account it was given, dust
\* included, and takes nothing from any other account of the escrow.
THEOREM SettlementsDrainVaults == Spec => VaultDrained
<1>1. IInv /\ [Next]_vars =>
          [\A id \in EscrowIds :
              /\ escrow[id].status \notin Terminal
              /\ escrow'[id].status \in Terminal
              => \E acct \in VaultAccounts :
                    /\ AssetOf(acct) = escrow[id].token_mint
                    /\ vault'[id] = [vault[id] EXCEPT ![acct] = 0]]_vars
  BY NextGuarded DEF Guarded, Drained
<1> QED
  BY <1>1, Invariance, PTL DEF Spec, VaultDrained

\* A disputed escrow stays as it is until the platform key rules or its
\* deadline is over.
THEOREM DisputesAreFrozen == Spec => DisputeFreezes
<1>1. IInv /\ [Next]_vars =>
          [\A id \in EscrowIds : escrow[id].status = "Disputed" =>
              \/ /\ escrow'[id] = escrow[id]
                 /\ \A acct \in VaultAccounts : vault'[id][acct] >= vault[id][acct]
              \/ /\ escrow'[id].status = "Resolved"
                 /\ \/ escrow'[id].dispute_resolved_by = escrow[id].platform_authority
                    \/ now >= escrow[id].dispute_deadline]_vars
  BY NextGuarded DEF Guarded, Frozen
<1> QED
  BY <1>1, Invariance, PTL DEF Spec, DisputeFreezes

\* A paused program takes no new money.
THEOREM PausedTakesNothingIn == Spec => PauseStopsInflow
<1>1. IInv /\ [Next]_vars =>
          [config.paused =>
              \A id \in EscrowIds : escrow'[id].status \in {"Created", "Funded"} =>
                  escrow[id].status = escrow'[id].status]_vars
  BY NextGuarded DEF Guarded, NoInflow
<1> QED
  BY <1>1, Invariance, PTL DEF Spec, PauseStopsInflow
-----------------------------------------------------------------------------
(***************************************************************************)
(* The exits stay open: SInv is inductive.                                 *)
(***************************************************************************)

SettlementKept(id) ==
    SettledVaultKept(id, escrow[id], ata) /\ DisputeBounded(escrow[id])

\* The token accounts of other ids stay: only close_escrow_token closes one, of
\* its own escrow.
LEMMA OtherAtasStay ==
    ASSUME NEW x \in EscrowIds, EscrowStep(x), NEW id \in EscrowIds, id # x, NEW acct,
           <<id, acct>> \in ata
    PROVE  <<id, acct>> \in ata'
<1>1. ASSUME NEW signer \in Wallets, Proceeds(signer, x)
      PROVE  <<id, acct>> \in ata'
  BY <1>1
  DEF Proceeds, CreateEscrow, DepositSol, DepositToken, ConfirmCompletion,
      RaiseDispute, UpdatePlatformAuthority, CloseUnfundedEscrowToken
<1>2. ASSUME NEW signer \in Wallets, NEW named \in VaultAccounts,
             Settles(signer, x, named)
      PROVE  <<id, acct>> \in ata'
  BY <1>2
  DEF Settles, ReleaseSol, ReleaseToken, Release, ResolveDisputeSol,
      ResolveDisputeToken, ResolveDispute, TriggerAutoReleaseSol,
      TriggerAutoReleaseToken, TriggerAutoRelease, CancelEscrowSol,
      CancelEscrowToken, CancelEscrow, PaySplit, Pay
<1>3. ASSUME NEW signer \in Wallets, Closes(signer, x)
      PROVE  <<id, acct>> \in ata'
  BY <1>3 DEF Closes, CloseEscrowSol, CloseEscrowToken
<1>4. ASSUME CoSigned(x) PROVE <<id, acct>> \in ata'
  BY <1>4 DEF CoSigned, MutualCancelSol, MutualCancelToken, MutualCancel, PaySplit, Pay
<1>5. ASSUME Outsiders(x) PROVE <<id, acct>> \in ata'
  BY <1>5 DEF Outsiders, CreateVaultTokenAccount, SendDust
<1> QED
  BY <1>1, <1>2, <1>3, <1>4, <1>5 DEF EscrowStep, SignedBy

\* A settlement closes no account, so the one that was funded is still there.
LEMMA SettlingKeepsVault ==
    ASSUME IInv, NEW id \in EscrowIds, escrow[id].status \in {"Created"} \cup Active,
           UNCHANGED ata, escrow'[id].token_mint = escrow[id].token_mint,
           escrow'[id].funded_at = escrow[id].funded_at,
           escrow'[id].status \in Terminal
    PROVE  SettlementKept(id)'
<1>1. Untouched(escrow[id], paid[id]) /\ Solvent(id)
  BY DEF IInv, IdOK, AccountOK
<1>2. Settled(escrow'[id]) => escrow[id].status \in Active
  BY <1>1 DEF Settled, Untouched
<1> QED
  BY <1>1, <1>2
  DEF SettlementKept, SettledVaultKept, DisputeBounded, Solvent, IsNative,
      VaultTokenAccountExists, Terminal

\* A transaction after which the account is neither settled nor disputed.
LEMMA RunningKept ==
    ASSUME NEW id \in EscrowIds, escrow'[id].status \notin Terminal \cup {"Disputed"}
    PROVE  SettlementKept(id)'
BY DEF SettlementKept, SettledVaultKept, DisputeBounded, Settled

\* raise_dispute sets the deadline and the time it is counted from at once.
LEMMA RaiseDisputeBounded ==
    ASSUME IInv, NEW id \in EscrowIds, NEW signer, NEW deadline \in 0..MaxTime,
           RaiseDispute(id, signer, deadline)
    PROVE  SettlementKept(id)'
<1>1. /\ escrow \in [EscrowIds -> EscrowRecord] /\ now \in Nat
      /\ MaxDisputeWindow \in Nat /\ deadline \in Nat
  BY EscrowAssumption DEF IInv, TypeOK
<1>2. /\ escrow'[id].status = "Disputed"
      /\ escrow'[id].dispute_raised_at = now
      /\ escrow'[id].dispute_deadline = deadline
      /\ deadline - now <= MaxDisputeWindow
  BY <1>1 DEF RaiseDispute, DeadlineAllowed, EscrowRecord
<1>3. deadline <= now + MaxDisputeWindow
  BY <1>1, <1>2
<1> QED
  BY <1>2, <1>3 DEF SettlementKept, SettledVaultKept, DisputeBounded, Settled, Terminal

LEMMA ProceedsKeepsExits ==
    ASSUME IInv, NEW id \in EscrowIds, NEW signer \in Wallets, Proceeds(signer, id)
    PROVE  SettlementKept(id)'
<1>1. escrow \in [EscrowIds -> EscrowRecord]
  BY DEF IInv, TypeOK
<1>2. CASE \E employee \in Users, mint \in Assets, amount \in Amounts, rate \in Rates :
              CreateEscrow(id, signer, employee, mint, amount, rate)
  <2>1. escrow'[id].status = "Created"
    BY <1>1, <1>2 DEF CreateEscrow, BlankEscrow
  <2> QED
    BY <2>1, RunningKept DEF Terminal
<1>3. CASE DepositSol(id, signer) \/ DepositToken(id, signer)
  <2>1. escrow'[id].status = "Funded"
    BY <1>1, <1>3 DEF DepositSol, DepositToken, Deposit, EscrowRecord
  <2> QED
    BY <2>1, RunningKept DEF Terminal
<1>4. CASE ConfirmCompletion(id, signer)
  <2>1. escrow'[id].status = "PendingRelease"
    BY <1>1, <1>4 DEF ConfirmCompletion, EscrowRecord
  <2> QED
    BY <2>1, RunningKept DEF Terminal
<1>5. CASE \E deadline \in 0..MaxTime : RaiseDispute(id, signer, deadline)
  BY <1>5, RaiseDisputeBounded
<1>6. CASE \E new \in Platforms \cup {Nobody} : UpdatePlatformAuthority(id, signer, new)
  <2>1. escrow'[id].status \notin Terminal \cup {"Disputed"}
    BY <1>1, <1>6 DEF UpdatePlatformAuthority, Rotatable, EscrowRecord
  <2> QED
    BY <2>1, RunningKept
<1>7. CASE CloseUnfundedEscrowToken(id, signer)
  <2>1. escrow'[id].status = "Absent"
    BY <1>1, <1>7 DEF CloseUnfundedEscrowToken, CloseAccount, BlankEscrow
  <2> QED
    BY <2>1, RunningKept DEF Terminal
<1> QED
  BY <1>2, <1>3, <1>4, <1>5, <1>6, <1>7 DEF Proceeds

LEMMA SettlesKeepsExits ==
    ASSUME IInv, NEW id \in EscrowIds, NEW signer \in Wallets,
           NEW acct \in VaultAccounts, Settles(signer, id, acct)
    PROVE  SettlementKept(id)'
<1> DEFINE Ends == /\ escrow[id].status \in {"Created"} \cup Active
                   /\ escrow'[id].status \in Terminal
                   /\ escrow'[id].token_mint = escrow[id].token_mint
                   /\ escrow'[id].funded_at = escrow[id].funded_at
                   /\ UNCHANGED ata
<1>1. escrow \in [EscrowIds -> EscrowRecord]
  BY BalanceTypes
<1>2. ASSUME Release(id, acct, signer) PROVE Ends
  BY <1>1, <1>2 DEF Release, Pay, EscrowRecord, Active, Terminal
<1>3. ASSUME TriggerAutoRelease(id, acct, signer) PROVE Ends
  BY <1>1, <1>3 DEF TriggerAutoRelease, PaySplit, Pay, EscrowRecord, Active, Terminal
<1>4. ASSUME CancelEscrow(id, acct, signer) PROVE Ends
  BY <1>1, <1>4 DEF CancelEscrow, MayCancel, PaySplit, Pay, EscrowRecord, Active, Terminal
<1>5. ASSUME NEW share \in Shares, ResolveDispute(id, acct, signer, share) PROVE Ends
  BY <1>1, <1>5 DEF ResolveDispute, PaySplit, Pay, EscrowRecord, Active, Terminal
<1>6. Ends
  BY <1>2, <1>3, <1>4, <1>5
  DEF Settles, ReleaseSol, ReleaseToken, ResolveDisputeSol, ResolveDisputeToken,
      TriggerAutoReleaseSol, TriggerAutoReleaseToken, CancelEscrowSol, CancelEscrowToken
<1> QED
  BY <1>6, SettlingKeepsVault

LEMMA ClosesKeepsExits ==
    ASSUME IInv, NEW id \in EscrowIds, NEW signer \in Wallets, Closes(signer, id)
    PROVE  SettlementKept(id)'
<1>1. CloseAccount(id)
  BY DEF Closes, CloseEscrowSol, CloseEscrowToken, SweepAndClose
<1>2. escrow'[id].status = "Absent"
  BY <1>1, BalanceTypes DEF CloseAccount, BlankEscrow
<1> QED
  BY <1>2, RunningKept DEF Terminal

LEMMA OtherStepsKeepExits ==
    ASSUME IInv, NEW id \in EscrowIds, SettlementKept(id), CoSigned(id) \/ Outsiders(id)
    PROVE  SettlementKept(id)'
<1>1. escrow \in [EscrowIds -> EscrowRecord]
  BY DEF IInv, TypeOK
<1>2. CASE CoSigned(id)
  <2>1. PICK acct \in VaultAccounts, share \in Shares,
             signers \in SUBSET {escrow[id].employer, escrow[id].employee} :
           MutualCancel(id, acct, signers, share)
    BY <1>2 DEF CoSigned, MutualCancelSol, MutualCancelToken
  <2>2. /\ escrow[id].status \in {"Created"} \cup Active
        /\ escrow'[id].status = "Resolved"
        /\ escrow'[id].token_mint = escrow[id].token_mint
        /\ escrow'[id].funded_at = escrow[id].funded_at
    BY <1>1, <2>1 DEF MutualCancel, EscrowRecord, Active
  <2>3. UNCHANGED ata
    BY <2>1 DEF MutualCancel, PaySplit, Pay
  <2> QED
    BY <2>2, <2>3, SettlingKeepsVault DEF Terminal
<1>3. CASE Outsiders(id)
  <2>1. escrow' = escrow /\ ata \subseteq ata'
    BY <1>3, OutsidersAdd
  <2> QED
    BY <2>1 DEF SettlementKept, SettledVaultKept, DisputeBounded
<1> QED
  BY <1>2, <1>3

LEMMA NextSInv == SInv /\ IInv' /\ [Next]_vars => SInv'
<1> SUFFICES ASSUME SInv, IInv', [Next]_vars, NEW id \in EscrowIds
             PROVE  SettlementKept(id)'
  BY DEF SInv, SettlementKept
<1>1. IInv /\ SettlementKept(id)
  BY DEF SInv, SettlementKept
<1>2. CASE UNCHANGED <<escrow, ata>>
  BY <1>1, <1>2 DEF SettlementKept, SettledVaultKept, DisputeBounded
<1>3. ASSUME NEW x \in EscrowIds, EscrowStep(x) PROVE SettlementKept(id)'
  <2>1. CASE x = id
    BY <1>1, <1>3, <2>1, ProceedsKeepsExits, SettlesKeepsExits, ClosesKeepsExits,
       OtherStepsKeepExits DEF EscrowStep, SignedBy
  <2>2. CASE x # id
    <3>1. escrow'[id] = escrow[id]
      BY <1>1, <1>3, <2>2, OthersUntouched
    <3>2. \A acct : <<id, acct>> \in ata => <<id, acct>> \in ata'
      BY <1>3, <2>2, OtherAtasStay
    <3> QED
      BY <1>1, <3>1, <3>2 DEF SettlementKept, SettledVaultKept, DisputeBounded
  <2> QED
    BY <2>1, <2>2
<1> QED
  BY <1>2, <1>3 DEF Next, vars, custody, Tick

LEMMA InitSInv == Init => SInv
<1>1. Init => IInv
  BY InitIInv
<1> QED
  BY <1>1 DEF Init, SInv, SettledVaultKept, DisputeBounded, Settled, BlankEscrow, Terminal

\* The invariant behind the exits.
THEOREM SettlementInvariance == Spec => []SInv
BY InitSInv, NextSInv, Invariance, PTL DEF Spec

\* Every active escrow can be settled and every settled one closed, and no
\* dispute outlasts the longest window: the vault is there, covers the worker's
\* pay, and the deadline lies between the two bounds of raise_dispute.
THEOREM ExitsOfEscrowsOpen == Spec => []AlwaysSettleable
<1>1. ASSUME SInv, NEW id \in EscrowIds PROVE Settleable(id)
  <2>1. /\ TypeOK /\ Untouched(escrow[id], paid[id]) /\ Solvent(id)
        /\ DisputeTimed(escrow[id]) /\ SettlementKept(id)
    BY <1>1 DEF SInv, IInv, IdOK, AccountOK, SettlementKept
  <2>2. ASSUME escrow[id].status \in Active
        PROVE  /\ IsNative(id) \/ VaultTokenAccountExists(id)
               /\ RemainingWorkerAmount(escrow[id]) \in 1..Vault(id)
    <3>1. /\ RemainingCommission(escrow[id]) \in Nat /\ Vault(id) \in Nat
          /\ RemainingWorkerAmount(escrow[id]) \in Nat
      BY <1>1, <2>2, LiveFacts DEF SInv
    <3>2. RemainingWorkerAmount(escrow[id]) > 0
      BY <2>1, <2>2, FieldTypes DEF Untouched, RemainingWorkerAmount, SaturatingSub
    <3> QED
      BY <2>1, <2>2, <3>1, <3>2 DEF Solvent
  <2>3. ASSUME escrow[id].status = "Disputed"
        PROVE  escrow[id].dispute_deadline \in
                   (escrow[id].dispute_raised_at + MinDisputeWindow)..
                   (escrow[id].dispute_raised_at + MaxDisputeWindow)
    BY <2>1, <2>3, FieldTypes, EscrowAssumption
    DEF DisputeTimed, SettlementKept, DisputeBounded
  <2>4. Settled(escrow[id]) => IsNative(id) \/ VaultTokenAccountExists(id)
    BY <2>1 DEF SettlementKept, SettledVaultKept, IsNative, VaultTokenAccountExists
  <2> QED
    BY <2>2, <2>3, <2>4 DEF Settleable
<1>2. SInv => AlwaysSettleable
  BY <1>1 DEF AlwaysSettleable
<1> QED
  BY <1>2, SettlementInvariance, PTL

\* What DisputesEnd asks of the accounts: once the deadline is over, the transfers
\* and the new account of trigger_auto_release_* are all that a caller needs for
\* that instruction to go through; none of its checks is left to fail.
THEOREM OverdueDisputesCanBeForced ==
    ASSUME SInv, NEW id \in EscrowIds, NEW caller \in Wallets,
           escrow[id].status = "Disputed", now >= escrow[id].dispute_deadline,
           NEW acct, acct = escrow[id].token_mint,
           NEW worker, worker = RemainingWorkerAmount(escrow[id]),
           NEW fee, fee = Least(RemainingCommission(escrow[id]), Vault(id) - worker),
           Pay(id, acct, {caller}, worker, fee, Vault(id) - worker - fee),
           escrow' = [escrow EXCEPT
                         ![id].released_to_employee = escrow[id].amount,
                         ![id].status = "Resolved",
                         ![id].dispute_resolved_by = caller,
                         ![id].dispute_resolved_at = now,
                         ![id].employee_share_resolved = worker,
                         ![id].employer_share_resolved = 0],
           UNCHANGED <<config, now>>
    PROVE  ForceResolve(id)
<1>1. /\ TypeOK /\ Solvent(id) /\ DisputeTimed(escrow[id]) /\ IInv
  BY DEF SInv, IInv, IdOK, AccountOK
<1>2. /\ RemainingCommission(escrow[id]) \in Nat /\ Vault(id) \in Nat
      /\ worker \in Nat /\ acct \in Assets
  BY <1>1, LiveFacts DEF Active
<1>3. /\ worker <= Vault(id) /\ Vault(id) = vault[id][acct]
      /\ acct \in VaultAccounts
      /\ NativeVault(id, acct) \/ TokenVault(id, acct)
  BY <1>1, <1>2, AccountTypes
  DEF Solvent, Active, Vault, NativeVault, TokenVault, IsNative, VaultTokenAccountExists
<1>4. DeadlinePassed(escrow[id])
  <2>1. /\ escrow[id].dispute_raised_at \in Nat /\ escrow[id].dispute_raised_at # 0
        /\ escrow[id].dispute_deadline \in Nat /\ MinDisputeWindow \in Nat
        /\ escrow[id].dispute_deadline >= escrow[id].dispute_raised_at + MinDisputeWindow
    BY <1>1, FieldTypes DEF DisputeTimed
  <2>2. escrow[id].dispute_deadline # 0
    BY <2>1
  <2> QED
    BY <2>2 DEF DeadlinePassed
<1>5. PaySplit(id, acct, {caller}, RemainingWorkerAmount(escrow[id]))
  BY <1>3 DEF PaySplit
<1>6. TriggerAutoRelease(id, acct, caller)
  BY <1>4, <1>5 DEF TriggerAutoRelease
<1> QED
  BY <1>3, <1>6 DEF ForceResolve, TriggerAutoReleaseSol, TriggerAutoReleaseToken

-----------------------------------------------------------------------------
(***************************************************************************)
(* The engine implements Custody: what each transaction on an id does to   *)
(* the deal behind it.  A settlement hands the secured money out fairly    *)
(* because the account it leaves behind records what was paid (IInv of the *)
(* next state) and keeps the price it was created with.                    *)
(***************************************************************************)

SameTerms(id) ==
    /\ escrow'[id].amount = escrow[id].amount
    /\ escrow'[id].commission_amount = escrow[id].commission_amount
    /\ escrow'[id].token_mint = escrow[id].token_mint

\* Outsiders can only add to what is held, once something is.
DealStays(id) ==
    /\ PhaseOf(escrow'[id].status) = PhaseOf(escrow[id].status)
    /\ TermsOf(escrow'[id]) = TermsOf(escrow[id]) /\ paid'[id] = paid[id]
    /\ \/ HeldFor(id)' = HeldFor(id)
       \/ /\ PhaseOf(escrow[id].status) \in {"secured", "settled"}
          /\ HeldFor(id)' >= HeldFor(id)

Agrees(id) ==
    /\ escrow[id].status = "Absent" /\ escrow'[id].status = "Created"
    /\ escrow'[id].amount \in Nat \ {0} /\ escrow'[id].commission_amount \in Nat
    /\ paid'[id] = paid[id]

Secures(id) ==
    /\ escrow[id].status = "Created" /\ escrow'[id].status = "Funded"
    /\ SameTerms(id) /\ paid'[id] = paid[id]
    /\ vault'[id][escrow[id].token_mint] >=
          escrow[id].amount + escrow[id].commission_amount

EndsDeal(id) ==
    /\ escrow[id].status \in Active /\ escrow'[id].status \in Terminal
    /\ SameTerms(id)
    /\ escrow'[id].funded_at = escrow[id].funded_at
    /\ \E acct \in VaultAccounts : PaysOut(id, acct)

Abandons(id) ==
    /\ escrow[id].status = "Created" /\ escrow'[id].status = "Cancelled"
    /\ SameTerms(id)
    /\ escrow'[id].funded_at = 0
    /\ paid'[id].employee = 0

Forgets(id) ==
    /\ escrow[id].status \in Terminal
    /\ escrow'[id] = BlankEscrow /\ paid'[id] = NoPayments

DealStep(id) ==
    \/ DealStays(id) \/ Agrees(id) \/ Secures(id)
    \/ EndsDeal(id) \/ Abandons(id) \/ Forgets(id)

LEMMA Phases ==
    /\ PhaseOf("Absent") = "none" /\ PhaseOf("Created") = "agreed"
    /\ \A status \in Active : PhaseOf(status) = "secured"
    /\ \A status \in Terminal : PhaseOf(status) = "settled"
BY DEF PhaseOf, Active, Terminal

LEMMA SameTermsOf ==
    ASSUME NEW id \in EscrowIds, SameTerms(id),
           escrow'[id].status = "Absent" <=> escrow[id].status = "Absent"
    PROVE  TermsOf(escrow'[id]) = TermsOf(escrow[id])
BY DEF SameTerms, TermsOf

LEMMA NoTermsYet == TermsOf(BlankEscrow) = Abstract!NoTerms
<1>1. /\ BlankEscrow.status = "Absent" /\ BlankEscrow.amount = 0
      /\ BlankEscrow.commission_amount = 0
  BY DEF BlankEscrow
<1>2. (BlankEscrow.status # "Absent" /\ BlankEscrow.token_mint = SOL) = FALSE
  BY <1>1
<1> QED
  BY <1>1, <1>2 DEF TermsOf, Abstract!NoTerms

\* An amendment of the account of a funded escrow.
LEMMA AmendedDeal ==
    ASSUME NEW id \in EscrowIds, escrow[id].status \in Active, escrow'[id].status \in Active,
           SameTerms(id), paid' = paid, vault' = vault
    PROVE  DealStep(id)
<1>1. TermsOf(escrow'[id]) = TermsOf(escrow[id])
  BY SameTermsOf DEF Active
<1>2. HeldFor(id)' = HeldFor(id)
  BY DEF HeldFor, Vault, SameTerms
<1> QED
  BY <1>1, <1>2, Phases DEF DealStep, DealStays

\* A transaction one wallet signs.
LEMMA ProceedsDeal ==
    ASSUME IInv, NEW id \in EscrowIds, NEW signer \in Wallets, Proceeds(signer, id)
    PROVE  DealStep(id)
<1>1. /\ escrow \in [EscrowIds -> EscrowRecord] /\ paid \in [EscrowIds -> Payments]
      /\ vault \in [EscrowIds -> [VaultAccounts -> Nat]]
      /\ Untouched(escrow[id], paid[id])
  BY BalanceTypes DEF IInv, IdOK, AccountOK
<1>2. CASE \E employee \in Users, mint \in Assets, amount \in Amounts, rate \in Rates :
              CreateEscrow(id, signer, employee, mint, amount, rate)
  <2>1. PICK amount \in Amounts, rate \in Rates :
          /\ amount > 0 /\ escrow[id].status = "Absent" /\ paid' = paid
          /\ escrow'[id].status = "Created" /\ escrow'[id].amount = amount
          /\ escrow'[id].commission_amount = CalculateCommission(amount, rate)
    BY <1>1, <1>2 DEF CreateEscrow, BlankEscrow
  <2>2. amount \in Nat /\ CalculateCommission(amount, rate) \in Nat
    BY EscrowAssumption, ConfigAssumption, CommissionNat
  <2> QED
    BY <2>1, <2>2 DEF DealStep, Agrees
<1>3. CASE Deposit(id, signer)
  <2>1. /\ escrow[id].status = "Created" /\ escrow'[id].status = "Funded"
        /\ SameTerms(id) /\ paid'[id] = paid[id]
    BY <1>1, <1>3 DEF Deposit, SameTerms
  <2>2. /\ escrow[id].token_mint \in VaultAccounts /\ Vault(id) \in Nat
        /\ escrow[id].amount \in Nat /\ escrow[id].commission_amount \in Nat
    BY <2>1, LiveFacts, AccountTypes
  <2>3. vault'[id][escrow[id].token_mint] = Vault(id) + TotalDeposit(escrow[id])
    BY <1>1, <1>3, <2>2 DEF Deposit, Vault
  <2> QED
    BY <2>1, <2>2, <2>3 DEF TotalDeposit, DealStep, Secures
<1>4. CASE ConfirmCompletion(id, signer)
  <2>1. \/ escrow' = [escrow EXCEPT ![id].employer_confirmed = TRUE,
                                  ![id].status = "PendingRelease"]
        \/ escrow' = [escrow EXCEPT ![id].employee_confirmed = TRUE,
                                  ![id].status = "PendingRelease"]
    BY <1>4 DEF ConfirmCompletion
  <2>2. escrow'[id].status = "PendingRelease" /\ SameTerms(id)
    BY <1>1, <2>1 DEF EscrowRecord, SameTerms
  <2> QED
    BY <1>4, <2>2, AmendedDeal DEF ConfirmCompletion, Confirmable, Active
<1>5. CASE \E deadline \in 0..MaxTime : RaiseDispute(id, signer, deadline)
  BY <1>1, <1>5, AmendedDeal DEF RaiseDispute, MayDispute, Active, SameTerms
<1>6. CASE \E new \in Platforms \cup {Nobody} : UpdatePlatformAuthority(id, signer, new)
  <2>1. /\ escrow'[id].status = escrow[id].status
        /\ escrow'[id].funded_at = escrow[id].funded_at
        /\ SameTerms(id) /\ paid' = paid /\ vault' = vault
    BY <1>1, <1>6 DEF UpdatePlatformAuthority, SameTerms
  <2>2. HeldFor(id)' = HeldFor(id)
    BY <2>1 DEF HeldFor, Settled, Vault, SameTerms
  <2> QED
    BY <2>1, <2>2, SameTermsOf DEF DealStep, DealStays
<1>7. CASE CloseUnfundedEscrowToken(id, signer)
  BY <1>1, <1>7 DEF CloseUnfundedEscrowToken, MayClose, CloseAccount, DealStep, Forgets
<1> QED
  BY <1>2, <1>3, <1>4, <1>5, <1>6, <1>7 DEF Proceeds, DepositSol, DepositToken

LEMMA SettlesDeal ==
    ASSUME IInv, NEW id \in EscrowIds, NEW signer \in Wallets,
           NEW acct \in VaultAccounts, Settles(signer, id, acct)
    PROVE  DealStep(id)
<1>1. /\ escrow \in [EscrowIds -> EscrowRecord] /\ paid \in [EscrowIds -> Payments]
      /\ Untouched(escrow[id], paid[id])
  BY BalanceTypes DEF IInv, IdOK, AccountOK
<1>2. ASSUME Release(id, acct, signer), Named(id, acct) PROVE DealStep(id)
  <2>1. PaysOut(id, acct)
    BY <1>2, ReleaseEmpties
  <2> QED
    BY <1>1, <1>2, <2>1 DEF Release, DealStep, EndsDeal, SameTerms, Active, Terminal
<1>3. ASSUME NEW share \in Shares, ResolveDispute(id, acct, signer, share), Named(id, acct)
      PROVE  DealStep(id)
  <2>1. PaysOut(id, acct)
    BY <1>3, ShareTypes, SplitEmpties DEF ResolveDispute, Active
  <2> QED
    BY <1>1, <1>3, <2>1
    DEF ResolveDispute, DealStep, EndsDeal, SameTerms, Active, Terminal
<1>4. ASSUME TriggerAutoRelease(id, acct, signer), Named(id, acct) PROVE DealStep(id)
  <2>1. escrow[id].status \in Active
    BY <1>4 DEF TriggerAutoRelease, Active
  <2>2. PaysOut(id, acct)
    BY <1>4, <2>1, LiveFacts, SplitEmpties DEF TriggerAutoRelease
  <2> QED
    BY <1>1, <1>4, <2>1, <2>2
    DEF TriggerAutoRelease, DealStep, EndsDeal, SameTerms, Terminal
<1>5. ASSUME CancelEscrow(id, acct, signer), Named(id, acct) PROVE DealStep(id)
  <2>1. /\ escrow'[id].status = "Cancelled" /\ SameTerms(id)
        /\ escrow'[id].funded_at = escrow[id].funded_at
        /\ escrow[id].status \in {"Created", "Funded"}
    BY <1>1, <1>5 DEF CancelEscrow, MayCancel, SameTerms
  <2>2. paid'[id].employee = paid[id].employee + 0
    BY <1>1, <1>5 DEF CancelEscrow, PaySplit, Pay
  <2>3. CASE escrow[id].status = "Created"
    BY <1>1, <2>1, <2>2, <2>3 DEF Untouched, NoPayments, DealStep, Abandons
  <2>4. CASE escrow[id].status = "Funded"
    <3>1. PaysOut(id, acct)
      BY <1>5, <2>4, SplitEmpties DEF CancelEscrow, Active
    <3> QED
      BY <2>1, <2>4, <3>1 DEF DealStep, EndsDeal, Active, Terminal
  <2> QED
    BY <2>1, <2>3, <2>4
<1> QED
  BY <1>2, <1>3, <1>4, <1>5
  DEF Settles, Named, ReleaseSol, ReleaseToken, ResolveDisputeSol, ResolveDisputeToken,
      TriggerAutoReleaseSol, TriggerAutoReleaseToken, CancelEscrowSol, CancelEscrowToken

LEMMA ClosesDeal ==
    ASSUME IInv, NEW id \in EscrowIds, NEW signer \in Wallets, Closes(signer, id)
    PROVE  DealStep(id)
<1>1. MayClose(id, signer) /\ CloseAccount(id)
  BY DEF Closes, CloseEscrowSol, CloseEscrowToken, SweepAndClose
<1> QED
  BY <1>1, BalanceTypes DEF MayClose, CloseAccount, DealStep, Forgets

\* A transaction both parties sign, and what outsiders do.
LEMMA OtherDeal ==
    ASSUME SInv, NEW id \in EscrowIds, CoSigned(id) \/ Outsiders(id)
    PROVE  DealStep(id)
<1> IInv
  BY DEF SInv
<1>1. CASE CoSigned(id)
  <2>1. PICK acct \in VaultAccounts, share \in Shares,
             signers \in SUBSET {escrow[id].employer, escrow[id].employee} :
           MutualCancel(id, acct, signers, share) /\ Named(id, acct)
    BY <1>1 DEF CoSigned, MutualCancelSol, MutualCancelToken, Named
  <2>2. PaysOut(id, acct)
    BY <2>1, ShareTypes, SplitEmpties DEF MutualCancel, Active
  <2> QED
    BY <2>1, <2>2, BalanceTypes
    DEF MutualCancel, DealStep, EndsDeal, SameTerms, Active, Terminal
<1>2. CASE Outsiders(id)
  <2>1. /\ escrow' = escrow /\ paid' = paid
        /\ \A acct \in VaultAccounts :
              vault'[id][acct] \in Nat /\ vault'[id][acct] >= vault[id][acct]
    BY <1>2, OutsidersAdd
  <2>2. CASE escrow[id].status \in Active \/ Settled(escrow[id])
    <3>1. escrow[id].token_mint \in VaultAccounts
      <4>1. escrow[id].status \in Active => escrow[id].token_mint \in Assets
        BY LiveFacts
      <4>2. /\ Settled(escrow[id]) => \/ escrow[id].token_mint = SOL
                                      \/ <<id, escrow[id].token_mint>> \in ata
            /\ ata \in SUBSET (EscrowIds \X TokenAccounts)
        BY BalanceTypes DEF SInv, SettledVaultKept
      <4> QED
        BY <2>2, <4>1, <4>2, AccountTypes
    <3>2. HeldFor(id)' >= HeldFor(id)
      BY <2>1, <2>2, <3>1 DEF HeldFor, Vault
    <3>3. PhaseOf(escrow[id].status) \in {"secured", "settled"}
      BY <2>2, Phases DEF Settled
    <3> QED
      BY <2>1, <3>2, <3>3 DEF DealStep, DealStays
  <2>3. CASE ~(escrow[id].status \in Active \/ Settled(escrow[id]))
    <3>1. HeldFor(id)' = HeldFor(id)
      BY <2>1, <2>3 DEF HeldFor
    <3> QED
      BY <2>1, <3>1 DEF DealStep, DealStays
  <2> QED
    BY <2>2, <2>3
<1> QED
  BY <1>1, <1>2

\* What a settlement of a funded escrow is to the custodian: money that was held
\* for the deal leaves to the last unit, or none of it does.
LEMMA EndMaps ==
    ASSUME IInv, IInv', NEW id \in EscrowIds, EndsDeal(id)
    PROVE  /\ TermsOf(escrow'[id]) = TermsOf(escrow[id])
           /\ \/ /\ HeldFor(id)' = 0
                 /\ Abstract!FairSplit(TermsOf(escrow[id]), paid'[id])
                 /\ paid'[id].employee + paid'[id].employer + paid'[id].treasury
                    = HeldFor(id)
              \/ /\ HeldFor(id)' = HeldFor(id)
                 /\ ~TermsOf(escrow[id]).bound
                 /\ paid'[id].employee <= TermsOf(escrow[id]).net
<1> DEFINE m == escrow[id].token_mint
<1>1. PICK acct \in VaultAccounts : PaysOut(id, acct)
  BY DEF EndsDeal
<1>2. /\ SameTerms(id) /\ Settled(escrow'[id])
  BY DEF EndsDeal, Settled, IInv, IdOK, AccountOK, Untouched
<1>3. TermsOf(escrow'[id]) = TermsOf(escrow[id])
  BY <1>2, SameTermsOf DEF EndsDeal, Active, Terminal
<1>4. HeldFor(id) = vault[id][m] /\ HeldFor(id)' = vault'[id][m]
  BY <1>2 DEF HeldFor, Vault, SameTerms, EndsDeal
<1>5. /\ vault \in [EscrowIds -> [VaultAccounts -> Nat]] /\ m \in VaultAccounts
      /\ escrow[id].amount \in Nat /\ escrow[id].amount > 0
      /\ escrow[id].commission_amount \in Nat /\ m \in Assets
  BY BalanceTypes, LiveFacts, AccountTypes DEF EndsDeal
<1>6. /\ PaidAsRecorded(escrow'[id], paid'[id], vault'[id][m])
      /\ paid'[id].employee \in Nat /\ paid'[id].employer \in Nat
      /\ escrow'[id].employee_share_resolved \in Nat
      /\ escrow'[id].employer_share_resolved \in Nat
  <2>1. PaidAsRecorded(escrow'[id], paid'[id], vault'[id][m])
    BY <1>2 DEF IInv, IdOK, Vault, SameTerms
  <2>2. paid' \in [EscrowIds -> Payments] /\ escrow' \in [EscrowIds -> EscrowRecord]
    BY DEF IInv, TypeOK
  <2>3. paid'[id] \in Payments /\ escrow'[id] \in EscrowRecord
    BY <2>2
  <2> QED
    BY <2>1, <2>3 DEF Payments, EscrowRecord
<1>7. paid'[id].employee <= escrow[id].amount
  BY <1>2, <1>5, <1>6
  DEF PaidAsRecorded, WorkerPaid, SameTerms, EndsDeal, Terminal
<1>8. /\ TermsOf(escrow[id]).net = escrow[id].amount
      /\ TermsOf(escrow[id]).bound = (escrow[id].status # "Absent" /\ m = SOL)
  BY DEF TermsOf
<1>9. CASE acct = m
  <2>1. vault'[id][m] = 0
    BY <1>1, <1>5, <1>9 DEF PaysOut
  <2>2. RestPaid(escrow'[id], paid'[id])
    BY <1>2, <1>5, <1>6, <2>1
    DEF PaidAsRecorded, DepositKept, TotalDeposit, SameTerms
  <2>3. paid'[id].employer + paid'[id].employee >= escrow[id].amount
    BY <1>2, <1>5, <1>6, <2>2
    DEF PaidAsRecorded, WorkerPaid, RestPaid, SameTerms, EndsDeal, Terminal
  <2> QED
    BY <1>1, <1>3, <1>4, <1>7, <1>8, <1>9, <2>1, <2>3
    DEF PaysOut, Abstract!FairSplit
<1>10. CASE acct # m
  <2>1. vault'[id][m] = vault[id][m]
    BY <1>1, <1>5, <1>10 DEF PaysOut
  <2>2. m # SOL
    BY <1>1, <1>10, ConfigAssumption DEF PaysOut
  <2> QED
    BY <1>3, <1>4, <1>7, <1>8, <2>1, <2>2
<1> QED
  BY <1>9, <1>10

\* What the custodian sees of a step on one id.
LEMMA DealMaps ==
    ASSUME IInv, IInv', NEW id \in EscrowIds, DealStep(id),
           \A x \in EscrowIds \ {id} :
              escrow'[x] = escrow[x] /\ paid'[x] = paid[x] /\ vault'[x] = vault[x]
    PROVE  [Abstract!Next]_(Abstract!custodyVars)
<1> DEFINE phases == [x \in EscrowIds |-> PhaseOf(escrow[x].status)]
           deals  == [x \in EscrowIds |-> TermsOf(escrow[x])]
           money  == [x \in EscrowIds |-> HeldFor(x)]
<1>1. /\ paid \in [EscrowIds -> Payments] /\ paid' \in [EscrowIds -> Payments]
      /\ paid' = [paid EXCEPT ![id] = paid'[id]]
  <2>1. paid \in [EscrowIds -> Payments] /\ paid' \in [EscrowIds -> Payments]
    BY DEF IInv, TypeOK
  <2> QED
    BY <2>1
<1>2. phases' = [phases EXCEPT ![id] = PhaseOf(escrow'[id].status)]
  BY DEF phases
<1>3. deals' = [deals EXCEPT ![id] = TermsOf(escrow'[id])]
  BY DEF deals
<1>4. money' = [money EXCEPT ![id] = HeldFor(id)']
  <2>1. \A x \in EscrowIds \ {id} : HeldFor(x)' = HeldFor(x)
    BY DEF HeldFor, Vault
  <2> QED
    BY <2>1
<1>5. /\ phases[id] = PhaseOf(escrow[id].status) /\ phases'[id] = PhaseOf(escrow'[id].status)
      /\ deals[id] = TermsOf(escrow[id]) /\ deals'[id] = TermsOf(escrow'[id])
      /\ money[id] = HeldFor(id) /\ money'[id] = HeldFor(id)'
  OBVIOUS
<1>6. /\ TermsOf(escrow'[id]) = TermsOf(escrow[id]) => deals' = deals
      /\ HeldFor(id)' = HeldFor(id) => money' = money
      /\ PhaseOf(escrow'[id].status) = PhaseOf(escrow[id].status) => phases' = phases
      /\ paid'[id] = paid[id] => paid' = paid
  <2>1. TermsOf(escrow'[id]) = TermsOf(escrow[id]) => deals' = deals
    BY <1>3
  <2>2. HeldFor(id)' = HeldFor(id) => money' = money
    BY <1>4
  <2>3. PhaseOf(escrow'[id].status) = PhaseOf(escrow[id].status) => phases' = phases
    BY <1>2
  <2>4. paid'[id] = paid[id] => paid' = paid
    BY <1>1
  <2> QED
    BY <2>1, <2>2, <2>3, <2>4
<1> HIDE DEF phases, deals, money
<1>7. CASE DealStays(id)
  <2>1. phases' = phases /\ deals' = deals /\ paid' = paid
    BY <1>6, <1>7 DEF DealStays
  <2>2. CASE HeldFor(id)' = HeldFor(id)
    BY <1>6, <2>1, <2>2 DEF Abstract!custodyVars, phases, deals, money
  <2>3. CASE /\ PhaseOf(escrow[id].status) \in {"secured", "settled"}
             /\ HeldFor(id)' >= HeldFor(id)
    <3>1. Abstract!Donate(id)
      BY <1>4, <1>5, <2>1, <2>3 DEF Abstract!Donate, phases, deals, money
    <3> QED
      BY <3>1 DEF Abstract!Next
  <2> QED
    BY <1>7, <2>2, <2>3 DEF DealStays
<1>8. CASE Agrees(id)
  <2>1. phases[id] = "none" /\ phases' = [phases EXCEPT ![id] = "agreed"]
    BY <1>2, <1>5, <1>8, Phases DEF Agrees
  <2>2. /\ TermsOf(escrow'[id]).net \in Nat \ {0} /\ TermsOf(escrow'[id]).fee \in Nat
    BY <1>8 DEF Agrees, TermsOf
  <2>3. HeldFor(id)' = HeldFor(id) /\ paid' = paid
    BY <1>6, <1>8 DEF Agrees, HeldFor, Active, Settled, Terminal
  <2>4. Abstract!Agree(id)
    BY <1>3, <1>5, <1>6, <2>1, <2>2, <2>3 DEF Abstract!Agree, phases, deals, money
  <2> QED
    BY <2>4 DEF Abstract!Next
<1>9. CASE Secures(id)
  <2>1. phases[id] = "agreed" /\ phases' = [phases EXCEPT ![id] = "secured"]
    BY <1>2, <1>5, <1>9, Phases DEF Secures, Active
  <2>2. TermsOf(escrow'[id]) = TermsOf(escrow[id])
    BY <1>9, SameTermsOf DEF Secures
  <2>3. HeldFor(id)' >= TermsOf(escrow[id]).net + TermsOf(escrow[id]).fee
    BY <1>9 DEF Secures, HeldFor, Active, Vault, SameTerms, TermsOf
  <2>4. Abstract!Secure(id)
    BY <1>4, <1>5, <1>6, <1>9, <2>1, <2>2, <2>3
    DEF Secures, Abstract!Secure, phases, deals, money
  <2> QED
    BY <2>4 DEF Abstract!Next
<1>10. CASE EndsDeal(id)
  <2>1. phases[id] = "secured" /\ phases' = [phases EXCEPT ![id] = "settled"]
    BY <1>2, <1>5, <1>10, Phases DEF EndsDeal
  <2>2. deals' = deals
    BY <1>6, <1>10, EndMaps
  <2>3. CASE /\ HeldFor(id)' = 0
             /\ Abstract!FairSplit(TermsOf(escrow[id]), paid'[id])
             /\ paid'[id].employee + paid'[id].employer + paid'[id].treasury = HeldFor(id)
    <3>1. Abstract!Settle(id)
      BY <1>1, <1>4, <1>5, <2>1, <2>2, <2>3 DEF Abstract!Settle, phases, deals, money
    <3> QED
      BY <3>1 DEF Abstract!Next
  <2>4. CASE /\ HeldFor(id)' = HeldFor(id)
             /\ ~TermsOf(escrow[id]).bound
             /\ paid'[id].employee <= TermsOf(escrow[id]).net
    <3>1. Abstract!SettleAside(id)
      BY <1>1, <1>5, <1>6, <2>1, <2>2, <2>4
      DEF Abstract!SettleAside, phases, deals, money
    <3> QED
      BY <3>1 DEF Abstract!Next
  <2> QED
    BY <1>10, <2>3, <2>4, EndMaps
<1>11. CASE Abandons(id)
  <2>1. phases[id] = "agreed" /\ phases' = [phases EXCEPT ![id] = "settled"]
    BY <1>2, <1>5, <1>11, Phases DEF Abandons, Terminal
  <2>2. deals' = deals
    BY <1>6, <1>11, SameTermsOf DEF Abandons
  <2>3. money' = money
    BY <1>6, <1>11 DEF Abandons, HeldFor, Active, Settled, Terminal
  <2>4. Abstract!Abandon(id)
    BY <1>1, <1>11, <2>1, <2>2, <2>3
    DEF Abandons, Abstract!Abandon, phases, deals, money
  <2> QED
    BY <2>4 DEF Abstract!Next
<1>12. CASE Forgets(id)
  <2>1. escrow'[id].status = "Absent" /\ escrow[id].status \in Terminal
    BY <1>12 DEF Forgets, BlankEscrow
  <2>2. phases[id] = "settled" /\ phases' = [phases EXCEPT ![id] = "none"]
    BY <1>2, <1>5, <2>1, Phases
  <2>3. TermsOf(escrow'[id]) = Abstract!NoTerms
    BY <1>12, NoTermsYet DEF Forgets
  <2>4. HeldFor(id)' = 0
    BY <2>1 DEF HeldFor, Active, Settled, Terminal
  <2>5. paid'[id] = Abstract!Nothing
    BY <1>12 DEF Forgets, NoPayments, Abstract!Nothing
  <2>6. Abstract!Forget(id)
    BY <1>1, <1>3, <1>4, <2>2, <2>3, <2>4, <2>5
    DEF Abstract!Forget, phases, deals, money
  <2> QED
    BY <2>6 DEF Abstract!Next
<1> QED
  BY <1>7, <1>8, <1>9, <1>10, <1>11, <1>12 DEF DealStep

\* Every engine without accounts is a custodian without deals.
LEMMA InitMaps == Init => Abstract!Init
<1> SUFFICES ASSUME Init PROVE Abstract!Init
  OBVIOUS
<1>1. ASSUME NEW id \in EscrowIds
      PROVE  /\ PhaseOf(escrow[id].status) = "none" /\ HeldFor(id) = 0
             /\ TermsOf(escrow[id]) = Abstract!NoTerms
  <2>1. escrow[id] = BlankEscrow /\ escrow[id].status = "Absent"
    BY DEF Init, BlankEscrow
  <2> QED
    BY <2>1, Phases, NoTermsYet DEF HeldFor, Active, Settled, Terminal
<1>2. paid = [id \in EscrowIds |-> Abstract!Nothing]
  BY DEF Init, NoPayments, Abstract!Nothing
<1> QED
  BY <1>1, <1>2 DEF Abstract!Init

LEMMA NextMaps ==
    ASSUME SInv, IInv', [Next]_vars
    PROVE  [Abstract!Next]_(Abstract!custodyVars)
<1> IInv
  BY DEF SInv
<1>1. CASE UNCHANGED <<escrow, paid, vault>>
  BY <1>1 DEF Abstract!custodyVars, HeldFor, Vault
<1>2. ASSUME NEW id \in EscrowIds, EscrowStep(id)
      PROVE  [Abstract!Next]_(Abstract!custodyVars)
  <2>1. DealStep(id)
    BY <1>2, ProceedsDeal, SettlesDeal, ClosesDeal, OtherDeal DEF EscrowStep, SignedBy
  <2>2. \A x \in EscrowIds \ {id} :
           escrow'[x] = escrow[x] /\ paid'[x] = paid[x] /\ vault'[x] = vault[x]
    BY <1>2, OthersUntouched
  <2> QED
    BY <2>1, <2>2, DealMaps
<1> QED
  BY <1>1, <1>2 DEF Next, vars, custody, Tick

\* The milestone engine implements Custody: what is held for a deal never shrinks
\* but in one settlement, which pays out all of it, fairly split, or, when a
\* token settlement names another account, none of it; whatever the parties, the
\* platform, the admin and outsiders do and however often the id is used again.
THEOREM EscrowImplementsCustody == Spec => ImplementsCustody
<1>1. SInv /\ IInv' /\ [Next]_vars => [Abstract!Next]_(Abstract!custodyVars)
  BY NextMaps
<1>2. Init => Abstract!Init
  BY InitMaps
<1> QED
  BY <1>1, <1>2, Invariance, SettlementInvariance, PTL
  DEF Spec, ImplementsCustody, Abstract!Spec

\* The engine leaves the Config account to its own instructions.
THEOREM EscrowKeepsConfig == Spec => ConfigSpec
<1>1. Init => ConfigInit
  BY DEF Init, ConfigInit
<1>2. [Next]_vars => [ConfigNext]_config
  BY DEF Next, vars, Tick
<1> QED
  BY <1>1, <1>2, PTL DEF Spec, ConfigSpec
=============================================================================
