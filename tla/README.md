# Verification of the worqen-escrow program

TLA+ models of the Solana program in `programs/worqen-escrow`, the TLC runs that
check them on small instances, and the TLAPS proofs that hold for every value of
the constants. `tlc -config MCEscrowNative.cfg MCEscrow` checks one run,
`tlapm EscrowProofs.tla` (or any other `*Proofs` module) checks the proofs. `PROJECT.json` names the runs and
gives, for every definition that models code, the file and lines it stands for.

All paths below are relative to the repository root; instruction files are in
`programs/worqen-escrow/src/instructions`.

## 1. The system and its parts

| Part | State it keeps | Operations | Module |
|---|---|---|---|
| Config account (`config.rs`, `state/config.rs`) | admin key and its nominated successor, platform key, treasury, default rate, pause flag, mint allowlist of at most 30 | `init_config`, `update_config`, `accept_authority`, `add_allowed_mint`, `remove_allowed_mint` | `Config` |
| Milestone engine (`state/escrow.rs`) | one Escrow account per escrow id, one SOL vault PDA or the token accounts of the escrow PDA | `create_escrow`, `deposit_*`, `confirm_completion`, `raise_dispute`, `update_platform_authority`, `release_*`, `resolve_dispute_*`, `trigger_auto_release_*`, `mutual_cancel_*`, `cancel_escrow_*`, `close_escrow_*`, `close_unfunded_escrow_token` | `Escrow` |
| Hourly engine (`state/hourly.rs`) | one HourlyPeriod account per hire and week, one HourlyInvoice account per staged block, one SOL vault PDA or the token accounts of the period PDA | `open_period`, `fund_period_*`, `raise_weekly_cap`, `stage_invoice_*`, `raise_invoice_dispute`, `finalize_invoice_*`, `approve_invoice_*`, `resolve_invoice_*`, `auto_release_invoice_*`, `settle_period_*`, `close_period_*` | `Hourly` |
| Vault accounts (`vault_token_account` of the token instructions) | what lies in each token account that an escrow or period PDA owns | named by every token instruction | `Vaults`, with the engines |
| Commission arithmetic | none | `calculate_commission`, `remaining_*`, `saturating_sub`, `min` | `Commission` |
| Direct and batch pay | none of its own: it moves money between accounts of others and emits an event | `pay_with_commission_*`, `batch_pay_with_commission_*` | `DirectPay` |
| Events, errors, dispatch, scripts, tests, CI | none the program reads | | not modelled, section 7 |

**Interaction.** The stateful parts meet in two ways. Both engines *read*
Config when something is created or money comes in (pause flag, allowlist,
platform key, treasury) and *copy* platform key and treasury into their own
account; a later change of Config does not reach existing accounts, except the
pause flag, which `deposit_*`, `fund_period_*`, `raise_weekly_cap`,
`stage_invoice_*` and `approve_invoice_*` read again. Both engines also share
the clock. No engine reads the other's accounts. Direct pay reads Config at every
payment (pause flag, allowlist, treasury) and copies nothing. `Escrow`, `Hourly`
and `DirectPay` therefore each EXTEND `Config` (the engines through `Vaults`), so its five
instructions interleave with theirs.

**What is hard here.** A Solana transaction is atomic: there is no step inside a
handler at which another one can run. The difficulty is elsewhere, and
`PROJECT.json` lists it line by line under "hazards":

- *ordering* - employer, worker, platform, admin and strangers submit
  instructions that are valid in overlapping states, and they land in any order
  (dispute against release, platform split against permissionless release,
  `settle_period_*` against live invoices);
- *stale copies* - keys copied at creation, nominations replaced before they
  are accepted, a mint delisted or a pause set between creation and deposit;
- *time* - comparisons of one clock with review, dispute and period ends, where
  an off-by-one opens or closes both sides at once;
- *money* - a vault anyone may send to, the runtime's refusal to leave a lamport
  account above zero and below the rent minimum, integer commission booked per
  invoice as the growth of a cumulative one, u64 and u16 limits;
- *which vault* - the SOL vault is bound by seeds, but most token instructions take
  any token account with the right owner and mint, and funding alone (with
  `settle_period_token`) insists on the associated one, so money may be put into one
  account and looked for in another;
- *many legs* - a batch pays its recipients one after the other, some accounts
  named twice or in two roles, and then charges one commission on the total;
- *re-creation* - closing an account frees its address, and the next life must
  not inherit anything from the last;
- *liveness* - money must leave although every privileged party is silent.

What makes each part correct:

- Config: the list never outgrows its account, delisting is complete, the admin
  key moves in two steps only.
- Milestone engine: the vault covers what is owed; a settlement happens once and
  pays what it records, or leaves the whole deposit where it is; neither party takes the other's money alone; the
  platform has its mediation window, and nobody arbitrates its own deal; every
  dispute ends.
- Hourly engine: one account covers all live invoices and the rent reserve; the
  period's totals are those of its invoices; each invoice is paid exactly once by
  somebody entitled to; every invoice ends and every period winds down.
- Direct pay: money moves exactly as the event announces, the commission is exact on
  the total, the payer really pays, and nothing is paid under a pause.

## 2. The modules

| Module | Extends | Refines |
|---|---|---|
| `Commission` | | |
| `Config` | `Commission` | |
| `Vaults` | `Config` | |
| `Escrow` | `Vaults` | |
| `EscrowProperties` | `Escrow` | `Custody` |
| `EscrowClaims` | `EscrowProperties` | |
| `Hourly` | `Vaults` | |
| `HourlyProperties` | `Hourly` | `Earmarks` |
| `DirectPay` | `Config` | |
| `DirectPayProperties` | `DirectPay` | (`ConfigSpec`, proved) |
| `MCEscrow`, `MCHourly`, `MCDirectPay` | `EscrowClaims`, `HourlyProperties`, `DirectPayProperties`: the instances TLC checks | |
| `ArithmeticProofs` | `Commission`; also sums over finite sets, no part of the program | |
| `ConfigProofs` | `Config`, `ArithmeticProofs` | |
| `EscrowProofs`, `HourlyProofs`, `DirectPayProofs` | the properties module and `ConfigProofs` | |
| `EscrowStepProofs`, `HourlyLedgerProofs` | `EscrowProofs`, `HourlyProofs` | |
| `HourlyExitProofs` | `HourlyLedgerProofs` | |

**One handler is one action.** The guard of an action is the conjunction of the
account constraints of the `#[derive(Accounts)]` struct and the `require!`s of
the handler; a handler that returns an error changes nothing and is a disabled
action. CPIs made by the handler (transfers, account creation and closing) are
part of the action. The SOL and token variant of an instruction are two actions
over one shared operator (`Release`, `PaySplit`, `EndInvoice`, ...), because they
differ only in which vault they use and in the accounts they require. An action that
is given a vault has the account as a parameter, and `Next` quantifies over all of them.

- `Config`: `config` is the account or `NoConfig`. `update_config` is one action
  over all its optional arguments at once. The allowlist is a multiset
  (`allowed_mints[mint]` is the number of copies): `init_config` stores duplicates as given,
  nothing reads the order.
- `Vaults`: the accounts in which money of an escrow or period can lie. The SOL vault is
  called by the name `SOL` and an associated token account by its mint; `SpareVaults` are
  further token accounts of the same PDA, each of the mint `SpareMint` gives it, that
  anybody may open. `AssetOf` is what an account holds.
- `Escrow`: `escrow[id]` is the account (status `"Absent"` when the address is
  empty), `vault[id][acct]` what each of its vault accounts holds, `ata` the
  token accounts that exist (pairs of id and account), `now` the clock.
  `NativeVault(id, acct)` and `TokenVault(id, acct)` are what the account constraints ask
  of the account a settlement or a closing names: the PDA, or owner and mint. `paid` and `settledBy` are
  auxiliary: what left the vault for each side in the current life of the id and
  who signed for it. Actions of the environment: `Tick`, `SendDust`,
  `CreateVaultTokenAccount`.
- `Hourly`: `period[p]`, `invoice[p][i]`, `pot`, `potAta`, `NativePot`, `TokenPot`
  likewise; staging reads the balance of the account it is given, the four endings pay
  from it, closing sweeps it; funding and settlement use `Pot`, the PDA or the
  associated account; `outcome` is
  auxiliary and remembers how each invoice of the current life ended.
- `DirectPay`: `balance` is what every wallet (lamports) and token account
  (tokens) holds, `receipt` the event the last transaction emitted, with the
  accounts its transfers named. A wallet may own several token accounts of a
  mint. The batch loop is `After`: each leg is paid out of what the ones before left
  (`Funded`), so a leg that cannot be paid disables the whole action.
- `Custody`: what the milestone engine promises - a deal is agreed, secured, and
  its money leaves once and whole (`Settle`). A deal that is not `bound` to its money may
  instead be settled with money from elsewhere (`SettleAside`), and then none of what is
  held moves until the deal is over. `ImplementsCustody` is the refinement: `held` is
  the vault that was funded, SOL deals are bound, token deals are not.
- `Earmarks`: what the hourly engine promises - a pot of money with claims, each
  covered when made and paid in full once, and refunds of free money only.
  `ImplementsEarmarks` is the refinement: the pot is all accounts of the period's asset
  together, without the rent reserve.
- `*Properties`: invariants, action properties, refinement and liveness.
- `EscrowClaims`: four statements of the documentation the code contradicts; the
  fifth, `BatchPaysOthers`, is in `DirectPayProperties`.
- `ArithmeticProofs`: lemmas on commission and on sums. `ConfigProofs`, `EscrowProofs`,
  `HourlyProofs`, `DirectPayProofs`: theorems about states, the first and the last also
  about steps; `EscrowStepProofs`: theorems about steps, the refinement of `Custody` and
  the exits of escrows; `HourlyLedgerProofs`: the sums over invoices, the pause, what
  the treasury earns and the refinement of `Earmarks`; `HourlyExitProofs`: the exits of
  periods and invoices, and when they open.

Operators introduced by "Fault:" in a comment are plausible bugs: variants of
the operator below them, with a guard dropped, a comparison off by one or an
update missing. No specification uses them. Each property is known to fail when
one of them takes the place of the real definition.

**Abstractions.** They apply to both engines; direct pay differs where its list says so.

- Fields that are written but never read by a handler are left out: ids,
  hashes, texts, bumps, `created_at`, `completed_at`, `auto_release_at`.
- Account rent is left out, except the rule that a lamport vault must end a
  transaction at zero or at least at the rent minimum (`RentMin`), and the
  hourly rent reserve that follows from it.
- Destination token accounts exist and are not frozen, and destination wallets
  hold enough lamports to receive any amount; `SECURITY.md:142-145`
  makes callers create them.
- A token account of an escrow or period PDA is its address, its mint and its balance.
  `SpareVaults` may be any finite set; the runs have one.
- Wallets have unlimited money: a deposit that bounces for lack of funds is a
  transaction that did not happen.
- Numbers are naturals, with the code's checked additions as guards against
  `MaxU64` and `MaxInvoiceCount`. Subtractions are saturating or guarded where
  the code's are; the type invariants show that none goes below zero.
- Direct pay keeps what the engines leave out: wallets have finite balances and must
  end above the rent minimum or at zero, and several token accounts of one owner
  exist. Accounts are given at the start; none is opened or closed. Transaction fees
  are left out, and no balance can overflow because the supply of a mint, and of SOL,
  fits u64.
- Anchor refuses to load one mutable token account in two places of an account list
  (`README.md:576`, `SECURITY.md:159`). In `pay_with_commission_token` this makes
  the three token accounts pairwise different, in the token batch the payer's and the
  treasury's; a batch's recipients are remaining accounts, which Anchor does not
  compare, so they may be anything the handler itself lets pass.
  For the two engines it is assumed that a party who is also the treasury has a
  second token account to receive on.

## 3. What the runs check

| Run | Instance | Distinct states | Shows |
|---|---|---|---|
| `config_account` | 3 wallets, 2 of them admins and users, 2 treasuries (one a user), 4 token accounts (one user has 2), 2 mints, list capacity 2, batches of at most 2, rent minimum 2, `MaxU64` 29 | 16,382 | the list fits its account (also when `init_config` stores duplicates), delisting removes every copy, the admin key moves in two steps; all properties of direct pay |
| `escrow_native` | 1 id, 2 users, 2 platform keys (one of them a user), amounts 1 and 10, dust 2, clock to 5 | 103,750 | all safety properties of the milestone engine and `ImplementsCustody` |
| `escrow_token` | 1 id, 1 mint, 2 token accounts, 2 platform keys, amounts 10 and 24, dust 10, `MaxU64` 24, clock to 2 | 161,260 | what differs on the token path: accounts created by deposit or a stranger, a second one that settlements and closing may name, empty or filled, mint delisted, a price above u64; solvency, exact settlements, `ImplementsCustody` |
| `escrow_liveness` | as native, amount 10, no dust | 8,588 | `DisputesEnd` |
| `hourly_native` | 1 period PDA, 2 caps, 2 invoices, dust, pause, clock to 5 | 65,505 | all safety properties of the hourly engine and `ImplementsEarmarks` |
| `hourly_token` | 1 period PDA, SOL and 1 mint, 2 token accounts, 1 cap, 2 invoices, rent minimum 6, dust 11, clock to 5 | 138,362 | the token path: solvency, justified ends, `DueInTime`, `ImplementsEarmarks`, `ExitsOpen`, whichever account is named |
| `hourly_liveness` | SOL and one mint, associated accounts only, rent minimum 4 and invoices of 1 | 45,202 | `InvoicesEnd`, `PeriodsWindDown` |
| `claim_*` | as the native, token or direct pay run, without dust | | five counterexamples, section 6 |

Deadlock is checked in every run: the admin can always send `update_config`.

**Milestone engine.**

- `Solvency`: the vault that was funded (the PDA or the associated account) of an
  unsettled escrow exists and covers pay and commission.
- `SettlementExact`: the worker was paid what the account records, per kind of end and
  whichever account the settlement named. Employer and treasury were paid what is theirs
  too, or, of a token escrow, the whole deposit still lies in the associated account: it is
  never divided between what was paid and what was left.
- `NoUnilateralClawback`: a worker of a funded escrow gets less than the full
  amount only by signature of the platform or of both parties.
- `NoUnilateralPayout`: an employer pays only after confirming or signing, by
  the platform's signature, or because a dispute ran out.
- `MediationWindow`: nobody but the platform resolves a dispute earlier than
  `MIN_DISPUTE_DEADLINE_DURATION` after it was raised.
- `PartiesDistinct`: through creation from a changing Config and any rotation.
- `AlwaysSettleable`: an active escrow has the vault, a balance that covers the worker's
  pay, and, when disputed, a deadline within both bounds; one that was funded and settled
  still has the account it was funded with, so it need not stay behind when the escrow
  is closed.
- `VaultDrained`: a settlement empties exactly one account of the escrow's asset, the
  vault PDA for SOL, the one it named for tokens, and touches no other.
- `DisputeFreezes`, `PauseStopsInflow`: what a step may never do.

**Hourly engine.**

- `PotsSolvent`: one account of the period covers all booked invoices and the rent
  reserve. For SOL it is the vault PDA. A token invoice is covered by the account it was
  staged against, which need not be the one that was funded.
- `LedgerMatchesInvoices`: running totals equal the sums over live invoices, and
  all commission ever booked is the commission on all that was ever staged.
- `MoneyAccountedFor`: nothing is paid twice, nothing is lost.
- `InvoicesEndJustly`: an early or reduced payout has the right signature and
  its legs add up to what was staged.
- `TreasuryEarnsItsRate`: although commission is booked as the growth of a cumulative
  one, each invoice is charged its own to within one unit, and a split pays the treasury
  exactly the commission on the worker's share: the cap at the booked commission in
  `resolve_invoice_*` never bites.
- `ExitsOpen`: each live invoice can be paid in full, from some account, as soon as it
  is due, each period settled as soon as it is over, each settled one closed: balance,
  rent rule, accounts and checked subtractions allow it. A token period some of whose
  invoices were staged against another account may have to wait with its settlement until
  they are paid, since `settle_period_token` looks for what it owes in the associated
  account.
- `DueInTime`: an invoice falls due before period end, review window and longest dispute
  window together are over.
- `DueStaysDue`: what is due stays due until it is paid; no dispute moves it away.
- `NoOrphanInvoices`: no invoice survives its period or blocks the next one.
- `PauseFreezesHourly`: a pause stops new obligations, new money and approvals,
  but not what is due.

**Direct pay.**

- `PaidAsAnnounced`: money moves only in a transaction that emits an event, under
  a Config that allows it, and every account, named once, twice or in two roles,
  changes by exactly what the event says.
- `PayerReallyPays`: over all accounts of the payer, what is announced as paid is
  gone, and the commission too unless the payer is the treasury. It does not hold of
  token batches (section 6) and says so.
- `CommissionWithinOneUnit`: the commission is the rate's share of the total to
  within one unit, however many recipients share it.
- `DirectPayTypeOK`: no leg overdraws an account.

**Bounds, and why they are enough.** Accounts of different ids share no mutable
state but Config, and no action touches two ids, so one id (one period PDA) loses no
interaction; it is closed and created again within a run, by either user in
either role. Two invoices are the fewest for which one's payout can endanger
another's, for which roundings add up (1000 bps of 5 is a half), and for
which the u16 counter reaches its limit (`MaxInvoiceCount = 2`). `Amounts`
contains a value with commission 0 and one with commission 1; `Shares` holds 0,
a part, and more than the whole. The rates include one above the cap in the
milestone runs. Windows are 1 to 3 ticks, so that below, at and above each
limit all occur, and the clock stops at `MaxTime` after the longest dispute or
period has had time to end. `MaxTime`, `MaxDust` (milestone) and `MaxVault` (hourly) are bounds of the
model, in the guards of `Tick` and `SendDust` only; dispute deadlines are taken
from `0..MaxTime`. The rent rule bites: with `RentMin` 2 a milestone
deposit of 1 is refused, with `RentMin` 4 in `hourly_liveness` two invoices of 1
would lock each other without the reserve, and with 6 in `hourly_token` one of 5 and its
commission would be locked. In the token runs outsiders can put into a token account
as much as one escrow, or one week, needs, so that a settlement or an invoice can
be paid from the wrong one of two; two accounts are the fewest for that, and any further
one would be a third that nothing relates to. In the direct pay run two payments of 5 are
charged 1 together and 0 each; the batches repeat a recipient, name the treasury,
the payer and a second account of the payer, contain a zero, are empty or too long and
exceed `MaxU64`; the money suffices for some payments only, and a payment
of 10 out of 18 with its commission leaves 7. The hourly safety runs use the symmetry of the two users, who
have the same choices; no liveness run uses symmetry.

## 4. Fairness

- `WF(Tick)`: time passes.
- `WF` of the *permissionless* instructions only: `trigger_auto_release_*` per
  escrow; `finalize_invoice_*` or `auto_release_invoice_*` per invoice,
  `settle_period_*` and `close_period_*` per period. The code asks no
  authority of their caller, so anyone interested can retry until they land;
  weak fairness suffices because, once enabled, only the end of the thing itself
  disables them. What TLC cannot show with one instance, that they *are* enabled once
their time has come whatever the amounts, windows and history, is proved (section 5);
fairness adds only that somebody sends them.

Nothing is assumed of employer, worker, platform or admin, who may all be silent
or keep the program paused for ever. `claim_stranded` gives the worker fairness too
(`WorkerFairSpec`), and still finds money that never moves. The hourly liveness run
has SOL and token periods: a token period's vault account may be missing until
`settle_period_token` creates it, and that holds up nothing. It has no second token
account: with one, weak fairness of "pay the invoice from some account" still holds
good, but the state graph is too large for a liveness check; that an account to pay from
always exists is `ExitsOpen` of `hourly_token`, and a theorem.

## 5. What is proved

`ArithmeticProofs` has lemmas for every amount and rate: commission is a natural
number, never above the amount at permitted rates (so the cast from u128
back to u64 loses nothing), monotone, and additive to within one unit.

`EscrowProofs` proves, for every set of ids, wallets, mints, amounts, every
window and every bound, under `ConfigAssumption` and `EscrowAssumption` (the
constants have their types; `MinDisputeWindow > 0`; `Nobody` is no wallet and
SOL no mint) and `VaultsAssumption`, `Spec => []P` for P each of `TypeOK`, `Solvency`,
`SettlementExact`, `NoUnilateralClawback`, `NoUnilateralPayout`,
`MediationWindow` and `PartiesDistinct`.

None of these is inductive alone. What a settlement pays depends on what the
account held before; so `IInv` adds, for every account:

- `Untouched` - until it settles, the price is the commission formula applied to
  amount and rate, nothing has been released and nothing was paid out, and
  `funded_at` is set exactly from the deposit on (which is what tells a
  refunded escrow from a never-funded one). With `CommissionOfZero` the
  remaining commission is then the whole commission, and `Solvent` gives the
  vault balance from which the three legs are paid if the settlement names that vault;
  if it names another, that vault keeps its balance, which is `DepositKept`
  (`NamedAccount` is this case distinction, `SplitPays` what a split then pays);
- `DisputeTimed` - dispute fields are clear until a dispute is raised and then
  leave the platform its window.

The proof has one lemma per action (per group of actions with the same effect on
the account), one step per conjunct an action can disturb, and a lemma that a
step on one id leaves `IdOK` of every other id as it was. `Invariance` joins them;
the seven theorems follow from `IInv`.

`EscrowStepProofs` proves the three action properties, `Spec => P` for P each of
`VaultDrained`, `DisputeFreezes` and `PauseStopsInflow`. A transaction concerns
one id (`OthersUntouched`); for that id it is one of three kinds: it neither starts
from a dispute nor settles (`QuietGuarded`), it settles and was entitled to
(`SettlingGuarded`), or it leaves the account alone and takes nothing
(`UntouchedGuarded`, `OutsidersAdd`); `ProceedsGuarded`, `SettlesGuarded` and
`ClosesGuarded` say which instruction is which. `IInv` is needed for the types of the
balances: that a settlement hands out everything in the account it was given
(`SplitEmpties`, `ReleaseEmpties`, both from `PayEmpties`) is true because its legs
are naturals, never saturated or truncated.

`HourlyProofs` proves, in the same generality and under `ConfigAssumption` and
`HourlyAssumption`, `Spec => []P` for `HourlyTypeOK`, `PotsSolvent`,
`InvoicesEndJustly` and `NoOrphanInvoices`, with `VaultsAssumption` too. The inductive
invariant `HInv` adds one fact to them: `live_invoices` is the number of invoice accounts that exist.
Without it nothing says that a period whose counter is 0 has no invoices left, and
`close_period_*` could orphan one. Solvency needs no sum over invoices: staging
adds to the totals only what the free balance covers, and every end of an
invoice subtracts one and the same amount (net plus commission, the legs of a
split adding up to it because the treasury's is capped at what was booked) from
account and totals, after checking that both hold it. Which account covers the totals
(`Backs`) changes only at staging, where the one that was named does from then on; an
ending that names another account lowers the totals all the same, and a settlement leaves
in the associated account what the totals say, whether or not another one backs them
(`Covered`). For SOL there is one candidate (`AccountsByAsset`). The *equality* of the totals
with the sums over invoices does need sums.

`HourlyLedgerProofs` proves `LedgerMatchesInvoices`, `MoneyAccountedFor`, `PauseFreezesHourly`
and the refinement `ImplementsEarmarks`. `LInv` is `HInv` and, for each period,
`SumsOK`: the two properties themselves and `IndicesUsedOnce`. The properties sum
over live and over ended invoices of the current life; each end moves an
invoice from the first sum to the second, which keeps the total only if no index is
ever in both or used again. That is `IndicesUsedOnce`: ended indices are free, below
the counter that the next stage takes its index from, and unused accounts are
blank. Commission booked as the growth of a cumulative one then telescopes to the
commission on the whole. The step lemmas are one for each way a period changes
(opened, topped up, staged, disputed, an invoice ended, settled, closed, dust). The pot of
the refinement is a sum over accounts (`Held`): it changes by what moves in the one
account an instruction names (`HeldChanges`), and it is at least what the account that
backs the books holds (`HeldNat`), so a claim is always covered by the pot.

`TreasuryEarnsItsRate` is inductive on top of `LInv`: staging charges the growth of the
cumulative commission, which `CommissionGrowth` puts within one unit of the invoice's
own; a split charges the commission on a share, which monotonicity puts below the one
on the whole and so below what was booked; and `LInv` says that an address without a
period has neither live nor ended invoices, so a new rate never meets an old invoice.

`ArithmeticProofs` also supplies what the library does not have on sums: removing any element from a
`SumFunctionOnSet` subtracts its term, whichever element `CHOOSE` picks. The library's
induction theorems cannot be instantiated here, so the induction is by a minimal
counterexample (`MinimalSubset`, from the well-foundedness of strict inclusion among the
subsets of a finite set).

**The safety half of liveness.** Liveness itself is out of the prover's reach, but what it
rests on is not: that no order of instructions ever closes the way out, that the way opens
at a time known in advance, and that it stays open.

- Milestone engine (`EscrowStepProofs`): `SInv` is `IInv` with two more facts. A settled
  token escrow keeps the account it was funded with: it exists while the escrow is active,
  and only the closing of that very escrow can remove it. A dispute's deadline is at most the longest window
  after it was raised. `ExitsOfEscrowsOpen` is `Spec => []AlwaysSettleable`;
  `OverdueDisputesCanBeForced` says that a step with the *effect* of
  `trigger_auto_release_*` on an overdue dispute, naming the vault that was funded, is
  such a step: no check in the handler can still fail.
- Hourly engine (`HourlyExitProofs`): `EInv` is `LInv` with `ExitOK` of each period. A SOL
  vault that was ever funded has the rent minimum in reserve (`ReserveKept`), so after any
  payout at least that stays behind and the runtime accepts it, and a token period keeps
  none; a settled token period has its associated account (`VaultKept`); a dispute was raised before the review was over
  (`DueTimes`). The sums of `LInv` are needed as well: that the books hold the amount of *one*
  invoice follows from their being the sum over *all*. From it follow `ExitsStayOpen`,
  `InvoicesFallDueInTime`, `DueInvoicesStayDue`, and, in the form above,
  `DueInvoicesCanBePushed` (there is an account to pay from, and any that can pay will
  do), `OverPeriodsCanBeSettled` (of a token period when no invoice is live) and
  `SettledPeriodsCanBeClosed` (with the PDA or the associated account).

These are the premises a proof of `DisputesEnd`, `InvoicesEnd` and `PeriodsWindDown` by
weak fairness would start from; what is left to TLC is the temporal step from them
(ENABLED of the instruction, and that time passes).

**The two refinements.** `EscrowImplementsCustody` and `HourlyImplementsEarmarks` show
that initial states map to initial states and every step to a step of the
abstract specification or a stutter. Each step concerns one id or one period; the step
lemmas of that one say which abstract action it is (`Agree`, `Secure`, `Donate`, `Settle`,
`SettleAside`, `Abandon`, `Forget`; `TopUp`, `Earmark`, `PayOut`, `Refund`), and the others
stutter. `EndMaps` is the step that matters: a settlement that names the funded vault is
`Settle`, one that names another account `SettleAside`, and a SOL escrow has no other.
The balances needed for it (`Solvent`, `PotSolvent`) come from `SInv` and `LInv`.

`ConfigProofs` proves of `ConfigSpec` the properties `DelistingComplete`,
`HandoffInTwoSteps` and, with the lemmas on sums, `[]AllowlistBounded`: the capacity check reads
the sum over all mints, and an addition changes one term of it. `EscrowKeepsConfig`,
`HourlyKeepsConfig` and `PaymentsKeepConfig` show that each of the other three specifications
implements `ConfigSpec`, so that these theorems hold wherever Config is used.

`DirectPayProofs` proves the four properties of direct pay for lists of any length
and `PaymentsKeepConfig`. All four instructions are instances of one `Payment`; its
list with the commission leg appended is run by `After`. `RunEffect` is the main
lemma: after a run every account has gained what the legs pay into it, and the sender
has lost the total, also where sender and recipient coincide. It is an
induction over the length of the list, written with the well-ordering of the
naturals (`UpTo`, `Iterate`).

**Assumptions.** `ConfigAssumption`, `VaultsAssumption`, `EscrowAssumption`, `HourlyAssumption` and
`DirectPayAssumption` give the constants their types. Beyond types they say that
`Nobody` is no wallet and no mint, SOL is no mint, `MinDisputeWindow > 0`, token accounts
are not wallets, spare accounts are told apart from mints and SOL and each has a mint, and
that mints and token accounts are finitely many, without which sums over them
mean nothing. TLC evaluates all of them on every run.

## 6. Where documentation and code disagree

Each is a run of one property that TLC refutes.

- `claim_cancel_refund` - `lib.rs:172` promises "Full refund to employer." of
  `cancel_escrow_sol`. TLC: create with 1000 bps of 10, deposit 11, platform
  cancels; the employer receives 10 and the treasury 1.
- `claim_commission_kept` - `cancel_escrow_token.rs:64-65` says "the platform keeps its
  commission (routed to the treasury) even on cancellation". The commission is capped
  at what the account that was named holds (lines 89-91), and that account is bound by
  owner and mint only. TLC: deposit 11, somebody opens a second token account of the
  escrow, the platform cancels and names that one; the escrow is `Cancelled`, the
  treasury got nothing, and the 11 lie in the associated account.
  `mutual_cancel_token.rs:105` and `resolve_dispute_token.rs:100` do the same when
  `employee_share` is 0. What remains true of every token settlement is `SettlementExact`.
- `claim_unfunded_vault` - `lib.rs:211` says of `close_unfunded_escrow_token`
  "No vault ATA was ever created." But `cancel_escrow_token` itself requires the
  vault account, so a never-funded token escrow gets to `Cancelled` only after
  somebody created one, which the closing handler leaves behind.
- `claim_stranded` - `README.md:761` says the deadline safety net "means an
  unresponsive platform cannot strand funds". TLC: deposit, the worker confirms,
  everybody else is silent. In `PendingRelease` only the employer may dispute
  (`raise_dispute.rs:38`), so no deadline ever starts.
- `claim_batch_self` - `README.md:213` says of both batch instructions that no
  recipient may equal the payer. TLC: a token batch pays 5 into a second token account
  of the payer, since only the mint of a recipient's account is checked
  (`batch_pay_with_commission_token.rs:96`); the event counts it as paid to a worker.

Not a run, because it is the same disagreement as `claim_cancel_refund` in another
instruction: `lib.rs:266-269` says of `mutual_cancel_sol` that "the rest (incl. commission)
refunds to the employer", and the handler, by the same `PaySplit`, sends the commission
to the treasury.

Not a run, because nothing goes wrong: `pay_with_commission_token.rs:43` says of the
account `fee_recipient` that its identity "is enforced via the token account owner",
but no constraint ties its key to that owner. The key is only compared with payer and
recipient (line 84). `DirectPay` takes any wallet for it, and `PaidAsAnnounced` shows that the
commission still goes to the configured treasury; the comparison does not exclude a payer
who is the treasury, which `PayerReallyPays` takes into account.

## 7. What is only checked, and what is not modelled

Only model-checked: liveness (`DisputesEnd`, `InvoicesEnd`, `PeriodsWindDown`), which is
out of the prover's reach; their safety half is proved (section 5). Every other property
of a passing run is also proved for every value of the constants. `InvoicesEnd` and
`PeriodsWindDown` are checked with associated accounts only. The token run of the
milestone engine checks only what its own path can break, since both paths share the
operators for who may settle and what is paid, and the theorems cover both.

**What naming another token account does.** A settlement that names an empty second
account succeeds when it owes the worker nothing from there: `cancel_escrow_token` always,
`mutual_cancel_token` and `resolve_dispute_token` with a share of 0. It pays
nothing and makes the escrow terminal; with a share above 0, and for `release_token` and
`trigger_auto_release_token`, the transfer to the worker fails, unless somebody put enough into that
account. `close_escrow_token` then sweeps the account *it* is given to the employer,
commission included if that is the associated one; whatever lies in an account nobody
named stays there, and the next escrow with the same id finds it. `Solvency`, the
worker's part of `SettlementExact`, and the properties on who may settle hold all the
same; what does not hold of tokens is that every settlement pays the treasury
(section 6). The hourly endings always pay their full legs, so they fail on an
account that holds too little and can be retried with the right one; an invoice can also be
staged against, and paid from, what an outsider put into a second account, and
then it takes nothing from the one that was funded.

Not modelled:

- events and error codes: nothing reads them (those of direct pay are modelled, as they
  are its only record);
- Anchor's dispatch, PDA derivation and account deserialisation: generated or library
  code, taken at their contracts;
- delegates and close authorities of token accounts: those of the model are changed by
  the program and by transfers into them only;
- destination token accounts that are missing or frozen by their issuer;
- a composition of the engines. They share Config and the clock and nothing
  else, each proof already lets any Config step happen at any time, and
  `*KeepConfig` show that none of them touches Config; a joint module would
  multiply states without a property that relates two engines;
- scripts, migrations, tests, CI; program upgrades, which replace the code being
  modelled; the compute and size limits of transactions.

## 8. State of the plan

Done: the inventory; `Commission` and `Config` with their proofs; `Escrow` and
`Hourly` with their refinements, both model-checked and proved; `DirectPay` with its proofs;
liveness on both asset kinds of the hourly engine, and for both engines the proof that their
exits stay open.

What could follow: destination accounts that may be missing, with the liveness of token
settlements then conditional on somebody creating them; the liveness of hourly token
periods with a second account, on an instance small enough for it.
