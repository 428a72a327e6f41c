# A TLA+ model of the stake pool program

The program under `src/program` lets users pool stake: they deposit SOL or
stake accounts, receive pool tokens, and the pool's staker spreads the stake
over validators. Clients under `src/clients` create pools, keep them up to date,
plan withdrawals and rebalance stake. This directory holds TLA+ modules that model both, TLC configurations
that check them, and TLAPS proofs.

## The system

| Part | State | Operations | Talks to |
|---|---|---|---|
| Pool account (`state.rs`, `StakePool`) | value, token supply, fees and fees to come, preferred validators, stake limit, authorities, epoch of the last update | all instructions | everything below |
| Validator list (`ValidatorList`, `ValidatorStakeInfo`) | per validator: active and transient lamports as last recorded, status, transient seed, epoch of the last update | add, remove, update, cleanup, rebalancing, deposits and withdrawals of stake | its stake accounts |
| Stake accounts | the reserve; per validator one validator stake account and one transient account per seed; ephemeral accounts inside one instruction | splits, merges, delegations, deactivations, withdrawals | the native stake program (external), through CPI |
| Pool token mint and accounts | supply, balances, the manager's fee account | mint, burn, transfer | the token program (external), through CPI |
| Fee schedule | fees in force, fees waiting one or two epochs | `SetFee`, rotation at the first update of an epoch | pool account |
| Authorities | manager, staker, deposit and withdraw authorities | `SetManager`, `SetStaker`, `SetFundingAuthority` | pool account |
| Token metadata | none of the pool's | `CreateTokenMetadata`, `UpdateTokenMetadata` | metadata program |
| `BigVec` (`big_vec.rs`) | the list as bytes | `push`, `retain`, `find_mut`, `deserialize_mut_slice` | validator list |
| Update crank (`instruction.rs`, CLI, JS, Python) | snapshots of pool, epoch and list; transactions in flight | cut the list into slices, send, wait for the last, finish | the program |
| Withdrawal planning (CLI, JS) | a snapshot of the pool, a plan | spread an amount over the pool's stake accounts | the program |
| Pool creation (CLI `create-pool`, `Initialize`) | five kinds of accounts, some with keys made anew by each run | look, create, initialize, in four transactions | the program, stake, token and system programs |
| Rebalancing bot (Python) | snapshots of pool and list, moves under way | plan one move per validator, run all at once | the program |
| Other client commands | snapshots | one builder per instruction | the program |

Every instruction is atomic: a transaction whose check or CPI fails changes
nothing. What is hard is what happens between instructions. Stake warms up and
cools down at epoch boundaries; rewards are paid over several blocks after a
boundary; the list is brought up to date piece by piece and by anybody; the
records of the list are copies of balances that third parties can raise at any
time; accounts emptied by a merge can be initialized again by somebody else;
a cluster restart can strip validators of their stake; the mint's supply can be
lowered behind the pool's back; fee changes wait for updates that may come late
or often. Clients act on snapshots: slices of the list are named by index, plans
are made from two accounts read one after the other, transactions sent without
waiting land late or never, and a command that failed half way is run again while
its last transaction may still arrive. `PROJECT.json` lists these hazards at their
lines, each with the properties that would catch it going wrong.

What makes the parts correct:

* **value**: no instruction makes a pool token worth less (`HoldersNeverDiluted`),
  the advertised value is held (`LedgerSolvent`, `Backed`), the token supply used
  for pricing covers the mint's (`SupplyCoversMint`);
* **list**: records agree with statuses and accounts (`StatusMatchesRecord`,
  `FreshRecordsExact`), stake is never forgotten (`NoOrphanedStake`), removal
  only advances, is never blocked and completes (`RemovalOnlyAdvances`,
  `RemovalNeverBlocked`, `RemovalCompletes`);
* **updates**: up to date means all entries are (`UpToDateMeansFresh`), and the
  pool always catches up (`PoolCatchesUp`);
* **preferred validators** are active or reset (`PreferredIsActive`, `PreferredHeals`);
* **fees**: at most the whole, two epochs of notice, bounded growth of
  withdrawal fees (`FeesAtMostWhole`, `TwoEpochNotice`, `WithdrawalFeeStep`);
* **authorities**: through every chain of appointments the pool stays in the hands
  its creator trusts (`PoolStaysTrusted`, `ManagerConsented`,
  `StakingStaysTrusted`, `GatesHold`);
* **`BigVec`** is a sequence (`BehavesAsSequence`);
* **update crank**: no entry gets the balance of another account
  (`FreshMeansCounted`), a complete update is complete (`CompleteUpdate`), lost
  transactions only delay (`PoolCatchesUp`);
* **withdrawal plans** overdraw nothing (`NoOverdraw`), satisfy the program's rule
  on the preferred validator (`PreferredFirst`) and are found if they exist
  (`GivesUpOnlyWhenEmpty`);
* **rebalancing** plans what the reserve can pay for (`IncreasesFit`) and reaches a
  uniform distribution from whatever state others, failed rounds and late
  transactions have left (`BalanceReached`);
* **pool creation** that is repeated until it succeeds makes one pool
  (`NoSecondPool`) out of accounts that are its own (`PoolsOwnTheirParts`), says Ok
  only when it exists (`OkMeansCreated`) and ends (`CreationCompletes`).

## Modules

| Module | Models |
|---|---|
| `FeeSchedule` | `Fee`, `FutureEpoch`, `SetFee`, the rotation of fees; a specification of its own |
| `PoolMath` | the conversions and fees of `state.rs`, with their rounding |
| `StakeProgram` | the native stake program (external): for each operation, when it is accepted and what it yields |
| `PoolValue` | abstract specification: value `T` shared by `S` tokens; deposits, withdrawals and accruals never lower `T/S` |
| `StakePool` | the program: extends the three concrete modules; one action per instruction, and one per thing the cluster or third parties do |
| `Authorities` | the keys of the pool account, who may change them, and the checks of keys and signatures |
| `EntryVec` | abstract specification: a bounded sequence of entries |
| `BigVec` | the vector over account data, `retain` round by round; implements `EntryVec` |
| `ListUpdate` | the list as an array, slices, and the clients that update it |
| `WithdrawPlan` | the clients' search for stake accounts to withdraw from; extends `PoolMath` |
| `Rebalance` | the rebalancing bot; extends `StakePool`, whose actions are what it sends and what goes on around it |
| `CreatePool` | the `create-pool` command and `Initialize` |
| `MCFeeSchedule`, `MCStakePool`, `MCListUpdate`, `MCWithdrawPlan`, `MCRebalance` | instances for TLC |
| `AuthoritiesProofs`, `BigVecProofs`, `CreatePoolProofs`, `ListUpdateProofs`, `RebalanceProofs`, `WithdrawPlanProofs` | theorems about the module they are named after |
| `PoolMathProofs` | lemmas: rounding, and sums over a finite ledger |
| `StakePoolProofs` | the theorems about the fee schedule; the invariant `PoolInv` of `StakePool`, lemmas on what each step does to it, the theorems that follow, and the two refinements; the theorems about stake accounts and removal, from the stronger `LifecycleInv` |

### How `StakePool` corresponds to the code

* `total_lamports`, `pool_token_supply`, `preferred`, `max_validator_stake`,
  `last_update_epoch`, `fees`, `next_fees` are fields of `StakePool`; `list` is the
  validator list as a function of the vote account, with status `NotListed` for
  validators that have no entry.
* `reserve`, `vstake`, `tstake` are the stake accounts. An account is a record of
  kind, lamports, delegated stake, activation and deactivation epoch, and `mine`,
  which is what `stake_is_usable_by_pool` decides.
* `tokens` are the balances of the users together and of the manager's fee
  account; `fee_account_ok` is the outcome of `check_manager_fee_info`.
* `rewards_active` is the `EpochRewards` sysvar. While it is set the stake program
  refuses calls, `UpdateValidatorListBalance` refuses too, and everything that
  needs neither goes on.
* `drained` names accounts that the last instruction emptied: until the
  transaction ends somebody may initialize them again (`HijackValidator`,
  `HijackTransient`).
* An action is a whole handler. The handlers that serve several instructions
  (`process_decrease_validator_stake`, `process_increase_validator_stake`) and the
  sources of `process_withdraw_stake` are an action each, sharing the guards that
  the code shares. `UpdateValidatorListBalance` runs over a slice of the list;
  the entries are independent except for the reserve, so each entry is a step.
  `UpdateEntry` follows the handler: the transient account first, then the
  validator stake account, each with the CPI failures that abort the call (`ok`).
* A failing call is a step that is not enabled.

Left out of `StakePool`: signatures and account keys (`Authorities` has them),
validator seeds and the order of the list (`ListUpdate` has them), slippage limits,
lamports sent to ephemeral accounts, `last_epoch_*` (reported, never read),
lockups other than the pool's, and somebody who delegates an account he took over.

### How the other modules correspond to the code

* `Authorities`: the variables are the keys in the pool account. Every action takes
  the signatures of its transaction and the keys passed as accounts, and has the
  checks of its handler, in `check_manager`, `check_staker` and their like. Some
  principals are trusted, which means that they sign no appointment of an
  untrusted one (`Willing`); the others sign anything. `last` is a history
  variable.
* `BigVec`: cells and offsets count elements. A step is one round of `retain`'s
  loop; `pos`, `removals` and `dst` are its locals. While it runs, `EntryVec` sees
  the contents from before. What `retain` leaves is stated by positions: the n-th
  element of the result is the n-th kept one.
* `ListUpdate`: an entry has the vote account, both seeds, the recorded lamports,
  the epoch and a status; addresses are pairs of vote account and seed, as the
  derivations are injective. What an update does to stake accounts is left to
  `StakePool`; here it records the validator stake account's lamports. A client is a
  program that uses one library. It goes through `command_update`, with flags chosen
  anew each time: three reads, the slices, all but the last sent without waiting
  into `inflight`, then the final transaction. An application of the JavaScript
  library is taken to do the same with the instructions it gets. A transaction in
  flight may be applied as long as the program accepts it, in any order, also in a
  later epoch; it is a set because a transaction is processed once. `missed` is a
  history of the lost ones.
* `WithdrawPlan`: Init chooses a pool, a list and a request; a step is a round of
  the loop over the sorted accounts. A request may name a validator twice, by a vote
  account and by the delegation of the stake account that is to receive the stake
  (`Named`, `Mismatch`). The two libraries differ in which accounts
  they list, how they sort transient accounts, which they pass over, what they
  do with a fee of the whole, when they accept receiver and vote account, and in
  addresses: a stake address that the JavaScript library derives without the suffix
  (`Misderived`) is of kind `stray`, and `pool.stray` is what is found there. The pool
  is up to date and nobody changes it in between. The comparator that a caller of the
  JavaScript library may pass is not modelled; the order is the default one.
* `Rebalance`: `phase`, `read_total` and `moves` are the locals of a round; the plan
  is made of the list as it is at `ReadList`, the pool's total as it was at
  `ReadPool`. A move reads the list again for its seed (`Send`) and takes effect
  later (`Land`, the action of `StakePool`). `Fail` is any exception: a refused or
  unconfirmed transaction, a failing read, a killed process; the moves sent by then
  may go to `late` and land during later rounds. The reads of the epoch and of the
  rent, and the update the bot starts with, are the `Crank` steps around it.
  `quiet`, `clean`, `level`, `due` and `interference` are histories that the
  properties speak of: how many epochs of the bot's own have gone by, whether
  anybody interfered with this round, and whether it has to take from anybody.
* `CreatePool`: a key pair is given by the operator (key 0) or made by run i (key
  i); the fee account goes with the mint. An account is absent, blank or
  initialized, and belongs to the authority of a pool or to somebody else. Every
  look and every transaction is a step; a transaction remembers which accounts it
  creates and fails when they exist by then. A failed look counts as an absent
  account, as `if let Ok(account)` has it.

## Runs

All passing runs check deadlock, since the crank can always run, except
`withdraw_plan` and `create_pool`: a command ends.

| Run | Instance | Shows |
|---|---|---|
| `fee_schedule` | 3 settable fees, 6 proposals on both sides of every limit, a u128 that one of them overflows, epochs 0..4 | the three fee properties |
| `core` | 1 validator, 2 seeds, epochs 0..2, all fees 1/3, rewards 0 and 1, a stake limit | ledger, records, removal, and the refinement of `PoolValue`, without outsiders |
| `two_validators` | 2 symmetric validators, epochs 0..1, preferred validators, donations and prefunding of 1 lamport | partial updates of the list, preferred validators, records under unsolicited lamports |
| `outsiders` | 1 validator, no users, epochs 0..3, two epochs of warm-up and cool-down; delinquency, destaking, take-over of emptied accounts, preferred validators | records and removal under foreign events, and the three liveness properties, under `FairSpec` |
| `shares` | no validators within reach, epochs 0..1, fees 1/3 that are changed, referrals 100 %, burns, donations, fee account closed and replaced | conversions and fees, all orders of deposits, withdrawals and updates; the pool implements `FeeSchedule` |
| `authorities` | 3 principals, 2 of them trusted | the pool, its fees, its gates, and staking once it is, stay in trusted hands |
| `big_vec` | 3 elements, 5 cells, every predicate | `retain` is what the code relies on at every round, and the vector implements `EntryVec` |
| `list_update` | 2 vote accounts with 2 suffixes and 2 seeds, chunks of 1, a client that runs with `--stale-only` or uses the JavaScript library | slices and snapshots against a list that shifts under them, late and lost transactions; liveness under `FairSpec` |
| `withdraw_plan` | lists of up to 2 validators, with and without suffix, 3 balances, 3 prices, 3 fees, 3 amounts, both libraries, validators named by user and receiver | the three properties of plans |
| `rebalance` | 2 symmetric validators, 2 seeds, epochs 0..3, 4 interferences: deposits of 3, rewards of 4, validators added and removed, updates without merging, late transactions | the two properties of the bot |
| `create_pool` | every subset of the four key pairs given, every mixture of prepared accounts, 5 runs, 2 faults | the four properties of creation |
| `merge_abort` | as `core`, no users | violation, see below |

Bounds. Rent and minimum delegation are 1 lamport, so the smallest validator
stake account holds 2 and an amount of 1 or 2 is on either side of every
threshold; the reserve starts with 5 to 7 lamports and its rent, enough for a
validator and an increase and too little for more. Three epochs are what a stake
needs to be delegated, deactivated and absorbed; a fee needs three updates to
come into force, hence five epochs in `fee_schedule`. Two seeds are needed for a
second transient account, two validators for a partially updated list.
`MaxLamports` bounds what is brought in from outside (`HasRoomFor`), `MaxEpoch` the
epochs, and the `...Amounts`, `Rewards`, `Donations` and `Prefunds` sets the
inputs. `Events` selects the outsiders' actions of an instance. In `shares` the
minimum stake exceeds the reserve, so that no validator can be added. Symmetry is
used for the two validators, which no constant tells apart, in runs without
liveness properties. In `outsiders` stake takes two epochs to warm up or cool down,
so that there is one in which it is partly effective: the program, which decides
without the stake history, takes a cooling stake for inactive one epoch before the
stake program does.

In `Authorities` two trusted principals are enough to hand a role on and back, and
one untrusted stands for all others. Five cells of `BigVec` hold two removals with
kept elements before, between and behind them. In `ListUpdate` a chunk of 1 makes
every entry a transaction of its own, so that with two entries one is sent
without waiting and one is waited for; two suffixes and two seeds let an entry
come back, or go on, under another address. `--stale-only` is the more selective way
to run the CLI; that every chunk is sent is there with the JavaScript library. What other clients send is there as
single steps (`OthersUpdate`, `UpdateStakePoolBalance`, `Cleanup`). The prices of
`WithdrawPlan` are 1:1, 3:2 and 2:3, so that a token is worth as much as a lamport,
more, and less; the fee 1/3 divides neither the amounts nor the
balances evenly, and the balances 3, 4, 5 and 7 are on both sides of the minimum
that each library assumes; vote account 2 stands for one that the pool does not have
when the list has one entry or none; `MaxWithdrawAccounts` is 2 instead of 5, as a list of
two has at most five accounts.

In `Rebalance`, `MaxQuiet` is 3: a stake that has to leave one validator and reach
another is deactivated in the first epoch, absorbed by the reserve and delegated in
the second, and has arrived in the third. Four steps of others (`MaxInterference`)
suffice for two validators, a deposit or reward that unbalances them, and one more
event, such as a late transaction or a removal, in any position. A reward of 4 makes
a difference the bot must act on; a deposit of 3 is one it can spread. Five runs of
`create-pool` leave three that succeed after two faults, each of which costs at most
a run.

Fairness. `FairSpec` assumes that the cluster goes on (epochs pass and rewards are
paid out), and that
`UpdateValidatorListBalance` (with and without merging), `UpdateStakePoolBalance`
and `CleanupRemovedValidatorEntries` keep being sent: they need no signature, the
CLI sends all of them in `command_update`, which runs before its other commands,
and its builder passes the pool account as writable to the cleanup. Both forms of
the update are assumed, because the one with merging can fail (`merge_abort`) and
`--no-merge` is the documented way out. Nothing is assumed of users, staker,
manager or outsiders. `RemovalCompletes` speaks of stake deactivated before the
last epoch of the instance, since later stake has no epoch left to cool down in.

`FairSpec` of `ListUpdate` assumes that rewards are paid out, that clients are run
again and again and get on with what they do (weak fairness), and that a
transaction which is sent over and over is not lost each time (strong fairness of
`LastConfirmed`, `FinalConfirmed` and of landing, for each slice). The first is the
CLI's own habit, as above; the last is what a retry rests on.

`CreatePool` assumes that a command goes on until it ends and that the operator runs
it again when it fails, which is what its looks at existing accounts are for. Late
transactions need not land. `BalanceReached` is an invariant and needs no fairness:
it speaks of states in which the bot has had its epochs.

### Disagreements between code and documentation

* `merge_abort`: after a decrease, an update with merging in the same epoch tries
  to merge the deactivating transient stake into the validator's, which the stake
  program refuses; the comments say that a deactivating stake is only counted. A
  test makes this call and does not look at its result.

Met while modelling, and not the subject of a run of their own:

* `check_withdrawal` turns an overflow of the second product into `None`, which
  compares below every value, so a proposal whose numerator times the old
  denominator is large enough passes, although the comment promises that the program
  fails (`state.rs:1028`). `WithdrawalFeeStep` makes the exception explicit
  (`AskedOverflows`), `fee_schedule` reaches it, and `WithdrawalFeeBounded` proves
  that it is the only one.
* `updateStakePool` of the JavaScript library derives the stake address of every
  validator without its seed suffix (`index.ts:1012`). The program passes over such an
  entry, so the instructions that "completely update a stake pool" leave it out of
  date and the final one fails. `CompleteUpdate` and `PoolCatchesUp` of `ListUpdate`
  except these entries, and no others.
* The bot's help calls its argument the "Amount of SOL to keep in the reserve"
  (`rebalance.py:121`), but only the whole of the pool is planned with: as long as
  some validator has more than its share, the increases of a round may spend what
  should be retained, or more than the reserve has, in which case the round fails.
  `IncreasesFit` is about the other rounds, and `BalanceReached` says that the amount
  is there in the end, up to the rents of merged accounts.
* The bot counts validators that are being removed like all others, divides by
  their number, and plans moves for them which the program refuses; without any
  entry it divides by zero (`rebalance.py:60`). A decrease borrows rent from the
  reserve, so that it fails when the reserve is empty.
* `create-pool` returns Ok when the validator list is initialized (`main.rs:534`): with
  a list's key pair but not the pool's, it may report the pool of an earlier run whose
  transaction came late, under a new key. With no key pair given, a late
  transaction of an earlier run may create a second pool. A reserve or mint given
  without the pool's key pair belongs to the pool key of the run that initialized it,
  and no later run can use it. `OkMeansCreated`, `NoSecondPool` and `CreationCompletes`
  say for which choices this cannot happen.
* `command_vsa_add` looks for a free seed by looking up the reserve instead of the
  derived address (`main.rs:792`).
* `max_validator_stake` is described as a limit on what a validator can hold
  (`state.rs:165`); increases check it, a stake deposit goes beyond it.
* A fee with denominator 0 is no fee (`state.rs:982`), but the CLI divides by
  denominator minus numerator when it plans a withdrawal (`main.rs:1679`), which
  `Panic` models. The JavaScript library looks before it divides.
* With a named validator, the clients pass lamports to the conversion that expects
  tokens and compare the result with tokens (`main.rs:1808`, `OneAccountHas`). When
  a token is worth more than a lamport, the check lets through what the account
  does not hold; the program then refuses it. When a token is worth less, it turns
  down what the account could pay. At a price of at least a lamport, the CLI turns
  nothing down that the account could pay (`GivesUpOnlyWhenEmpty`).
* `withdrawStake` of the JavaScript library derives the stake address of a validator
  without its seed suffix, like `updateStakePool`. If the user or the receiver names the
  validator, it looks at another account (`index.ts:427`, `index.ts:460`) and throws if
  there is none; the search plans a withdrawal from that address (`stake.ts:81`), which the
  program refuses. `NoOverdraw`, `PreferredFirst` and `GivesUpOnlyWhenEmpty` except
  validators with a suffix, for this library only.
* With a delegated receiver, the JavaScript library compares two objects where it means
  two keys (`index.ts:422`), so it refuses every vote account, the right one included.
  It also refuses a receiver that is no stake account, which the CLI takes for one
  without delegation. `GivesUpOnlyWhenEmpty` names both exceptions.
* A plan may take all of a validator's active stake, while the program wants the
  minimum to remain (`processor.rs:2993`).
* The loop of the JavaScript library that should stop at 5 accounts takes 6
  (`index.ts:530`, `Build`).

## Proofs

TLAPS checks the theorems for every value of the constants that satisfies
`FeeAssumption`, `PoolAssumption`, `StakeAssumption`, `AuthorityAssumption`,
`CreateAssumption`, `ListAssumption`, `PlanAssumption`, `BigVecAssumption` and
`BotAssumption`: any finite set of validators, any amounts, fees, prices, rewards and epochs, any number of
clients and runs. The assumptions are types and signs (`PlanAssumption`: balances and
prices are naturals, fees are at most the whole). `BotAssumption` also says that the
bot's own minimum is no lower than the program's, that its seeds are the numbers up to
a bound, and that the constants which only feed outsiders' steps are empty, since
outsiders take none in that composition. TLC evaluates the assumptions in the runs.

`StakePoolProofs`, first part: `FeeSchedule`

* `FeeTypeCorrect`: types, by induction on the steps.
* `FeesStayWhole`: `FeesAtMostWhole` is inductive together with the types.
* `NoticeGiven`: `TwoEpochNotice` follows from `NoticeInv`, which relates the
  epochs left to the epochs of proposal and last update: a fee that waits for two
  updates was proposed no later than the last update, since `SetFee` asks for an
  up-to-date pool; one that waits for a single update was proposed before the
  epoch of the last one; and an update that rotates comes in a later epoch still.
* `WithdrawalFeeBounded`: `WithdrawalFeeStep`, for integers of any width. The
  invariant `PendingInv` says that a waiting fee was measured against the fee that is
  still in force; `CheckWithdrawalExact` that the check decides what it means to, but
  for the overflow described above.

`StakePoolProofs`, the pool, on `PoolMathProofs`

* `PoolFollowsFeeSchedule`: `StakePool` implements `FeeSchedule`. Every action
  either contains a step of `FeeSchedule` or leaves its variables alone, so the
  theorems above hold of the whole pool.
* `PoolTypeCorrect`, `RecordsAreBacked`, `LedgerStaysSolvent`, `StatusAgrees` and
  `SupplyCovered`: `TypeOK`, `Backed`, `LedgerSolvent`, `StatusMatchesRecord` and
  `SupplyCoversMint`. None is inductive alone: an update of an entry keeps the ledger
  solvent only because the accounts back the old record, and keeps the record
  backed only because the status tells which account may be missing. The
  conjunction `PoolInv` is: fees (`FeeInv`), settings (`ConfigTypes`), value, supply
  and tokens (`MoneyInv`), and entries, accounts and reserve (`StakeInv`). It is
  stated about values instead of variables, so that what a step does to it is a
  lemma without primes (`OneEntryStep`, `SameListStep`), one per shape of step.
* `NobodyDiluted`: `StakePool` implements `PoolValue`. Each instruction moves value
  and supply as `PoolValue` promises (`Promised`), by the lemmas of `PoolMathProofs`
  about rounding; the others, and whatever goes on around the pool, leave both alone.

The value of the pool is compared with the sum of the records over all validators, a
fold of the community modules. A fold is a recursive function on the subsets of the
ledger. That it is well defined, and that changing one entry changes the sum by as
much, is shown without an induction theorem: a set of counterexamples would have a
smallest one (`WFMin`), and that one is refuted.

`StakePoolProofs`, the life of an entry, from `LifecycleInv`, which is `PoolInv`, `LifeInv`
and `ClockInv`

* `StakeNeverOrphaned`: `NoOrphanedStake`. `LifeInv` says what accounts look like
  (`Shape`), which statuses go with a delegated validator stake account
  (`Absorbable`, `Alive`), and that a delegated transient account is the recorded one
  and exceeds its record by less than a stake account of its own (`Tracked`).
* `FreshIsExact`: `FreshRecordsExact`, from `Exact` and from `ClockInv`: no entry is
  ahead of the clock, none is of this epoch while rewards are paid, and all are in
  a pool that is up to date.
* `RemovalAdvances`: `RemovalOnlyAdvances`. Only five instructions change statuses
  (`ListChanges`), and `StatusMoves` lists the changes.
* `PreferredStaysActive`: `PreferredIsActive`, from the same analysis: an
  instruction that ends the `Active` status of a preferred validator resets the
  preference. The update that finds the validator destaked does not, which is what
  the property excepts and `PreferredHeals` repairs.
* `RemovalUnblocked`: `RemovalNeverBlocked`. It is a statement about one state: the
  update of an entry under removal can only fail in the half for its transient or
  in the half for its validator account (`TransientHalfFails`, `ValidatorHalfFails`),
  and under the invariant neither does.

`NoOrphanedStake` had been checked for prefunding by one lamport only, and its proof
failed for more. With
rent and minimum of 1 lamport each: after `AddValidatorToPool`, 3 lamports sent to
the address of the transient account, `IncreaseValidatorStake`, and a withdrawal of
all that is recorded for the transient stake, the 3 stay behind in a delegated
account that no record mentions. They are the sender's own, no value of the pool is lost, and the property
now says so: it excepts prefunding that suffices for a stake account of its own
(`SmallPrefunds`).

`AuthoritiesProofs`, for any set of principals and any trusted subset

* `RolesTypeCorrect` and `TrustKept`: `RolesInv`, the conjunction of `TypeOK` and
  `PoolStaysTrusted`, is inductive. A step that changes manager, fee account or a
  funding authority carries the manager's signature, the manager is trusted, hence
  so is everyone appointed.
* `ManagerConsent`: the same argument gives the signature of every operation that is
  reserved to the manager.
* `StakingKept`, `GatesKept`: action properties; each follows from `RolesInv` in the
  state before the step.

`CreatePoolProofs`, for any number of runs, faults and late transactions

* `PartsStayOwned`, `AtMostOnePool` and `OkIsFounded`: `PoolsOwnTheirParts`,
  `NoSecondPool` and `OkMeansCreated`, from `CreateInv`. Accounts that are initialized
  stay as they are, so the parts of a pool stay its own (`PartsOwned`, which adds that
  given key pairs were used); two pools would then share a given part, and a part has
  one owner. Ok may rest on a pool account read some time ago or on a list in use:
  the first is still there (`OkFounded`), the second is used by a pool that exists
  (`ListsUsedByPools`), which is the given one (`PoolKeyUsed`). `ExecuteStep` is the
  lemma about a transaction, whichever run sent it and whenever it lands.

`ListUpdateProofs`, for lists of any length and any slices

* `CountedWhenFresh`, `VotesUnique` and `UpToDateIsFresh`: `FreshMeansCounted`,
  `OneEntryPerVote` and `UpToDateMeansFresh`, from `ListInv`, their conjunction with
  types and `NotAhead`. They need each other: a new validator, or a withdrawal that
  empties a stake account, leaves the other entries counted because no other has that
  vote account; rewards do because no entry is of this epoch while they are paid.
  `ListInv` says nothing about the slices in flight or the clients, so it holds
  whatever clients send. `NthElement` shows that `retain` is well defined.
* `UpdateIsComplete`: `CompleteUpdate`, from `UpdateInv`, which is `ListInv` and
  `ClientInv`. The property speaks of a client at its last transaction, so the
  invariant has to say of each client, at every stage of its run, what has become of
  each entry it read (`Served`): it is of this epoch, its slice is in flight, lost, or
  still to be sent, or the JavaScript library left its suffix out. `Follows` adds that
  the slices still to be sent name the chunks they were cut from. Between the reading
  and the last transaction other clients, the staker and users change the list; what
  saves the client is that in an epoch a list that is not up to date can only get
  shorter, since validators are added, and addresses changed, in an up-to-date pool
  only. So a client whose reading no longer fits the list either sees all of it
  fresh or a shorter list (`Standing`), and the property's premise, that the list
  has the addresses that were read, excludes the latter.

`WithdrawPlanProofs`, for lists of any length, any balances, price, fee and request

* `PlanNeverOverdraws`: `NoOverdraw`. Every part of a plan is at most what an account
  has, counted in tokens before the fee (`Founded`), at the address the client derives,
  which is wrong only for a suffix in the JavaScript library; lemmas `RoundTrip` and
  `FeeRoundTrip` show that turning it into lamports, after the fee, leads back to at
  most the account's lamports, as every division rounds down.
* `PlanPrefers`: `PreferredFirst`, from `Favours`, which says where the preferred
  account is in the sorted sequence as long as the plan is empty, and that the first
  part empties it as soon as there is a second or the search goes on.
* `PlanGivesUpRightly`: `GivesUpOnlyWhenEmpty`, from `Covered`: an account that must
  not be missed is worth no token, in the plan with all it has, or still to come. It
  holds at the start because the sort loses no account: the order is strict and
  total, each account has a rank of its own, and n ranks up to n leave none out
  (`RankCovers`, `SortedCovers`). For a named validator, `Refused` says that a request
  which passes the checks of receiver, vote account and address is turned down for
  the balance only. The statement has the
  condition that a token is worth at least a lamport: the proof failed without it,
  and TLC has the counterexample at the price 2:3, another consequence of the
  mistaken conversion in `OneAccountHas` described above. The other exceptions are the
  checks of the JavaScript library; TLC has a counterexample without each of them.

The invariant `PlanInv` is the conjunction of these with the types of what was read;
the plan is one loop, and each part needs only itself and the types.

`BigVecProofs`, for any capacity, elements and predicate

* `RetainKeepsItsPlace`: `RetainInvariant`. It is inductive with the ranges of the
  loop's locals (`VecOK`): a round moves the elements between the last gap and the one
  found now, and a memmove to lower addresses never overwrites what has not been
  looked at.
* `VectorIsSequence`: `BehavesAsSequence`. At the end of the loop the invariant says
  that the cells hold the kept elements in their order, which is `Retain` of
  `EntryVec`; the rounds before it are stutters.

`RebalanceProofs`, for any number of validators, any stakes, rents and minima

* `IncreasesAreAffordable`: `IncreasesFit`. `BotInv` adds to `LifecycleInv` what the
  bot relies on in a round that nobody has interfered with (`RoundOK`): while it plans,
  the total it has read is covered by reserve and records (`PlanningOK`); while it
  moves, the moves left are increases of active validators without transient stake,
  one per validator, and the reserve pays for all of them and keeps what the bot
  retains (`MovingOK`). That the plan fits (`PlanFits`) rests on the share, which
  rounds down, and on the rents, which are set aside for all that are below the even
  share and spent only on those below the share that remains (`CostToLevel`). Updates
  go on during a round; they only raise the reserve and never lower what reserve and
  records hold together (`UpdateGrows`). Each move that lands takes its cost from both sides (`CostRemove`).

TLC has checked `LifecycleInv`, `CreateInv`, `UpdateInv`, `PlanInv`, `VecInv` and
`BotInv` as invariants of the instances of the runs.

Only model-checked:

* the liveness properties (`RemovalCompletes`, `PreferredHeals`, `PoolCatchesUp`,
  `CreationCompletes`), which fairness puts out of the prover's reach;
* `MergingUpdateNeverAborts`, which is violated;
* `BalanceReached`, which counts the epochs the bot has had to itself: it speaks of
  several rounds in several epochs, and holds because stake warms up in one epoch and
  because the bounds leave enough of them.

## Plan

The model covers what was planned of the program and of the clients, and every
invariant and action property of the runs that hold has a proof, but for
`BalanceReached`. Its proof would need an invariant that follows the stake of each
validator from one round to the next.

## Not modelled

* Token metadata beyond who may change it: strings handed to another program.
* Instruction encoding, account layouts and error texts.
* The commands and builders of the CLI, the JavaScript and the Python client other
  than update, withdrawal of stake, rebalancing and pool creation: each sends one
  transaction with one instruction, which is an action of `StakePool` or
  `Authorities`. The CLI's `deposit-all-stake` is a loop over such transactions that
  ends at the first that fails.
* In `CreatePool`, an address to which somebody has sent lamports before: creating an
  account there fails.
* Argument parsing, RPC and output.
