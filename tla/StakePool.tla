----------------------------- MODULE StakePool -----------------------------
(***************************************************************************)
(* The stake pool program: the pool account, the validator list, the       *)
(* reserve, and each validator's stake account and transient stake         *)
(* accounts, with one action per instruction of processor.rs and one per   *)
(* thing the cluster or third parties can do to those accounts.            *)
(*                                                                         *)
(* An instruction is a transaction: when a check or a CPI of the handler   *)
(* fails, nothing is changed, so a failing call is a step that is not      *)
(* enabled. Signatures and account keys are taken to be right.             *)
(***************************************************************************)
EXTENDS FeeSchedule, PoolMath, StakeProgram, FiniteSets, FiniteSetsExt

CONSTANTS
  Validators,         \* vote accounts
  Seeds,              \* transient stake seeds the staker uses
  MaxValidators,      \* ValidatorListHeader::max_validators
  MinimumActiveStake, \* MINIMUM_ACTIVE_STAKE
  U64Max,             \* largest u64
  NoValidator,        \* None, for a preferred validator
  NoLimit,            \* None, for max_validator_stake
  InitLamports,       \* lamports in the reserve above its rent at Initialize
  DepositAmounts,     \* bound: lamports of one deposit
  MoveAmounts,        \* bound: lamports of one increase or decrease
  WithdrawAmounts,    \* bound: pool tokens of one withdrawal
  StakeLimits,        \* bound: values given to SetMaxValidatorStake
  Rewards,            \* bound: lamports an effective stake earns in an epoch
  Donations,          \* bound: lamports of one unsolicited transfer
  Prefunds,           \* bound: lamports sent to an unallocated address
  Events,             \* the kinds of outside events in the instance
  MaxLamports         \* bound: lamports held, beyond which nobody brings in more

Options == {"deposit", "withdraw"}
Statuses == {"Active", "DeactivatingTransient", "ReadyForRemoval",
             "DeactivatingValidator", "DeactivatingAll"}
Holders == {"user", "manager"}
EventKinds == {"donate", "prefund", "delinquent", "destake", "hijack",
               "burn", "fee_account", "preferred"}
\* minimum_delegation() of lib.rs.
MinimumDelegation ==
  IF StakeMinimum > MinimumActiveStake THEN StakeMinimum ELSE MinimumActiveStake
\* minimum_stake_lamports() of lib.rs.
MinimumStakeLamports == Rent + MinimumDelegation

ASSUME PoolAssumption ==
  /\ IsFiniteSet(Validators) /\ Validators # {} /\ Seeds # {}
  /\ NoValidator \notin Validators \cup Seeds
  /\ MaxValidators \in Nat \ {0} /\ U64Max \in Nat /\ MaxLamports \in Nat
  /\ MinimumActiveStake \in Nat
  /\ NoLimit \notin Nat
  /\ InitLamports \in 0..U64Max
  /\ DepositAmounts \subseteq Nat /\ MoveAmounts \subseteq Nat
  /\ WithdrawAmounts \subseteq Nat /\ StakeLimits \subseteq Nat
  /\ Rewards \subseteq Nat /\ Donations \subseteq Nat /\ Prefunds \subseteq Nat
  /\ Events \subseteq EventKinds
  /\ MaxEpoch < EpochMax

VARIABLES
  total_lamports,      \* StakePool::total_lamports
  pool_token_supply,   \* StakePool::pool_token_supply
  tokens,              \* pool tokens held by users and by the manager's fee account
  preferred,           \* preferred_{deposit,withdraw}_validator_vote_address
  max_validator_stake, \* StakePool::max_validator_stake
  fee_account_ok,      \* check_manager_fee_info succeeds
  list,                \* the validator list, by vote account
  reserve,             \* lamports of the reserve stake account
  vstake,              \* validator stake accounts
  tstake,              \* transient stake accounts, by seed
  rewards_active,      \* EpochRewards::active
  drained              \* stake accounts emptied by the last instruction

valueVars == <<total_lamports, pool_token_supply, tokens>>
configVars == <<preferred, max_validator_stake, fee_account_ok>>
stakeVars == <<list, vstake, tstake>>
vars == <<feeVars, valueVars, configVars, stakeVars, reserve, rewards_active, drained>>

\* Where an account that can be taken over lives: a validator, and a seed for
\* its transient account.
Addresses == Validators \X (Seeds \cup {NoValidator})
NotListed == [active |-> 0, transient |-> 0, last_update |-> 0,
              seed |-> CHOOSE s \in Seeds : TRUE, status |-> "NotListed"]
Entry == [active : Nat, transient : Nat, last_update : Nat, seed : Seeds,
          status : Statuses \cup {"NotListed"}]

Listed(v) == list[v].status # "NotListed"
IsActive(v) == list[v].status = "Active"
Transient(v) == tstake[v][list[v].seed]
\* ValidatorStakeInfo::stake_lamports.
StakeLamports(v) == list[v].active + list[v].transient
\* The mint's supply.
MintSupply == tokens["user"] + tokens["manager"]
\* "last_update_epoch < clock.epoch" is the StakeListAndPoolOutOfDate error.
UpToDate == last_update_epoch >= epoch
\* Lamports held by the pool's accounts, and whether the instance has room
\* for more to be brought in from outside.
Held(v) ==
  vstake[v].lamports + MapThenSumSet(LAMBDA s : tstake[v][s].lamports, Seeds)
HasRoomFor(lamports) ==
  reserve + MapThenSumSet(Held, Validators) + lamports <= MaxLamports
\* Mutant of ReserveCanGive: the check is missing.
ReserveGivesAnything(lamports) == TRUE
\* minimum_reserve_lamports: what leaves the reserve must leave its rent.
ReserveCanGive(lamports) == reserve - lamports >= Rent
\* The stake program rejects calls while epoch rewards are distributed.
StakeProgramOpen == ~rewards_active
Minus(a, b) == IF a > b THEN a - b ELSE 0
----------------------------------------------------------------------------
(* Initialize: the reserve's lamports above its rent are the first value   *)
(* of the pool, and as many tokens are minted to the manager.              *)
Init ==
  /\ FeeInit
  /\ total_lamports = InitLamports
  /\ pool_token_supply = InitLamports
  /\ tokens = [h \in Holders |-> IF h = "manager" THEN InitLamports ELSE 0]
  /\ preferred = [o \in Options |-> NoValidator]
  /\ max_validator_stake = NoLimit
  /\ fee_account_ok = TRUE
  /\ list = [v \in Validators |-> NotListed]
  /\ reserve = InitLamports + Rent
  /\ vstake = [v \in Validators |-> Unallocated(0)]
  /\ tstake = [v \in Validators |-> [s \in Seeds |-> Unallocated(0)]]
  /\ rewards_active = FALSE
  /\ drained = {}
----------------------------------------------------------------------------
(* The validator list, by the staker, and its limit, by the manager.       *)

AddValidatorToPool(v) ==
  LET required == MinimumStakeLamports
      lamports == vstake[v].lamports + required
  IN /\ UpToDate /\ StakeProgramOpen
     /\ Cardinality({w \in Validators : Listed(w)}) < MaxValidators
     /\ ~Listed(v)
     /\ ReserveCanGive(required)
     /\ vstake[v].kind = "none"
     /\ reserve' = reserve - required
     /\ vstake' = [vstake EXCEPT ![v] = Delegated(lamports, lamports - Rent, epoch)]
     /\ list' = [list EXCEPT ![v] = [NotListed EXCEPT !.active = required,
                                                     !.last_update = epoch,
                                                     !.status = "Active"]]
     /\ drained' = {}
     /\ UNCHANGED <<feeVars, valueVars, configVars, tstake, rewards_active>>

\* Mutant of PreferredWithout: only deposits are looked at.
PreferredForDepositsWithout(v) ==
  [preferred EXCEPT !["deposit"] = IF @ = v THEN NoValidator ELSE @]
\* The preferred validators once v may no longer be preferred.
PreferredWithout(v) ==
  [o \in Options |-> IF preferred[o] = v THEN NoValidator ELSE preferred[o]]

RemoveValidatorFromPool(v) ==
  LET has_transient == list[v].transient > 0
      t == Transient(v)
  IN /\ UpToDate /\ StakeProgramOpen
     /\ vstake[v].kind = "stake"
     /\ IsActive(v)
     /\ CanDeactivate(vstake[v]) => vstake[v].mine
     /\ vstake' = [vstake EXCEPT ![v] = DeactivatedIfNeeded(@, epoch)]
     /\ tstake' = IF has_transient /\ t.mine
                    THEN [tstake EXCEPT ![v][list[v].seed] = DeactivatedIfNeeded(@, epoch)]
                    ELSE tstake
     /\ list' = [list EXCEPT ![v].status =
                   IF has_transient THEN "DeactivatingAll" ELSE "DeactivatingValidator"]
     /\ preferred' = PreferredWithout(v)
     /\ drained' = {}
     /\ UNCHANGED <<feeVars, valueVars, max_validator_stake, fee_account_ok,
                    reserve, rewards_active>>

\* SetPreferredValidator checks no epoch.
SetPreferredValidator(option, v) ==
  /\ v # NoValidator => IsActive(v)
  /\ preferred' = [preferred EXCEPT ![option] = v]
  /\ drained' = {}
  /\ UNCHANGED <<feeVars, valueVars, max_validator_stake, fee_account_ok,
                 stakeVars, reserve, rewards_active>>

SetMaxValidatorStake(limit) ==
  /\ max_validator_stake' = limit
  /\ drained' = {}
  /\ UNCHANGED <<feeVars, valueVars, preferred, fee_account_ok,
                 stakeVars, reserve, rewards_active>>
----------------------------------------------------------------------------
(* Rebalancing, by the staker.                                             *)

\* Mutant of TransientReady: an account in use is not noticed.
TransientNotInUse(v, seed, ephemeral, in_right_phase) == tstake[v][seed].kind = "none"
\* The transient account named by seed can take part in the call: it is the
\* one in use, and an ephemeral account carries the new part, or there is
\* none in use and its address can be allocated.
TransientReady(v, seed, ephemeral, in_right_phase) ==
  IF list[v].transient > 0
    THEN ephemeral /\ seed = list[v].seed /\ in_right_phase
    ELSE tstake[v][seed].kind = "none"

\* check_if_stake_deactivating and check_if_stake_activating.
DeactivatingNow(a) == a.kind = "stake" /\ a.deactivation = epoch
ActivatingNow(a) ==
  a.kind = "stake" /\ a.deactivation = EpochMax /\ a.activation = epoch

\* What all decreases check, whichever accounts they use.
CanDecrease(v, lamports, seed, ephemeral) ==
  /\ UpToDate /\ StakeProgramOpen
  /\ vstake[v].kind = "stake"
  /\ Listed(v)
  /\ TransientReady(v, seed, ephemeral, DeactivatingNow(Transient(v)))
  /\ IsActive(v)
  /\ lamports >= MinimumDelegation
  /\ vstake[v].lamports - lamports >= MinimumStakeLamports
  /\ lamports <= list[v].active

\* The reserve lends rent to an account that holds funded lamports.
RentFor(funded) == Minus(Rent, funded)
ReserveCanLend(lent) == lent > 0 => ReserveCanGive(lent)

\* What all decreases record: source becomes the validator stake account and
\* target the transient account at seed.
RecordDecrease(v, lamports, seed, source, target, lent) ==
  /\ vstake' = [vstake EXCEPT ![v] = source]
  /\ tstake' = [tstake EXCEPT ![v][seed] = target]
  /\ reserve' = reserve - lent
  /\ list' = [list EXCEPT ![v].active = @ - lamports,
                          ![v].transient = target.lamports,
                          ![v].seed = seed]
  /\ drained' = {}
  /\ UNCHANGED <<feeVars, valueVars, configVars, rewards_active>>

\* DecreaseValidatorStake (fund = FALSE) and DecreaseValidatorStakeWithReserve.
DecreaseValidatorStake(v, lamports, seed, fund) ==
  LET funded == tstake[v][seed].lamports
      lent == IF fund THEN RentFor(funded) ELSE 0
      target == SplitTarget(vstake[v], funded + lent, lamports)
  IN /\ CanDecrease(v, lamports, seed, FALSE)
     /\ fund => lent < reserve
     /\ ReserveCanLend(lent)
     /\ CanSplit(vstake[v], funded + lent, lamports, epoch)
     /\ RecordDecrease(v, lamports, seed, SplitSource(vstake[v], lamports),
                       DeactivatedIfNeeded(target, epoch), lent)

\* DecreaseAdditionalValidatorStake: the part is split into an ephemeral
\* account and deactivated, then moved or merged into the transient account.
DecreaseAdditionalValidatorStake(v, lamports, seed) ==
  LET ephemeral == Deactivated(SplitTarget(vstake[v], Rent, lamports), epoch)
      t == tstake[v][seed]
      merge == list[v].transient > 0
      target == IF merge THEN Merged(t, ephemeral, epoch)
                ELSE SplitTarget(ephemeral, t.lamports, ephemeral.lamports)
  IN /\ CanDecrease(v, lamports, seed, TRUE)
     /\ Rent < reserve /\ ReserveCanLend(Rent)
     /\ CanSplit(vstake[v], Rent, lamports, epoch)
     /\ CanDeactivate(vstake[v])
     /\ IF merge THEN CanMerge(t, ephemeral, epoch)
        ELSE CanSplit(ephemeral, t.lamports, ephemeral.lamports, epoch)
     /\ RecordDecrease(v, lamports, seed, SplitSource(vstake[v], lamports), target, Rent)

\* What increases check. The limit is checked on lamports, while lamports +
\* Rent are moved and recorded.
CanIncrease(v, lamports, seed, ephemeral) ==
  /\ UpToDate /\ StakeProgramOpen
  /\ TransientReady(v, seed, ephemeral, ActivatingNow(Transient(v)))
  /\ vstake[v].kind = "stake" /\ vstake[v].mine
  /\ IsActive(v)
  /\ max_validator_stake # NoLimit => StakeLamports(v) + lamports <= max_validator_stake
  /\ lamports >= MinimumDelegation
  /\ ReserveCanGive(lamports + Rent)

\* The transient account after an increase: a new part, delegated in an
\* ephemeral account, is merged or moved into it, or it is delegated itself.
IncreasedTransient(v, added, seed, ephemeral) ==
  LET t == tstake[v][seed]
  IN IF list[v].transient > 0 THEN Merged(t, added, epoch)
     ELSE IF ephemeral THEN SplitTarget(added, t.lamports, added.lamports)
     ELSE Delegated(t.lamports + added.lamports, t.lamports + added.stake, epoch)

\* IncreaseValidatorStake (ephemeral = FALSE) and
\* IncreaseAdditionalValidatorStake.
IncreaseValidatorStake(v, lamports, seed, ephemeral) ==
  LET moved == lamports + Rent
      added == Delegated(moved, lamports, epoch)
  IN /\ CanIncrease(v, lamports, seed, ephemeral)
     /\ list[v].transient > 0 => CanMerge(tstake[v][seed], added, epoch)
     /\ reserve' = reserve - moved
     /\ tstake' = [tstake EXCEPT ![v][seed] = IncreasedTransient(v, added, seed, ephemeral)]
     /\ list' = [list EXCEPT ![v].transient = @ + moved, ![v].seed = seed]
     /\ drained' = {}
     /\ UNCHANGED <<feeVars, valueVars, configVars, vstake, rewards_active>>
----------------------------------------------------------------------------
(* UpdateValidatorListBalance, by anyone. A call handles a slice of the    *)
(* list, one entry after the other; here each entry is a step of its own.  *)

\* Mutant of RemoveTransientStake: a case is missing.
RemoveOnlyTransientStake(status) ==
  IF status = "DeactivatingTransient" THEN "ReadyForRemoval" ELSE status
\* PodStakeStatus::remove_transient_stake and remove_validator_stake.
RemoveTransientStake(status) ==
  CASE status = "DeactivatingAll" -> "DeactivatingValidator"
    [] status = "DeactivatingTransient" -> "ReadyForRemoval"
    [] OTHER -> status
RemoveValidatorStake(status) ==
  CASE status = "DeactivatingAll" -> "DeactivatingTransient"
    [] status = "DeactivatingValidator" -> "ReadyForRemoval"
    [] OTHER -> status

\* stake_is_inactive_without_history.
InactiveWithoutHistory(a) ==
  a.deactivation < epoch \/ (a.activation = epoch /\ a.deactivation = epoch)

\* Mutant of UsableByPool: the authorities and the lockup are not looked at.
AnyStakeUsable(a) == a.kind # "none"
\* stake_is_usable_by_pool.
UsableByPool(a) == a.mine

\* Merge into the reserve, an initialized account.
CanMergeIntoReserve(a) == a.mine /\ MergeKind(a, epoch) \in {"inactive", "activating"}

\* The state the handler works on for one entry. ok turns FALSE when a CPI
\* fails, which aborts the instruction; found is transient_stake_lamports.
Begin(v) ==
  [ok |-> TRUE, status |-> list[v].status, t |-> Transient(v), vs |-> vstake[v],
   reserve |-> reserve, found |-> 0, active |-> 0]

CountTransient(u) == [u EXCEPT !.found = u.t.lamports]

TransientIntoReserve(u) ==
  [u EXCEPT !.ok = CanMergeIntoReserve(u.t),
            !.reserve = @ + u.t.lamports,
            !.t = Unallocated(0),
            !.status = RemoveTransientStake(@)]

\* Mutant of TransientIntoValidator: the lamports are read before the merge.
TransientCountedTwice(u) ==
  [u EXCEPT !.ok = CanMerge(u.vs, u.t, epoch),
            !.vs = Merged(@, u.t, epoch),
            !.found = u.t.lamports,
            !.t = Unallocated(0)]
TransientIntoValidator(u) ==
  [u EXCEPT !.ok = CanMerge(u.vs, u.t, epoch),
            !.vs = Merged(@, u.t, epoch),
            !.t = Unallocated(0)]

\* The transient account is merged into the validator stake account when
\* both were delegated before this epoch; no more is checked.
ReadyForValidator(u) ==
  /\ u.status = "Active"
  /\ u.t.activation < epoch
  /\ u.vs.kind = "stake" /\ u.vs.activation < epoch

\* First half: the transient stake account.
UpdateTransient(v, no_merge) ==
  LET u == Begin(v)
  IN IF list[v].transient = 0 \/ ~UsableByPool(u.t) THEN u
     ELSE IF no_merge THEN CountTransient(u)
     ELSE IF u.t.kind = "initialized" \/ InactiveWithoutHistory(u.t)
       THEN TransientIntoReserve(u)
     ELSE IF ReadyForValidator(u) THEN TransientIntoValidator(u)
     ELSE IF u.status = "Active" THEN CountTransient(u)
     ELSE CountTransient([u EXCEPT !.t = DeactivatedIfNeeded(@, epoch)])

\* Mutant of SweepExtra: the lamports are withdrawn and not accounted for.
SweepExtraAway(u) == [u EXCEPT !.vs.lamports = @ - ExtraLamports(u.vs)]
\* Unstaked lamports of the validator stake account go to the reserve.
SweepExtra(u) ==
  [u EXCEPT !.reserve = @ + ExtraLamports(u.vs),
            !.vs.lamports = @ - ExtraLamports(u.vs)]

CountValidator(u) == [u EXCEPT !.active = u.vs.lamports]

ValidatorIntoReserve(u, status) ==
  [u EXCEPT !.ok = @ /\ CanMergeIntoReserve(u.vs),
            !.reserve = @ + u.vs.lamports,
            !.vs = Unallocated(0),
            !.status = status]

\* Mutant of DestakedStatus: the transient account is ignored.
DestakedIsReady(found) == "ReadyForRemoval"
\* The status of an entry whose validator stake account was destaked.
DestakedStatus(found) == IF found # 0 THEN "DeactivatingTransient" ELSE "ReadyForRemoval"

\* Second half: the validator stake account. An initialized account was
\* destaked, and is absorbed even with no_merge.
UpdateValidator(u, no_merge) ==
  LET s == SweepExtra(u)
  IN IF ~UsableByPool(u.vs) THEN u
     ELSE IF u.vs.kind = "initialized"
       THEN ValidatorIntoReserve(u, DestakedStatus(u.found))
     ELSE IF u.status \in {"DeactivatingTransient", "ReadyForRemoval"} THEN s
     ELSE IF u.status # "Active" /\ ~no_merge /\ InactiveWithoutHistory(u.vs)
       THEN ValidatorIntoReserve(s, RemoveValidatorStake(u.status))
     ELSE CountValidator(s)

UpdateEntry(v, no_merge) == UpdateValidator(UpdateTransient(v, no_merge), no_merge)

\* The accounts of v that u leaves empty.
Emptied(v, u) ==
  {a \in {<<v, NoValidator>>} : u.vs.kind = "none" /\ vstake[v].kind # "none"}
  \cup {a \in {<<v, list[v].seed>>} : u.t.kind = "none" /\ Transient(v).kind # "none"}
\* What drained becomes; kept empty in instances in which nobody uses it.
Drain(addresses) == IF "hijack" \in Events THEN addresses ELSE {}

\* Mutant of RewardsPaidOut: the update does not wait for the rewards.
RewardsNotAwaited == TRUE
\* EpochRewardDistributionInProgress otherwise.
RewardsPaidOut == StakeProgramOpen

UpdateValidatorListBalance(v, no_merge) ==
  LET u == UpdateEntry(v, no_merge)
  IN /\ RewardsPaidOut
     /\ Listed(v)
     /\ u.ok
     /\ list' = [list EXCEPT ![v].status = u.status, ![v].active = u.active,
                             ![v].transient = u.found, ![v].last_update = epoch]
     /\ vstake' = [vstake EXCEPT ![v] = u.vs]
     /\ tstake' = [tstake EXCEPT ![v][list[v].seed] = u.t]
     /\ reserve' = u.reserve
     /\ drained' = Drain(Emptied(v, u))
     /\ UNCHANGED <<feeVars, valueVars, configVars, rewards_active>>

\* The sum of the entries' active and transient lamports.
ListLamports == MapThenSumSet(StakeLamports, Validators)

\* Mutant of AllFresh: the current epoch is too old.
AllFresher == \A v \in Validators : Listed(v) => list[v].last_update > epoch
\* StakeListOutOfDate otherwise.
AllFresh == \A v \in Validators : Listed(v) => list[v].last_update >= epoch

\* total becomes the value of the pool, and the manager is paid a fee on what
\* is new in it, if the fee account can take it.
Accrue(total) ==
  LET reward == Minus(total, total_lamports)
      minted == IF fee_account_ok
                  THEN EpochFeeTokens(total_lamports, pool_token_supply, fees["epoch"], reward)
                  ELSE 0
  IN /\ total \in 0..U64Max
     /\ total_lamports' = total
     /\ pool_token_supply' = MintSupply + minted
     /\ tokens' = [tokens EXCEPT !["manager"] = @ + minted]

\* Mutant of UpdateStakePoolBalance: the fees that are due are left waiting.
UpdateStakePoolBalanceOnly ==
  /\ AllFresh
  /\ reserve >= Rent
  /\ Accrue(reserve - Rent + ListLamports)
  /\ last_update_epoch' = epoch
  /\ drained' = {}
  /\ UNCHANGED <<epoch, fees, referral_fees, next_fees, announced,
                 configVars, stakeVars, reserve, rewards_active>>
\* UpdateStakePoolBalance, by anyone.
UpdateStakePoolBalance ==
  /\ AllFresh
  /\ reserve >= Rent
  /\ Accrue(reserve - Rent + ListLamports)
  /\ AdvanceFees
  /\ drained' = {}
  /\ UNCHANGED <<configVars, stakeVars, reserve, rewards_active>>

\* Mutant of IsRemoved: an entry that still waits for its stake.
IsNotActive(e) == e.status # "Active"
\* ValidatorStakeInfo::is_removed.
IsRemoved(e) == e.status = "ReadyForRemoval" /\ e.active = 0 /\ e.transient = 0

\* Mutant of StillPreferred: a validator that is not found is kept.
MissingIsPreferred(v, entries) == entries[v].status \in {"Active", "NotListed"}
\* should_reset is false for v.
StillPreferred(v, entries) == entries[v].status = "Active"

\* CleanupRemovedValidatorEntries, by anyone; the preferred validators are
\* only looked at when the pool account is passed as writable.
CleanupRemovedValidatorEntries(writable) ==
  /\ list' = [v \in Validators |-> IF IsRemoved(list[v]) THEN NotListed ELSE list[v]]
  /\ preferred' = [o \in Options |->
       IF writable /\ preferred[o] # NoValidator /\ ~StillPreferred(preferred[o], list')
         THEN NoValidator ELSE preferred[o]]
  /\ drained' = {}
  /\ UNCHANGED <<feeVars, valueVars, max_validator_stake, fee_account_ok,
                 vstake, tstake, reserve, rewards_active>>
----------------------------------------------------------------------------
(* Deposits.                                                               *)

\* Minting: the referrer is a user; a fee needs a valid fee account, there
\* is no bypass.
Mint(shares) ==
  /\ shares.user > 0
  /\ shares.manager > 0 => fee_account_ok
  /\ tokens' = [tokens EXCEPT !["user"] = @ + shares.user + shares.referrer,
                              !["manager"] = @ + shares.manager]

\* The stake accounts a user may deposit with v: active, activating, or
\* never delegated, each with its rent.
UserStakes ==
  UNION {{[Delegated(l + Rent, l, 0) EXCEPT !.activation = e] : e \in {0, epoch}}
           \cup {Initialized(l + Rent, TRUE)} : l \in DepositAmounts}

DepositStake(v, user_stake) ==
  LET merged == Merged(vstake[v], user_stake, epoch)
      total == merged.lamports - vstake[v].lamports
      from_stake == merged.stake - vstake[v].stake
      sol == total - from_stake
      T == total_lamports
      S == pool_token_supply
      minted == PoolTokensForDeposit(T, S, total)
      minted_stake == PoolTokensForDeposit(T, S, from_stake)
  IN /\ UpToDate /\ StakeProgramOpen
     /\ vstake[v].kind = "stake"
     /\ preferred["deposit"] \in {NoValidator, v}
     /\ IsActive(v)
     /\ CanMerge(vstake[v], user_stake, epoch)
     /\ HasRoomFor(total)
     /\ Mint(DepositShares(fees, referral_fees["stake_referral"],
                           minted_stake, minted - minted_stake))
     /\ vstake' = [vstake EXCEPT ![v] = [merged EXCEPT !.lamports = @ - sol]]
     /\ reserve' = reserve + sol
     /\ list' = [list EXCEPT ![v].active = merged.lamports - sol]
     /\ total_lamports' = T + total
     /\ pool_token_supply' = S + minted
     /\ drained' = {}
     /\ UNCHANGED <<feeVars, configVars, tstake, rewards_active>>

DepositSol(lamports) ==
  LET minted == PoolTokensForDeposit(total_lamports, pool_token_supply, lamports)
  IN /\ UpToDate
     /\ HasRoomFor(lamports)
     /\ Mint(DepositShares(fees, referral_fees["sol_referral"], 0, minted))
     /\ reserve' = reserve + lamports
     /\ total_lamports' = total_lamports + lamports
     /\ pool_token_supply' = pool_token_supply + minted
     /\ drained' = {}
     /\ UNCHANGED <<feeVars, configVars, stakeVars, rewards_active>>
----------------------------------------------------------------------------
(* Withdrawals.                                                            *)

\* The manager's own fee account pays no fee, and nobody pays one while that
\* account is invalid.
WithdrawalFee(fee, holder, amount) ==
  IF holder = "manager" \/ ~fee_account_ok THEN 0 ELSE Apply(fee, amount)

WithdrawLamports(kind, holder, amount) ==
  LamportsForWithdrawal(total_lamports, pool_token_supply,
                        amount - WithdrawalFee(fees[kind], holder, amount))

\* Burn amount less the fee, pay the fee, and take lamports off the pool.
Redeem(kind, holder, amount, lamports) ==
  LET fee == WithdrawalFee(fees[kind], holder, amount)
      burnt == amount - fee
  IN /\ amount <= tokens[holder]
     /\ burnt <= pool_token_supply
     /\ lamports <= total_lamports
     /\ tokens' = [[tokens EXCEPT ![holder] = @ - amount] EXCEPT !["manager"] = @ + fee]
     /\ pool_token_supply' = pool_token_supply - burnt
     /\ total_lamports' = total_lamports - lamports

\* WithdrawSol.
WithdrawSol(holder, amount) ==
  LET lamports == WithdrawLamports("sol_withdrawal", holder, amount)
  IN /\ UpToDate /\ StakeProgramOpen
     /\ lamports > 0
     /\ ReserveCanGive(lamports)
     /\ Redeem("sol_withdrawal", holder, amount, lamports)
     /\ reserve' = reserve - lamports
     /\ drained' = {}
     /\ UNCHANGED <<feeVars, configVars, stakeVars, rewards_active>>

\* minimum_lamports_with_tolerance, has_active_stake, has_transient_stake.
Tolerance == LamportsPerPoolToken(total_lamports, pool_token_supply)
Withdrawable == MinimumStakeLamports + Tolerance
HasActiveStake == \E v \in Validators : IsActive(v) /\ list[v].active > Withdrawable
HasTransientStake == \E v \in Validators : IsActive(v) /\ list[v].transient > Withdrawable

\* What every WithdrawStake checks first. The new account is funded with its
\* rent by the user.
CanWithdrawStake(lamports) ==
  /\ UpToDate /\ StakeProgramOpen
  /\ lamports > 0

\* The preferred validator does not have to be used before v.
PreferredAllows(v) ==
  LET p == preferred["withdraw"]
  IN p \notin {NoValidator, v} => ~Listed(p) \/ list[p].active <= Withdrawable

\* WithdrawStake from the reserve, once no entry has enough stake.
WithdrawStakeFromReserve(holder, amount) ==
  LET lamports == WithdrawLamports("stake_withdrawal", holder, amount)
  IN /\ CanWithdrawStake(lamports)
     /\ ~HasActiveStake /\ ~HasTransientStake
     /\ ReserveCanGive(lamports)
     /\ Redeem("stake_withdrawal", holder, amount, lamports)
     /\ reserve' = reserve - lamports
     /\ drained' = {}
     /\ UNCHANGED <<feeVars, configVars, stakeVars, rewards_active>>

\* StakeWithdrawSource::Active.
WithdrawActiveStake(v, holder, amount) ==
  LET lamports == WithdrawLamports("stake_withdrawal", holder, amount)
  IN /\ CanWithdrawStake(lamports)
     /\ HasActiveStake
     /\ PreferredAllows(v)
     /\ IsActive(v)
     /\ vstake[v].lamports - lamports >= MinimumStakeLamports
     /\ CanSplit(vstake[v], Rent, lamports, epoch)
     /\ lamports <= list[v].active
     /\ Redeem("stake_withdrawal", holder, amount, lamports)
     /\ vstake' = [vstake EXCEPT ![v] = SplitSource(@, lamports)]
     /\ list' = [list EXCEPT ![v].active = @ - lamports]
     /\ drained' = {}
     /\ UNCHANGED <<feeVars, configVars, tstake, reserve, rewards_active>>

\* StakeWithdrawSource::Transient.
WithdrawTransientStake(v, holder, amount) ==
  LET lamports == WithdrawLamports("stake_withdrawal", holder, amount)
  IN /\ CanWithdrawStake(lamports)
     /\ ~HasActiveStake
     /\ HasTransientStake \/ list[v].transient # 0
     /\ PreferredAllows(v)
     /\ IsActive(v)
     /\ Transient(v).lamports - lamports >= MinimumStakeLamports
     /\ CanSplit(Transient(v), Rent, lamports, epoch)
     /\ lamports <= list[v].transient
     /\ Redeem("stake_withdrawal", holder, amount, lamports)
     /\ tstake' = [tstake EXCEPT ![v][list[v].seed] = SplitSource(@, lamports)]
     /\ list' = [list EXCEPT ![v].transient = @ - lamports]
     /\ drained' = {}
     /\ UNCHANGED <<feeVars, configVars, vstake, reserve, rewards_active>>

\* StakeWithdrawSource::ValidatorRemoval: the whole validator stake account,
\* for tokens worth at least its lamports and at most one token more.
WithdrawWholeValidator(v, holder, amount) ==
  LET asked == WithdrawLamports("stake_withdrawal", holder, amount)
      lamports == vstake[v].lamports
  IN /\ CanWithdrawStake(asked)
     /\ ~HasActiveStake /\ ~HasTransientStake
     /\ list[v].transient = 0
     /\ PreferredAllows(v)
     /\ IsActive(v)
     /\ asked \in lamports..(lamports + Tolerance)
     /\ CanSplit(vstake[v], Rent, lamports, epoch)
     /\ list[v].active = lamports
     /\ Redeem("stake_withdrawal", holder, amount, lamports)
     /\ vstake' = [vstake EXCEPT ![v] = Unallocated(0)]
     /\ list' = [list EXCEPT ![v].active = 0, ![v].status = "ReadyForRemoval"]
     /\ preferred' = PreferredWithout(v)
     /\ drained' = Drain({<<v, NoValidator>>})
     /\ UNCHANGED <<feeVars, max_validator_stake, fee_account_ok, tstake,
                    reserve, rewards_active>>
----------------------------------------------------------------------------
(* Fees, by the manager, and the manager's fee account.                    *)

ChangeFees(step) ==
  /\ step
  /\ drained' = {}
  /\ UNCHANGED <<valueVars, configVars, stakeVars, reserve, rewards_active>>

\* The manager closes the fee account; SetManager installs a valid one.
CloseFeeAccount ==
  /\ "fee_account" \in Events /\ fee_account_ok
  /\ fee_account_ok' = FALSE
  /\ drained' = {}
  /\ UNCHANGED <<feeVars, valueVars, preferred, max_validator_stake, stakeVars,
                 reserve, rewards_active>>

ReplaceFeeAccount ==
  /\ "fee_account" \in Events
  /\ fee_account_ok' = TRUE
  /\ drained' = {}
  /\ UNCHANGED <<feeVars, valueVars, preferred, max_validator_stake, stakeVars,
                 reserve, rewards_active>>
----------------------------------------------------------------------------
(* The cluster and third parties.                                          *)

\* A new epoch begins, and with it the distribution of rewards.
NewEpoch ==
  /\ AdvanceClock
  /\ ~rewards_active
  /\ rewards_active' = TRUE
  /\ drained' = {}
  /\ UNCHANGED <<valueVars, configVars, stakeVars, reserve>>

\* The distribution ends: the stakes of the validators in W that were
\* effective in the last epoch have earned r lamports each.
Earned(a, r) ==
  IF Effective(a, epoch - 1) THEN [a EXCEPT !.lamports = @ + r, !.stake = @ + r] ELSE a

DistributeRewards(W, r) ==
  /\ rewards_active
  /\ rewards_active' = FALSE
  /\ vstake' = [v \in Validators |-> IF v \in W THEN Earned(vstake[v], r) ELSE vstake[v]]
  /\ tstake' = [v \in Validators |-> [s \in Seeds |->
                  IF v \in W THEN Earned(tstake[v][s], r) ELSE tstake[v][s]]]
  /\ drained' = {}
  /\ UNCHANGED <<feeVars, valueVars, configVars, list, reserve>>

Environment == UNCHANGED <<feeVars, valueVars, configVars, list, rewards_active>>

\* Anyone may send lamports to the accounts of the pool ...
DonateToReserve(d) ==
  /\ "donate" \in Events
  /\ HasRoomFor(d)
  /\ reserve' = reserve + d
  /\ drained' = {}
  /\ UNCHANGED <<vstake, tstake>> /\ Environment

DonateToValidator(v, d) ==
  /\ "donate" \in Events
  /\ vstake[v].mine /\ HasRoomFor(d)
  /\ vstake' = [vstake EXCEPT ![v].lamports = @ + d]
  /\ drained' = {}
  /\ UNCHANGED <<tstake, reserve>> /\ Environment

DonateToTransient(v, d) ==
  /\ "donate" \in Events
  /\ Transient(v).mine /\ HasRoomFor(d)
  /\ tstake' = [tstake EXCEPT ![v][list[v].seed].lamports = @ + d]
  /\ drained' = {}
  /\ UNCHANGED <<vstake, reserve>> /\ Environment

\* ... and to addresses that are not allocated yet.
Prefund(v, s, d) ==
  /\ "prefund" \in Events
  /\ tstake[v][s] = Unallocated(0) /\ HasRoomFor(d)
  /\ tstake' = [tstake EXCEPT ![v][s] = Unallocated(d)]
  /\ drained' = {}
  /\ UNCHANGED <<vstake, reserve>> /\ Environment

PrefundValidator(v, d) ==
  /\ "prefund" \in Events
  /\ vstake[v] = Unallocated(0) /\ HasRoomFor(d)
  /\ vstake' = [vstake EXCEPT ![v] = Unallocated(d)]
  /\ drained' = {}
  /\ UNCHANGED <<tstake, reserve>> /\ Environment

\* Anyone may deactivate the stake of a delinquent validator.
DeactivateDelinquent(v) ==
  /\ "delinquent" \in Events /\ StakeProgramOpen
  /\ CanDeactivate(vstake[v])
  /\ vstake' = [vstake EXCEPT ![v] = Deactivated(@, epoch)]
  /\ drained' = {}
  /\ UNCHANGED <<tstake, reserve>> /\ Environment

DeactivateDelinquentTransient(v) ==
  /\ "delinquent" \in Events /\ StakeProgramOpen
  /\ CanDeactivate(Transient(v))
  /\ tstake' = [tstake EXCEPT ![v][list[v].seed] = Deactivated(@, epoch)]
  /\ drained' = {}
  /\ UNCHANGED <<vstake, reserve>> /\ Environment

\* A cluster restart may strip a vote account of all its stake.
Destaked(a) == IF a.kind = "stake" THEN Initialized(a.lamports, a.mine) ELSE a
ForceDestake(v) ==
  /\ "destake" \in Events
  /\ vstake[v].kind = "stake"
  /\ vstake' = [vstake EXCEPT ![v] = Destaked(@)]
  /\ tstake' = [tstake EXCEPT ![v] = [s \in Seeds |-> Destaked(@[s])]]
  /\ drained' = {}
  /\ UNCHANGED reserve /\ Environment

\* An account emptied by an instruction belongs to the stake program until
\* the transaction ends: a later instruction of it can fund and initialize
\* it, with an authority of its choice.
HijackValidator(v, mine) ==
  /\ "hijack" \in Events /\ StakeProgramOpen /\ HasRoomFor(Rent)
  /\ <<v, NoValidator>> \in drained
  /\ vstake' = [vstake EXCEPT ![v] = Initialized(Rent, mine)]
  /\ drained' = drained \ {<<v, NoValidator>>}
  /\ UNCHANGED <<tstake, reserve>> /\ Environment

HijackTransient(v, s, mine) ==
  /\ "hijack" \in Events /\ StakeProgramOpen /\ HasRoomFor(Rent)
  /\ <<v, s>> \in drained
  /\ tstake' = [tstake EXCEPT ![v][s] = Initialized(Rent, mine)]
  /\ drained' = drained \ {<<v, s>>}
  /\ UNCHANGED <<vstake, reserve>> /\ Environment

\* Token holders may burn tokens without telling the pool.
BurnTokens(holder, amount) ==
  /\ "burn" \in Events
  /\ amount <= tokens[holder]
  /\ tokens' = [tokens EXCEPT ![holder] = @ - amount]
  /\ drained' = {}
  /\ UNCHANGED <<feeVars, total_lamports, pool_token_supply, configVars, stakeVars,
                 reserve, rewards_active>>
----------------------------------------------------------------------------
Staker(v) ==
  \/ AddValidatorToPool(v)
  \/ RemoveValidatorFromPool(v)
  \/ "preferred" \in Events /\ \E o \in Options : SetPreferredValidator(o, v)
  \/ \E l \in MoveAmounts, s \in Seeds :
       \/ \E fund \in BOOLEAN : DecreaseValidatorStake(v, l, s, fund)
       \/ DecreaseAdditionalValidatorStake(v, l, s)
       \/ \E ephemeral \in BOOLEAN : IncreaseValidatorStake(v, l, s, ephemeral)

User ==
  \/ \E l \in DepositAmounts : DepositSol(l)
  \/ \E v \in Validators, u \in UserStakes : DepositStake(v, u)
  \/ \E h \in Holders, a \in WithdrawAmounts :
       \/ WithdrawSol(h, a)
       \/ WithdrawStakeFromReserve(h, a)
       \/ \E v \in Validators :
            \/ WithdrawActiveStake(v, h, a)
            \/ WithdrawTransientStake(v, h, a)
            \/ WithdrawWholeValidator(v, h, a)

Manager ==
  \/ \E k \in SettableFees, f \in FeeChoices : ChangeFees(SetFee(k, f))
  \/ \E k \in ReferralTypes, p \in ReferralChoices : ChangeFees(SetReferralFee(k, p))
  \/ StakeLimits # {} /\ \E m \in StakeLimits \cup {NoLimit} : SetMaxValidatorStake(m)
  \/ CloseFeeAccount
  \/ ReplaceFeeAccount

\* Instructions anyone may send to keep the pool up to date.
Crank ==
  \/ \E v \in Validators, no_merge \in BOOLEAN : UpdateValidatorListBalance(v, no_merge)
  \/ UpdateStakePoolBalance
  \/ \E writable \in BOOLEAN : CleanupRemovedValidatorEntries(writable)

Cluster ==
  \/ NewEpoch
  \/ \E W \in SUBSET Validators, r \in Rewards : DistributeRewards(W, r)

Outsiders ==
  \/ \E d \in Donations :
       \/ DonateToReserve(d)
       \/ \E v \in Validators : DonateToValidator(v, d) \/ DonateToTransient(v, d)
  \/ \E v \in Validators, d \in Prefunds :
       \/ PrefundValidator(v, d)
       \/ \E s \in Seeds : Prefund(v, s, d)
  \/ \E v \in Validators :
       \/ DeactivateDelinquent(v) \/ DeactivateDelinquentTransient(v)
       \/ ForceDestake(v)
       \/ \E mine \in BOOLEAN :
            HijackValidator(v, mine) \/ \E s \in Seeds : HijackTransient(v, s, mine)
  \/ \E h \in Holders, a \in WithdrawAmounts : BurnTokens(h, a)

Next ==
  \/ \E v \in Validators : Staker(v)
  \/ "preferred" \in Events /\ \E o \in Options : SetPreferredValidator(o, NoValidator)
  \/ User \/ Manager \/ Crank \/ Cluster \/ Outsiders

Spec == Init /\ [][Next]_vars

Value == INSTANCE PoolValue WITH T <- total_lamports, S <- pool_token_supply
----------------------------------------------------------------------------
\* Types of the pool's state.
TypeOK ==
  /\ FeeTypeOK
  /\ total_lamports \in Nat /\ pool_token_supply \in Nat
  /\ tokens \in [Holders -> Nat]
  /\ preferred \in [Options -> Validators \cup {NoValidator}]
  /\ max_validator_stake \in Nat \cup {NoLimit}
  /\ fee_account_ok \in BOOLEAN
  /\ list \in [Validators -> Entry]
  /\ reserve \in Nat
  /\ vstake \in [Validators -> Account]
  /\ tstake \in [Validators -> [Seeds -> Account]]
  /\ rewards_active \in BOOLEAN
  /\ drained \subseteq Addresses

\* Every lamport the validator list records is held by a stake account that
\* the pool controls. Increases, decreases, merges, deposits, withdrawals and
\* removals change record and account by amounts computed apart, and anyone
\* may add lamports or take over an emptied address between two of them.
ActiveBacked(v) ==
  list[v].active > 0 => vstake[v].mine /\ list[v].active <= vstake[v].lamports
TransientBacked(v) ==
  list[v].transient > 0 => Transient(v).mine /\ list[v].transient <= Transient(v).lamports
Backed == \A v \in Validators : ActiveBacked(v) /\ TransientBacked(v)

\* The value the pool advertises never exceeds what the reserve and the
\* records hold, and the reserve keeps its rent: an UpdateStakePoolBalance
\* never finds a loss that its saturating_sub would hide.
LedgerSolvent ==
  /\ reserve >= Rent
  /\ total_lamports <= reserve - Rent + ListLamports

\* The pool's idea of its token supply, which prices deposits, is never below
\* the mint's supply, which holders can lower by burning.
SupplyCoversMint == MintSupply <= pool_token_supply

\* The pool implements PoolValue: whatever the amounts, the fees, the
\* rounding of the conversions, the rewards, and the tokens and lamports that
\* appear or disappear behind the pool's back, each instruction deposits,
\* redeems or accrues without lowering the worth of a token.
HoldersNeverDiluted == Value!Spec

\* The fee schedule of the pool is the one FeeSchedule describes, whatever
\* the other instructions do between its steps.
FollowsFeeSchedule == FeeSpec

\* Stake delegated by the pool is never forgotten: a validator stake account
\* belongs to an entry that will still absorb it, and a transient account is
\* the one whose seed its entry records. An increase delegates lamports that
\* somebody sent to the address of the transient account before, and records
\* only its own; if those are enough for a stake account of their own, a
\* withdrawal of all that is recorded leaves them behind, delegated.
SmallPrefunds == \A d \in Prefunds : d < Rent + StakeMinimum
NoOrphanedStake ==
  \A v \in Validators :
    /\ vstake[v].kind = "stake" =>
         list[v].status \in {"Active", "DeactivatingValidator", "DeactivatingAll"}
    /\ SmallPrefunds => \A s \in Seeds :
         tstake[v][s].kind = "stake" => s = list[v].seed /\ list[v].transient > 0

\* The status of an entry agrees with what it still records: "ready for
\* removal" entries hold nothing, and the two deactivating states that wait
\* for a transient account have one. RemoveValidatorFromPool, the destaked
\* branch of UpdateValidatorListBalance and WithdrawStake all set it.
StatusMatchesRecord ==
  \A v \in Validators :
    LET e == list[v]
    IN /\ e.status \in {"NotListed", "ReadyForRemoval"} => e.active = 0 /\ e.transient = 0
       /\ e.status = "DeactivatingValidator" => e.transient = 0
       /\ e.status = "DeactivatingTransient" => e.active = 0 /\ e.transient > 0
       /\ e.status = "DeactivatingAll" => e.transient > 0

\* The order in which an entry goes through its statuses.
Stage(status) ==
  CASE status = "Active" -> 0
    [] status = "DeactivatingAll" -> 1
    [] status \in {"DeactivatingValidator", "DeactivatingTransient"} -> 2
    [] status = "ReadyForRemoval" -> 3
    [] status = "NotListed" -> 4

\* An entry only moves towards its removal, leaves the list only from
\* ReadyForRemoval and with nothing recorded, and comes back only as a new
\* entry. The status is written by two independent halves of one update, by
\* the destaked branch that overwrites it, and by two other instructions.
RemovalOnlyAdvances ==
  [][\A v \in Validators :
       LET old == list[v].status
           new == list'[v].status
       IN old # new =>
            IF old = "NotListed" THEN new = "Active"
            ELSE /\ Stage(old) < Stage(new)
                 /\ new = "NotListed" => old = "ReadyForRemoval" /\ StakeLamports(v) = 0]_vars

\* While no cluster restart destakes a validator, a preferred validator is an
\* active one: otherwise every stake deposit would be refused
\* (IncorrectDepositVoteAddress or ValidatorNotFound) until somebody resets it.
PreferredIsActive ==
  "destake" \notin Events =>
    \A o \in Options : preferred[o] # NoValidator => IsActive(preferred[o])

\* Unless lamports arrive unannounced, an entry updated in this epoch records
\* exactly the lamports of its validator stake account: no reward lands after
\* the update that should have counted it.
FreshRecordsExact ==
  Events \cap {"donate", "prefund", "hijack"} = {} =>
    \A v \in Validators :
      Listed(v) /\ list[v].last_update = epoch => list[v].active = vstake[v].lamports

\* The stake of a takes more than an epoch to warm up or to cool down, and
\* is in the middle of it.
PartlyEffective(a) ==
  /\ a.kind = "stake"
  /\ \/ a.activation < epoch /\ epoch < a.activation + WarmupEpochs
     \/ a.deactivation < epoch /\ epoch < a.deactivation + WarmupEpochs

\* A merging update never fails on an entry that is being removed, whatever
\* state its accounts are in, so a removal can always be finished; on an
\* active entry it fails only when one of the two accounts was deactivated.
\* The exception are stakes that take several epochs to move, for which
\* stake_is_inactive_without_history and "activation_epoch < clock.epoch"
\* foresee a Merge that the stake program, which consults the history, refuses.
RemovalNeverBlocked ==
  \A v \in Validators :
    Listed(v) /\ ~UpdateEntry(v, FALSE).ok =>
      \/ \E a \in {Transient(v), vstake[v]} : PartlyEffective(a)
      \/ /\ IsActive(v)
         /\ {Transient(v).deactivation, vstake[v].deactivation} # {EpochMax}

\* UpdateValidatorListBalance leaves the transient account of an entry alone
\* when it can be merged nowhere yet ("deactivating -> nothing, just account
\* its lamports"), rather than fail the whole call.
MergingUpdateNeverAborts ==
  ~rewards_active => \A v \in Validators : Listed(v) => UpdateEntry(v, FALSE).ok
----------------------------------------------------------------------------
\* The epochs and the distributions of their rewards follow one another, and
\* somebody always runs the update of the pool again: the instructions of
\* update_stake_pool, with or without merging, need no signature, and the CLI
\* sends them before every other command.
Fairness ==
  /\ WF_vars(Cluster)
  /\ \A v \in Validators :
       /\ WF_vars(UpdateValidatorListBalance(v, TRUE))
       /\ WF_vars(UpdateValidatorListBalance(v, FALSE))
  /\ WF_vars(UpdateStakePoolBalance)
  /\ WF_vars(CleanupRemovedValidatorEntries(TRUE))

FairSpec == Spec /\ Fairness

\* A pool that is out of date, and so refuses its users, is brought up to
\* date again, whatever state the validators' stake accounts are in: every
\* entry can be updated, and none is left behind.
PoolCatchesUp == ~UpToDate ~> UpToDate

\* The stake of v has been deactivated early enough for the last epoch of the
\* instance to find it inactive.
CoolsDown(v) ==
  \A a \in {vstake[v], Transient(v)} : a.kind = "stake" => a.deactivation + WarmupEpochs <= MaxEpoch
\* A validator that leaves the pool is off the list in the end, its stake
\* absorbed by the reserve, however updates with and without merging, users
\* and other validators are interleaved.
RemovalCompletes ==
  \A v \in Validators :
    list[v].status \notin {"Active", "NotListed"} /\ CoolsDown(v) ~> ~Listed(v)

\* Preferred validators that a cluster restart has destaked do not refuse
\* deposits for ever: the cleanup that ends each update resets them all.
StalePreferred ==
  \E o \in Options : preferred[o] # NoValidator /\ ~IsActive(preferred[o])
PreferredHeals == StalePreferred ~> ~StalePreferred
============================================================================
