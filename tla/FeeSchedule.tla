---------------------------- MODULE FeeSchedule ----------------------------
(***************************************************************************)
(* The fees of a stake pool and the schedule on which they change:         *)
(* SetFee (processor.rs process_set_fee, state.rs update_fee), the         *)
(* two-epoch notice of FutureEpoch, and the rotation that                  *)
(* UpdateStakePoolBalance makes the first time it runs in an epoch.        *)
(*                                                                         *)
(* StakePool extends this module: its UpdateStakePoolBalance contains      *)
(* AdvanceFees, and its SetFee is the SetFee below.                        *)
(***************************************************************************)
EXTENDS Integers

CONSTANTS
  SettableFees,   \* bound: the fee types the manager sets in the instance
  FeeChoices,     \* the fees the manager may propose
  ReferralChoices,\* the referral percentages (u8) the manager may propose
  InitFees,       \* the fees given to Initialize
  InitReferrals,  \* the referral percentages given to Initialize
  U128Max,        \* largest value of the u128 products of check_withdrawal
  BaselineFee,    \* WITHDRAWAL_BASELINE_FEE
  MaxIncrease,    \* MAX_WITHDRAWAL_FEE_INCREASE, as a Fee
  MaxEpoch        \* bound on the number of epochs explored

Fee == [numerator : Nat, denominator : Nat]

\* Fees that change only after two epoch boundaries, and those set at once.
WithdrawalFees == {"stake_withdrawal", "sol_withdrawal"}
FutureFees == WithdrawalFees \cup {"epoch"}
ImmediateFees == {"stake_deposit", "sol_deposit"}
FeeTypes == FutureFees \cup ImmediateFees
ReferralTypes == {"stake_referral", "sol_referral"}

\* FeeType::check_too_high.
NotTooHigh(fee) == fee.numerator <= fee.denominator

ASSUME FeeAssumption ==
  /\ SettableFees \subseteq FeeTypes /\ FeeChoices \subseteq Fee
  /\ ReferralChoices \subseteq Nat
  /\ InitFees \in [FeeTypes -> Fee]
  /\ \A k \in FeeTypes : NotTooHigh(InitFees[k])
  /\ \A k, l \in WithdrawalFees : InitFees[k] = InitFees[l]
  /\ \A k, l \in ImmediateFees : InitFees[k] = InitFees[l]
  /\ InitReferrals \in [ReferralTypes -> 0..100]
  /\ BaselineFee \in Fee /\ MaxIncrease \in Fee
  /\ U128Max \in Nat /\ MaxEpoch \in Nat

VARIABLES
  epoch,             \* Clock::epoch
  last_update_epoch, \* StakePool::last_update_epoch
  fees,              \* the fees in force
  referral_fees,     \* stake_referral_fee, sol_referral_fee
  next_fees,         \* next_epoch_fee, next_stake_withdrawal_fee, ...
  announced          \* history: the epoch in which each future fee was last set

feeVars == <<epoch, last_update_epoch, fees, referral_fees, next_fees, announced>>

\* FutureEpoch<Fee>: wait is the number of epoch boundaries left, 0 for None.
FutureEpoch == [wait : 0..2, fee : Fee]
NoFee == [numerator |-> 0, denominator |-> 0]
FutureNone == [wait |-> 0, fee |-> NoFee]
FutureNew(fee) == [wait |-> 2, fee |-> fee]
\* FutureEpoch::update_epoch.
UpdateEpoch(f) == IF f.wait = 2 THEN [f EXCEPT !.wait = 1] ELSE FutureNone
\* FutureEpoch::get, applied to the fee it replaces.
GetOr(f, current) == IF f.wait = 1 THEN f.fee ELSE current
----------------------------------------------------------------------------
\* Option<u128>: an overflowing product is None, which Rust orders below
\* every Some.
None == -1
CheckedMul(a, b) == IF a * b <= U128Max THEN a * b ELSE None
OptionMul(a, b) == IF a = None THEN None ELSE CheckedMul(a, b)

\* The fee a new withdrawal fee is measured against.
WithdrawalBaseline(old) ==
  IF old.denominator = 0 \/ old.numerator = 0 THEN BaselineFee ELSE old

\* Fee::check_withdrawal: the first product of each side fails the call on
\* overflow, the second one is compared as an Option.
CheckWithdrawal(new, old) ==
  LET base == WithdrawalBaseline(old)
      allowed == CheckedMul(base.numerator, new.denominator)
      asked == CheckedMul(new.numerator, base.denominator)
  IN /\ allowed # None
     /\ asked # None
     /\ ~ (OptionMul(allowed, MaxIncrease.numerator)
             < OptionMul(asked, MaxIncrease.denominator))

\* Mutants of ValidFee: the fee may be above the whole; it is measured
\* against the fee that waits instead of the one in force.
ValidWithdrawalFee(kind, fee) ==
  kind \in WithdrawalFees => CheckWithdrawal(fee, fees[kind])
ValidAgainstPending(kind, fee) ==
  /\ NotTooHigh(fee)
  /\ kind \in WithdrawalFees =>
       CheckWithdrawal(fee, IF next_fees[kind].wait = 0 THEN fees[kind]
                                                        ELSE next_fees[kind].fee)
\* FeeType::check_too_high, then StakePool::update_fee.
ValidFee(kind, fee) ==
  /\ NotTooHigh(fee)
  /\ kind \in WithdrawalFees => CheckWithdrawal(fee, fees[kind])

\* FeeType::can_only_change_next_epoch: such a fee needs an up-to-date pool.
CanSetNow(kind) == kind \in FutureFees => last_update_epoch >= epoch

\* SetFee, for the fee types that are a Fee.
SetFee(kind, fee) ==
  /\ CanSetNow(kind)
  /\ ValidFee(kind, fee)
  /\ IF kind \in FutureFees
       THEN /\ next_fees' = [next_fees EXCEPT ![kind] = FutureNew(fee)]
            /\ announced' = [announced EXCEPT ![kind] = epoch]
            /\ UNCHANGED fees
       ELSE /\ fees' = [fees EXCEPT ![kind] = fee]
            /\ UNCHANGED <<next_fees, announced>>
  /\ UNCHANGED <<epoch, last_update_epoch, referral_fees>>

\* SetFee, for the referral percentages.
SetReferralFee(kind, percent) ==
  /\ percent <= 100
  /\ referral_fees' = [referral_fees EXCEPT ![kind] = percent]
  /\ UNCHANGED <<epoch, last_update_epoch, fees, next_fees, announced>>

\* Mutant of FirstInEpoch: every update counts as an epoch.
EveryUpdate == TRUE
\* The update is the first of its epoch.
FirstInEpoch == last_update_epoch < epoch
\* The part of UpdateStakePoolBalance that rotates the fees: nothing on the
\* second and later calls of an epoch.
AdvanceFees ==
  /\ IF FirstInEpoch
       THEN /\ fees' = [k \in FeeTypes |->
                          IF k \in FutureFees THEN GetOr(next_fees[k], fees[k])
                                              ELSE fees[k]]
            /\ next_fees' = [k \in FutureFees |-> UpdateEpoch(next_fees[k])]
            /\ last_update_epoch' = epoch
       ELSE UNCHANGED <<fees, next_fees, last_update_epoch>>
  /\ UNCHANGED <<epoch, referral_fees, announced>>

\* The cluster enters the next epoch.
AdvanceClock ==
  /\ epoch < MaxEpoch
  /\ epoch' = epoch + 1
  /\ UNCHANGED <<last_update_epoch, fees, referral_fees, next_fees, announced>>

FeeInit ==
  /\ epoch = 0
  /\ last_update_epoch = 0
  /\ fees = InitFees
  /\ referral_fees = InitReferrals
  /\ next_fees = [k \in FutureFees |-> FutureNone]
  /\ announced = [k \in FutureFees |-> 0]

FeeNext ==
  \/ \E k \in SettableFees, f \in FeeChoices : SetFee(k, f)
  \/ \E k \in ReferralTypes, p \in ReferralChoices : SetReferralFee(k, p)
  \/ AdvanceFees
  \/ AdvanceClock

FeeSpec == FeeInit /\ [][FeeNext]_feeVars
----------------------------------------------------------------------------
\* Types of the fee fields.
FeeTypeOK ==
  /\ epoch \in Nat /\ last_update_epoch \in Nat
  /\ fees \in [FeeTypes -> Fee]
  /\ referral_fees \in [ReferralTypes -> Nat]
  /\ next_fees \in [FutureFees -> FutureEpoch]
  /\ announced \in [FutureFees -> Nat]

\* No fee in force, and none waiting to come into force, takes more than the
\* amount it is applied to, and a referral is at most the whole deposit fee:
\* otherwise the checked_sub calls of deposits and withdrawals would fail for
\* every user (check_too_high guards SetFee, Initialize makes the same check).
FeesAtMostWhole ==
  /\ \A k \in FeeTypes : NotTooHigh(fees[k])
  /\ \A k \in FutureFees : NotTooHigh(next_fees[k].fee)
  /\ \A k \in ReferralTypes : referral_fees[k] <= 100

\* new is at most MaxIncrease times old (or the baseline, when old is zero).
WithinIncrease(new, old) ==
  LET base == WithdrawalBaseline(old)
  IN new.numerator * base.denominator * MaxIncrease.denominator
       <= base.numerator * new.denominator * MaxIncrease.numerator

\* The second product of a proposal does not fit in a u128.
AskedOverflows(new, old) ==
  new.numerator * WithdrawalBaseline(old).denominator * MaxIncrease.denominator > U128Max

\* A withdrawal fee in force never grows by more than
\* MAX_WITHDRAWAL_FEE_INCREASE in one change (lib.rs: "Maximum factor by which
\* a withdrawal fee can be increased per epoch"), unless the proposal was so
\* large that check_withdrawal overflowed. The check is made against the fee
\* in force when SetFee runs, two epochs before the new fee comes into force:
\* this says that the fee it was measured against is still the one it
\* replaces, and that no other overflow lets a proposal pass.
WithdrawalFeeStep ==
  [][\A k \in WithdrawalFees :
        fees'[k] # fees[k] =>
          WithinIncrease(fees'[k], fees[k]) \/ AskedOverflows(fees'[k], fees[k])]_feeVars

\* A future fee comes into force only in an update two epochs or more after
\* the SetFee call that proposed it, whatever the order and number of updates
\* and later proposals (FutureEpoch: "Value is ready after two epoch
\* boundaries").
TwoEpochNotice ==
  [][\A k \in FutureFees :
        fees'[k] # fees[k] => epoch >= announced[k] + 2]_feeVars
============================================================================
