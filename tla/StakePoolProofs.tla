-------------------------- MODULE StakePoolProofs --------------------------
(***************************************************************************)
(* Theorems about FeeSchedule and StakePool, for any validators, seeds,    *)
(* amounts, fees, any number of epochs and any combination of outside      *)
(* events.                                                                 *)
(*                                                                         *)
(* The invariant PoolInv of StakePool is stated about values (the list,    *)
(* the accounts, the reserve, the value of the pool), so that what a step  *)
(* does to it is a lemma without primes: OneEntryStep for the instructions *)
(* that work on one entry, SameListStep for the steps that leave the list  *)
(* alone.                                                                  *)
(*                                                                         *)
(* PoolInv is not enough for the life of an entry and of its stake         *)
(* accounts: stake is never forgotten, a fresh record is exact, preferred  *)
(* validators are active, and a removal only advances and is never         *)
(* blocked. LifeInv says what the accounts look like, how the accounts of  *)
(* an entry go with its status, and how far its records can be behind them *)
(* once it is up to date; ClockInv says which entries are up to date.      *)
(* LifecycleInv is the three together.                                     *)
(***************************************************************************)
EXTENDS StakePool, PoolMathProofs

-----------------------------------------------------------------------------
(* The fee schedule.                                                       *)

\* The operations on FutureEpoch<Fee> keep its type.
LEMMA FutureEpochType ==
  ASSUME NEW f \in FutureEpoch, NEW fee \in Fee
  PROVE  /\ UpdateEpoch(f) \in FutureEpoch
         /\ FutureNew(fee) \in FutureEpoch
         /\ FutureNone \in FutureEpoch
         /\ GetOr(f, fee) \in Fee
BY DEF FutureEpoch, Fee, UpdateEpoch, FutureNew, FutureNone, NoFee, GetOr

\* Every step of the fee schedule keeps the types.
LEMMA FeeTypeStep == FeeTypeOK /\ [FeeNext]_feeVars => FeeTypeOK'
<1> SUFFICES ASSUME FeeTypeOK, [FeeNext]_feeVars PROVE FeeTypeOK'
  OBVIOUS
<1> USE FeeAssumption
<1>1. ASSUME NEW k \in SettableFees, NEW f \in FeeChoices, SetFee(k, f)
      PROVE  FeeTypeOK'
  <2>1. k \in FeeTypes /\ f \in Fee
    BY <1>1 DEF FeeAssumption
  <2>2. CASE k \in FutureFees
    BY <1>1, <2>1, <2>2, FutureEpochType DEF SetFee, FeeTypeOK
  <2>3. CASE k \notin FutureFees
    BY <1>1, <2>1, <2>3 DEF SetFee, FeeTypeOK
  <2> QED BY <2>2, <2>3
<1>2. ASSUME NEW k \in ReferralTypes, NEW p \in ReferralChoices, SetReferralFee(k, p)
      PROVE  FeeTypeOK'
  BY <1>2 DEF SetReferralFee, FeeTypeOK, FeeAssumption
<1>3. CASE AdvanceFees
  <2>1. CASE FirstInEpoch
    <3>1. fees' \in [FeeTypes -> Fee]
      BY <1>3, <2>1, FutureEpochType DEF AdvanceFees, FeeTypeOK, FeeTypes
    <3>2. next_fees' \in [FutureFees -> FutureEpoch]
      <4>1. \A k \in FutureFees : UpdateEpoch(next_fees[k]) \in FutureEpoch
        BY DEF FeeTypeOK, FutureEpoch, Fee, UpdateEpoch, FutureNone, NoFee
      <4> QED BY <1>3, <2>1, <4>1 DEF AdvanceFees
    <3> QED BY <1>3, <2>1, <3>1, <3>2 DEF AdvanceFees, FeeTypeOK
  <2>2. CASE ~FirstInEpoch
    BY <1>3, <2>2 DEF AdvanceFees, FeeTypeOK
  <2> QED BY <2>1, <2>2
<1>4. CASE AdvanceClock
  BY <1>4 DEF AdvanceClock, FeeTypeOK
<1>5. CASE UNCHANGED feeVars
  BY <1>5 DEF feeVars, FeeTypeOK
<1> QED BY <1>1, <1>2, <1>3, <1>4, <1>5 DEF FeeNext

\* Initialize gives the fee fields their types.
LEMMA FeeTypeInit == FeeInit => FeeTypeOK
BY FeeAssumption DEF FeeInit, FeeAssumption, FeeTypeOK, FutureEpoch, FutureNone,
   NoFee, Fee

\* The fee fields keep their types (Initialize, SetFee and the rotation of
\* UpdateStakePoolBalance).
THEOREM FeeTypeCorrect == FeeSpec => []FeeTypeOK
BY FeeTypeInit, FeeTypeStep, PTL DEF FeeSpec
-----------------------------------------------------------------------------
\* Initialize refuses a fee above the whole.
LEMMA WholeInit == FeeInit => FeesAtMostWhole
BY FeeAssumption DEF FeeInit, FeeAssumption, FeesAtMostWhole, FutureNone, NoFee,
   NotTooHigh, FeeTypes

\* Neither SetFee nor the rotation lets such a fee in.
LEMMA WholeStep == FeeTypeOK /\ FeesAtMostWhole /\ [FeeNext]_feeVars => FeesAtMostWhole'
<1> SUFFICES ASSUME FeeTypeOK, FeesAtMostWhole, [FeeNext]_feeVars
             PROVE  FeesAtMostWhole'
  OBVIOUS
<1>1. ASSUME NEW k \in SettableFees, NEW f \in FeeChoices, SetFee(k, f)
      PROVE  FeesAtMostWhole'
  <2>1. NotTooHigh(f)
    BY <1>1 DEF SetFee, ValidFee
  <2>2. CASE k \in FutureFees
    BY <1>1, <2>1, <2>2 DEF SetFee, FeesAtMostWhole, FutureNew, FeeTypeOK
  <2>3. CASE k \notin FutureFees
    BY <1>1, <2>1, <2>3 DEF SetFee, FeesAtMostWhole, FeeTypeOK
  <2> QED BY <2>2, <2>3
<1>2. ASSUME NEW k \in ReferralTypes, NEW p \in ReferralChoices, SetReferralFee(k, p)
      PROVE  FeesAtMostWhole'
  BY <1>2 DEF SetReferralFee, FeesAtMostWhole, FeeTypeOK
<1>3. CASE AdvanceFees
  <2>1. CASE FirstInEpoch
    <3>1. \A k \in FeeTypes : NotTooHigh(fees'[k])
      BY <1>3, <2>1 DEF AdvanceFees, FeesAtMostWhole, GetOr, FeeTypes
    <3>2. \A k \in FutureFees : NotTooHigh(next_fees'[k].fee)
      BY <1>3, <2>1 DEF AdvanceFees, FeesAtMostWhole, UpdateEpoch, FutureNone, NoFee,
         NotTooHigh, FeeTypeOK, FutureEpoch, Fee
    <3> QED BY <1>3, <3>1, <3>2 DEF AdvanceFees, FeesAtMostWhole
  <2>2. CASE ~FirstInEpoch
    BY <1>3, <2>2 DEF AdvanceFees, FeesAtMostWhole
  <2> QED BY <2>1, <2>2
<1>4. CASE AdvanceClock
  BY <1>4 DEF AdvanceClock, FeesAtMostWhole
<1>5. CASE UNCHANGED feeVars
  BY <1>5 DEF feeVars, FeesAtMostWhole
<1> QED BY <1>1, <1>2, <1>3, <1>4, <1>5 DEF FeeNext

\* No fee in force or waiting is above the whole amount, whatever the manager
\* proposes.
THEOREM FeesStayWhole == FeeSpec => []FeesAtMostWhole
BY FeeTypeInit, FeeTypeStep, WholeInit, WholeStep, PTL DEF FeeSpec
-----------------------------------------------------------------------------
\* Why the notice is two epochs: a fee that waits for two updates was proposed
\* no later than the last update (SetFee asks for an up-to-date pool), one that
\* waits for a single update was proposed before the epoch of the last one.
NoticeInv ==
  /\ last_update_epoch <= epoch
  /\ \A k \in FutureFees :
       /\ next_fees[k].wait = 2 => announced[k] <= last_update_epoch
       /\ next_fees[k].wait = 1 => announced[k] + 1 <= last_update_epoch

\* NoticeInv holds after Initialize.
LEMMA NoticeInit == FeeInit => NoticeInv
BY DEF FeeInit, NoticeInv, FutureNone

\* NoticeInv is inductive.
LEMMA NoticeStep == FeeTypeOK /\ NoticeInv /\ [FeeNext]_feeVars => NoticeInv'
<1> SUFFICES ASSUME FeeTypeOK, NoticeInv, [FeeNext]_feeVars PROVE NoticeInv'
  OBVIOUS
<1>1. ASSUME NEW k \in SettableFees, NEW f \in FeeChoices, SetFee(k, f)
      PROVE  NoticeInv'
  <2>1. CASE k \in FutureFees
    BY <1>1, <2>1 DEF SetFee, CanSetNow, NoticeInv, FeeTypeOK, FutureNew
  <2>2. CASE k \notin FutureFees
    BY <1>1, <2>2 DEF SetFee, NoticeInv
  <2> QED BY <2>1, <2>2
<1>2. ASSUME NEW k \in ReferralTypes, NEW p \in ReferralChoices, SetReferralFee(k, p)
      PROVE  NoticeInv'
  BY <1>2 DEF SetReferralFee, NoticeInv
<1>3. CASE AdvanceFees
  <2>1. CASE FirstInEpoch
    BY <1>3, <2>1 DEF FirstInEpoch, AdvanceFees, NoticeInv, FeeTypeOK, FutureEpoch,
       UpdateEpoch, FutureNone
  <2>2. CASE ~FirstInEpoch
    BY <1>3, <2>2 DEF AdvanceFees, NoticeInv
  <2> QED BY <2>1, <2>2
<1>4. CASE AdvanceClock
  BY <1>4 DEF AdvanceClock, NoticeInv, FeeTypeOK
<1>5. CASE UNCHANGED feeVars
  BY <1>5 DEF feeVars, NoticeInv
<1> QED BY <1>1, <1>2, <1>3, <1>4, <1>5 DEF FeeNext

\* Only a rotation changes a future fee, and only one that was waiting for it.
LEMMA FutureFeeChange ==
  ASSUME FeeTypeOK, [FeeNext]_feeVars, NEW k \in FutureFees, fees'[k] # fees[k]
  PROVE  AdvanceFees /\ FirstInEpoch /\ next_fees[k].wait = 1 /\ fees'[k] = next_fees[k].fee
<1>1. ASSUME NEW j \in SettableFees, NEW f \in FeeChoices, SetFee(j, f)
      PROVE  FALSE
  BY <1>1 DEF SetFee, FeeTypeOK, FeeTypes
<1>2. ASSUME NEW j \in ReferralTypes, NEW p \in ReferralChoices, SetReferralFee(j, p)
      PROVE  FALSE
  BY <1>2 DEF SetReferralFee
<1>3. ~AdvanceClock /\ ~UNCHANGED feeVars
  BY DEF AdvanceClock, feeVars
<1>4. AdvanceFees
  BY <1>1, <1>2, <1>3 DEF FeeNext
<1>5. FirstInEpoch
  BY <1>4 DEF AdvanceFees
<1> QED BY <1>4, <1>5 DEF AdvanceFees, GetOr, FeeTypes

\* Every change of a future fee was announced two epochs or more before it.
THEOREM NoticeGiven == FeeSpec => TwoEpochNotice
<1>1. ASSUME FeeTypeOK, NoticeInv, [FeeNext]_feeVars
      PROVE  [\A k \in FutureFees : fees'[k] # fees[k] => epoch >= announced[k] + 2]_feeVars
  <2> SUFFICES ASSUME NEW k \in FutureFees, fees'[k] # fees[k]
               PROVE  epoch >= announced[k] + 2
    OBVIOUS
  <2>1. FirstInEpoch /\ next_fees[k].wait = 1
    BY <1>1, FutureFeeChange
  <2> QED BY <1>1, <2>1 DEF FirstInEpoch, NoticeInv, FeeTypeOK
<1> QED BY <1>1, FeeTypeInit, FeeTypeStep, NoticeInit, NoticeStep, PTL
        DEF FeeSpec, TwoEpochNotice
-----------------------------------------------------------------------------
\* What check_withdrawal lets pass.
Acceptable(new, old) == WithinIncrease(new, old) \/ AskedOverflows(new, old)

\* The fee that waits was measured against the fee still in force.
PendingInv ==
  \A k \in WithdrawalFees :
    next_fees[k].wait # 0 => Acceptable(next_fees[k].fee, fees[k])

\* check_withdrawal decides what it means to, unless the last product of the
\* proposal overflows: an overflow on the other side turns a proposal down.
LEMMA CheckWithdrawalExact ==
  ASSUME NEW new \in Fee, NEW old \in Fee, CheckWithdrawal(new, old)
  PROVE  Acceptable(new, old)
<1> DEFINE base == WithdrawalBaseline(old)
<1>1. base \in Fee
  BY FeeAssumption DEF FeeAssumption, WithdrawalBaseline
<1>2. MaxIncrease \in Fee /\ U128Max \in Nat
  BY FeeAssumption DEF FeeAssumption
<1> HIDE DEF base
<1> DEFINE a == base.numerator * new.denominator
           b == new.numerator * base.denominator
<1>3. a \in Nat /\ b \in Nat
  BY <1>1 DEF Fee
<1>4. /\ CheckedMul(base.numerator, new.denominator) = a
      /\ CheckedMul(new.numerator, base.denominator) = b
  BY DEF CheckWithdrawal, CheckedMul, None, base
<1> HIDE DEF a, b
<1> DEFINE x == a * MaxIncrease.numerator
           y == b * MaxIncrease.denominator
<1>5. x \in Nat /\ y \in Nat
  BY <1>2, <1>3 DEF Fee
<1>6. /\ OptionMul(a, MaxIncrease.numerator) = IF x <= U128Max THEN x ELSE -1
      /\ OptionMul(b, MaxIncrease.denominator) = IF y <= U128Max THEN y ELSE -1
  BY <1>3 DEF OptionMul, CheckedMul, None
<1> HIDE DEF x, y
<1>7. ~ ((IF x <= U128Max THEN x ELSE -1) < (IF y <= U128Max THEN y ELSE -1))
  BY <1>4, <1>6 DEF CheckWithdrawal, base
<1>8. y <= x \/ y > U128Max
  BY <1>2, <1>5, <1>7
<1> QED BY <1>8 DEF Acceptable, WithinIncrease, AskedOverflows, base, a, b, x, y

\* PendingInv holds after Initialize.
LEMMA PendingInit == FeeInit => PendingInv
BY DEF FeeInit, PendingInv, FutureNone, FutureFees

\* PendingInv is inductive: nothing but the rotation changes the fee in force,
\* and the rotation leaves no fee waiting that it has not let pass.
LEMMA PendingStep == FeeTypeOK /\ PendingInv /\ [FeeNext]_feeVars => PendingInv'
<1> SUFFICES ASSUME FeeTypeOK, PendingInv, [FeeNext]_feeVars PROVE PendingInv'
  OBVIOUS
<1>0. WithdrawalFees \subseteq FutureFees /\ FutureFees \subseteq FeeTypes
  BY DEF FutureFees, FeeTypes
<1>1. ASSUME NEW k \in SettableFees, NEW f \in FeeChoices, SetFee(k, f)
      PROVE  PendingInv'
  <2>1. CASE k \in WithdrawalFees
    <3>0. f \in Fee /\ fees[k] \in Fee
      BY <1>0, <2>1, FeeAssumption DEF FeeAssumption, FeeTypeOK
    <3>1. Acceptable(f, fees[k])
      BY <1>1, <2>1, <3>0, CheckWithdrawalExact DEF SetFee, ValidFee
    <3>2. UNCHANGED fees /\ next_fees' = [next_fees EXCEPT ![k] = FutureNew(f)]
      BY <1>0, <1>1, <2>1 DEF SetFee
    <3>3. ASSUME NEW j \in WithdrawalFees
          PROVE  \/ next_fees'[j] = next_fees[j]
                 \/ j = k /\ next_fees'[j] = [wait |-> 2, fee |-> f]
      BY <1>0, <3>2 DEF FutureNew, FeeTypeOK
    <3> QED BY <3>1, <3>2, <3>3 DEF PendingInv
  <2>2. CASE k \notin WithdrawalFees
    BY <1>0, <1>1, <2>2 DEF SetFee, PendingInv, FeeTypeOK
  <2> QED BY <2>1, <2>2
<1>2. ASSUME NEW k \in ReferralTypes, NEW p \in ReferralChoices, SetReferralFee(k, p)
      PROVE  PendingInv'
  BY <1>2 DEF SetReferralFee, PendingInv
<1>3. CASE AdvanceFees
  <2>1. CASE FirstInEpoch
    <3> SUFFICES ASSUME NEW k \in WithdrawalFees
                 PROVE  next_fees'[k].wait # 0 => Acceptable(next_fees'[k].fee, fees'[k])
      BY DEF PendingInv
    <3>1. fees'[k] = GetOr(next_fees[k], fees[k]) /\ next_fees'[k] = UpdateEpoch(next_fees[k])
      BY <1>0, <1>3, <2>1 DEF AdvanceFees
    <3>2. CASE next_fees[k].wait = 2
      <4>1. fees'[k] = fees[k] /\ next_fees'[k].fee = next_fees[k].fee
        BY <1>0, <3>1, <3>2 DEF GetOr, UpdateEpoch, FeeTypeOK, FutureEpoch
      <4> QED BY <3>2, <4>1 DEF PendingInv
    <3>3. CASE next_fees[k].wait # 2
      BY <3>1, <3>3 DEF UpdateEpoch, FutureNone
    <3> QED BY <3>2, <3>3
  <2>2. CASE ~FirstInEpoch
    BY <1>3, <2>2 DEF AdvanceFees, PendingInv
  <2> QED BY <2>1, <2>2
<1>4. CASE AdvanceClock
  BY <1>4 DEF AdvanceClock, PendingInv
<1>5. CASE UNCHANGED feeVars
  BY <1>5 DEF feeVars, PendingInv
<1> QED BY <1>1, <1>2, <1>3, <1>4, <1>5 DEF FeeNext

\* No withdrawal fee grows by more than MAX_WITHDRAWAL_FEE_INCREASE in one
\* change, however proposals and updates are interleaved and whatever the width
\* of the integers, unless the proposal overflows check_withdrawal.
THEOREM WithdrawalFeeBounded == FeeSpec => WithdrawalFeeStep
<1>1. ASSUME FeeTypeOK, PendingInv, [FeeNext]_feeVars
      PROVE  [\A k \in WithdrawalFees :
                fees'[k] # fees[k] =>
                  WithinIncrease(fees'[k], fees[k]) \/ AskedOverflows(fees'[k], fees[k])]_feeVars
  <2> SUFFICES ASSUME NEW k \in WithdrawalFees, fees'[k] # fees[k]
               PROVE  Acceptable(fees'[k], fees[k])
    BY DEF Acceptable
  <2>1. k \in FutureFees
    BY DEF FutureFees
  <2>2. next_fees[k].wait = 1 /\ fees'[k] = next_fees[k].fee
    BY <1>1, <2>1, FutureFeeChange
  <2> QED BY <1>1, <2>2 DEF PendingInv
<1> QED BY <1>1, PendingStep, FeeTypeInit, FeeTypeStep, PendingInit, PTL
        DEF FeeSpec, WithdrawalFeeStep

-----------------------------------------------------------------------------
(* The invariant of StakePool, and what each step does to it.              *)

\* What an entry records, and what its status says of it.
Recorded(e) == e.active + e.transient

RecordOK(e) ==
  /\ e.status \in {"NotListed", "ReadyForRemoval"} => e.active = 0 /\ e.transient = 0
  /\ e.status = "DeactivatingValidator" => e.transient = 0
  /\ e.status = "DeactivatingTransient" => e.active = 0 /\ e.transient > 0
  /\ e.status = "DeactivatingAll" => e.transient > 0

\* The accounts of an entry hold what it records.
BackedBy(e, vs, ts) ==
  /\ e.active > 0 => vs.mine /\ e.active <= vs.lamports
  /\ e.transient > 0 => ts[e.seed].mine /\ e.transient <= ts[e.seed].lamports

\* Nothing is recorded of addresses that the last instruction emptied.
Unused(l, d) ==
  \A v \in Validators :
    /\ <<v, NoValidator>> \in d => l[v].active = 0
    /\ <<v, l[v].seed>> \in d => l[v].transient = 0

\* StatusMatchesRecord and Backed, entry by entry.
LEMMA StatusByEntry == StatusMatchesRecord <=> \A v \in Validators : RecordOK(list[v])
  BY DEF StatusMatchesRecord, RecordOK

\* The same for Backed.
LEMMA BackedByEntry ==
  Backed <=> \A v \in Validators : BackedBy(list[v], vstake[v], tstake[v])
  BY DEF Backed, ActiveBacked, TransientBacked, BackedBy, Transient

\* The total of the records of a list.
ListTotal(l) == Total([v \in Validators |-> Recorded(l[v])], Validators)

\* The sum that ListLamports asks for is the total of the records.
LEMMA ListLamportsIsTotal ==
  ASSUME NEW l
  PROVE  MapThenSumSet(LAMBDA v : l[v].active + l[v].transient, Validators) = ListTotal(l)
  <1> DEFINE f == [v \in Validators |-> Recorded(l[v])]
  <1>0. IsFiniteSet(Validators)
    BY PoolAssumption
  <1>1. PICK g : IsSum(g, f, Validators) /\ Total(f, Validators) = g[Validators]
    BY <1>0, TotalIsSum
  <1> DEFINE F(h) == [s \in SUBSET Validators |->
                  IF s = {} THEN 0
                  ELSE (l[Pick(s)].active + l[Pick(s)].transient) + h[s \ {Pick(s)}]]
  <1>2. ASSUME NEW h PROVE IsSum(h, f, Validators) <=> h = F(h)
    <2>1. ASSUME NEW s \in SUBSET Validators, s # {}
          PROVE  f[Pick(s)] = l[Pick(s)].active + l[Pick(s)].transient
      BY <2>1, PickIn DEF Recorded
    <2> QED BY <2>1 DEF IsSum
  <1>3. \E h : h = F(h) /\ MapThenSumSet(LAMBDA v : l[v].active + l[v].transient, Validators)
                             = h[Validators]
    <2>1. g = F(g)
      BY <1>1, <1>2
    <2> QED BY <2>1 DEF MapThenSumSet, MapThenFoldSet, Pick
  <1>4. PICK h : h = F(h) /\ MapThenSumSet(LAMBDA v : l[v].active + l[v].transient, Validators)
                             = h[Validators]
    BY <1>3
  <1>5. IsSum(h, f, Validators)
    BY <1>2, <1>4
  <1>6. \A s \in SUBSET Validators : h[s] = g[s]
    <2> HIDE DEF f
    <2> QED BY <1>0, <1>1, <1>5, SumUnique
  <1> QED BY <1>1, <1>4, <1>6 DEF ListTotal

\* ListLamports of the current state, as a total.
LEMMA ListLamportsNow == ListLamports = ListTotal(list)
  <1>1. MapThenSumSet(LAMBDA v : list[v].active + list[v].transient, Validators) = ListTotal(list)
    BY ListLamportsIsTotal
  <1> QED BY <1>1 DEF ListLamports, StakeLamports
----------------------------------------------------------------------------
\* The value, the supply and the tokens held, taken as values.
MoneyOK(T, S, held) ==
  /\ T \in Nat /\ S \in Nat /\ held \in [Holders -> Nat]
  /\ held["user"] + held["manager"] <= S
\* Types of the configuration.
ConfigTypes ==
  /\ preferred \in [Options -> Validators \cup {NoValidator}]
  /\ max_validator_stake \in Nat \cup {NoLimit}
  /\ fee_account_ok \in BOOLEAN
  /\ rewards_active \in BOOLEAN

\* What holds of the list, the accounts, the reserve, the emptied addresses
\* and the value of the pool, taken as values.
EntriesOK(l, vs, ts) ==
  \A v \in Validators : RecordOK(l[v]) /\ BackedBy(l[v], vs[v], ts[v])
StakeOK(l, vs, ts, r, d, T) ==
  /\ l \in [Validators -> Entry]
  /\ vs \in [Validators -> Account]
  /\ ts \in [Validators -> [Seeds -> Account]]
  /\ r \in Nat /\ r >= Rent
  /\ d \subseteq Addresses
  /\ EntriesOK(l, vs, ts)
  /\ Unused(l, d)
  /\ T \in Nat /\ T <= r - Rent + ListTotal(l)

\* The inductive invariant, and its parts.
StakeInv == StakeOK(list, vstake, tstake, reserve, drained, total_lamports)
MoneyInv == MoneyOK(total_lamports, pool_token_supply, tokens)
FeeInv == FeeTypeOK /\ FeesAtMostWhole
PoolInv == FeeInv /\ ConfigTypes /\ MoneyInv /\ StakeInv

\* What the proofs use of the constants: rents and minimums are positive.
LEMMA Constants ==
  /\ Rent \in Nat \ {0} /\ StakeMinimum \in Nat \ {0} /\ EpochMax \in Nat
  /\ WarmupEpochs \in Nat \ {0}
  /\ MinimumDelegation \in Nat \ {0} /\ MinimumStakeLamports \in Nat \ {0}
  /\ MinimumDelegation >= StakeMinimum
  /\ MinimumStakeLamports = Rent + MinimumDelegation
  BY PoolAssumption, StakeAssumption DEF MinimumDelegation, MinimumStakeLamports

\* An absent entry is an entry.
LEMMA NotListedType == NotListed \in Entry
  BY PoolAssumption DEF NotListed, Entry

\* The records of a list add up to a natural number.
LEMMA TotalOfList ==
  ASSUME NEW l \in [Validators -> Entry] PROVE ListTotal(l) \in Nat
  <1>1. \A v \in Validators : [w \in Validators |-> Recorded(l[w])][v] \in Nat
    BY DEF Recorded, Entry
  <1>2. IsFiniteSet(Validators)
    BY PoolAssumption
  <1> QED BY <1>1, <1>2, TotalType DEF ListTotal

\* Changing one entry changes the total by the difference.
LEMMA TotalOfListChanged ==
  ASSUME NEW l \in [Validators -> Entry], NEW v \in Validators, NEW e \in Entry
  PROVE  ListTotal([l EXCEPT ![v] = e]) + Recorded(l[v]) = ListTotal(l) + Recorded(e)
  <1> DEFINE f == [w \in Validators |-> Recorded(l[w])]
             k == [l EXCEPT ![v] = e]
             h == [w \in Validators |-> Recorded(k[w])]
  <1>1. \A w \in Validators : f[w] \in Nat /\ h[w] \in Nat /\ (w # v => f[w] = h[w])
    BY DEF Recorded, Entry
  <1>2. f[v] = Recorded(l[v]) /\ h[v] = Recorded(e)
    OBVIOUS
  <1>3. IsFiniteSet(Validators)
    BY PoolAssumption
  <1>4. ListTotal(l) = Total(f, Validators) /\ ListTotal(k) = Total(h, Validators)
    BY DEF ListTotal
  <1> HIDE DEF f, h
  <1>5. Total(h, Validators) + f[v] = Total(f, Validators) + h[v]
    BY <1>1, <1>3, TotalOneChanged
  <1> QED BY <1>2, <1>4, <1>5

\* An instruction that works on one entry and its accounts: what they become,
\* and the reserve, the value and the emptied addresses with them.
OneEntry(v, e, vs, ts, r, d, T) ==
  /\ v \in Validators
  /\ e \in Entry /\ vs \in Account /\ ts \in [Seeds -> Account]
  /\ RecordOK(e) /\ BackedBy(e, vs, ts)
  /\ r \in Nat /\ r >= Rent
  /\ T \in Nat
  /\ T + reserve + Recorded(list[v]) <= total_lamports + r + Recorded(e)
  /\ d \subseteq {<<v, NoValidator>>, <<v, e.seed>>}
  /\ <<v, NoValidator>> \in d => e.active = 0
  /\ <<v, e.seed>> \in d => e.transient = 0

\* Such an instruction keeps StakeOK: the total follows the entry, and the
\* reserve makes up for what the entry loses.
LEMMA OneEntryStep ==
  ASSUME StakeInv, NEW v, NEW e, NEW vs, NEW ts, NEW r, NEW d, NEW T,
         OneEntry(v, e, vs, ts, r, d, T)
  PROVE  StakeOK([list EXCEPT ![v] = e], [vstake EXCEPT ![v] = vs],
                 [tstake EXCEPT ![v] = ts], r, d, T)
  <1> DEFINE l1 == [list EXCEPT ![v] = e]
             v1 == [vstake EXCEPT ![v] = vs]
             t1 == [tstake EXCEPT ![v] = ts]
  <1>0. /\ list \in [Validators -> Entry] /\ vstake \in [Validators -> Account]
        /\ tstake \in [Validators -> [Seeds -> Account]] /\ EntriesOK(list, vstake, tstake)
        /\ v \in Validators /\ e \in Entry /\ vs \in Account /\ ts \in [Seeds -> Account]
    BY DEF StakeInv, StakeOK, OneEntry
  <1>1. /\ l1 \in [Validators -> Entry] /\ v1 \in [Validators -> Account]
        /\ t1 \in [Validators -> [Seeds -> Account]]
    BY <1>0
  <1>2. EntriesOK(l1, v1, t1)
    <2>1. RecordOK(e) /\ BackedBy(e, vs, ts)
      BY DEF OneEntry
    <2> QED BY <1>0, <2>1 DEF EntriesOK
  <1>3. d \subseteq Addresses
    <2>1. e.seed \in Seeds
      BY <1>0 DEF Entry
    <2> QED BY <1>0, <2>1 DEF Addresses, OneEntry
  <1>4. Unused(l1, d)
    <2> SUFFICES ASSUME NEW w \in Validators
                 PROVE  /\ <<w, NoValidator>> \in d => l1[w].active = 0
                        /\ <<w, l1[w].seed>> \in d => l1[w].transient = 0
      BY DEF Unused
    <2>1. CASE w = v
      BY <1>0, <2>1 DEF OneEntry
    <2>2. CASE w # v
      BY <1>0, <2>2 DEF OneEntry
    <2> QED BY <2>1, <2>2
  <1>5. T <= r - Rent + ListTotal(l1)
    <2>1. ListTotal(l1) + Recorded(list[v]) = ListTotal(list) + Recorded(e)
      BY <1>0, TotalOfListChanged
    <2>2. ListTotal(list) \in Nat /\ ListTotal(l1) \in Nat
      BY <1>0, <1>1, TotalOfList
    <2>3. Recorded(list[v]) \in Nat /\ Recorded(e) \in Nat
      BY <1>0 DEF Recorded, Entry
    <2>4. /\ r \in Nat /\ T \in Nat /\ reserve \in Nat /\ total_lamports \in Nat
          /\ total_lamports <= reserve - Rent + ListTotal(list)
          /\ T + reserve + Recorded(list[v]) <= total_lamports + r + Recorded(e)
      BY DEF OneEntry, StakeInv, StakeOK
    <2> HIDE DEF l1
    <2> QED BY <2>1, <2>2, <2>3, <2>4, Constants
  <1> QED BY <1>1, <1>2, <1>3, <1>4, <1>5 DEF OneEntry, StakeOK

\* A step that leaves the list alone and takes nothing off any account.
SameList(vs, ts, r, d, T) ==
  /\ vs \in [Validators -> Account]
  /\ ts \in [Validators -> [Seeds -> Account]]
  /\ \A v \in Validators : BackedBy(list[v], vs[v], ts[v])
  /\ r \in Nat /\ r >= Rent /\ T \in Nat
  /\ T + reserve <= total_lamports + r
  /\ d \subseteq drained

\* Such a step keeps StakeOK.
LEMMA SameListStep ==
  ASSUME StakeInv, NEW vs, NEW ts, NEW r, NEW d, NEW T, SameList(vs, ts, r, d, T)
  PROVE  StakeOK(list, vs, ts, r, d, T)
  <1>1. ListTotal(list) \in Nat
    BY TotalOfList DEF StakeInv, StakeOK
  <1>2. /\ r \in Nat /\ T \in Nat /\ reserve \in Nat /\ total_lamports \in Nat
        /\ total_lamports <= reserve - Rent + ListTotal(list)
        /\ T + reserve <= total_lamports + r
    BY DEF SameList, StakeInv, StakeOK
  <1>3. T <= r - Rent + ListTotal(list)
    BY <1>1, <1>2, Constants
  <1>4. EntriesOK(list, vs, ts) /\ Unused(list, d)
    BY DEF EntriesOK, Unused, SameList, StakeInv, StakeOK
  <1> QED BY <1>3, <1>4 DEF SameList, StakeInv, StakeOK
----------------------------------------------------------------------------
\* The accounts that the operations of the stake program produce.
LEMMA AccountTypes ==
  /\ \A l \in Nat : Unallocated(l) \in Account
  /\ \A l \in Nat, m \in BOOLEAN : Initialized(l, m) \in Account
  /\ \A l, s, now \in Nat : Delegated(l, s, now) \in Account
  /\ \A a \in Account, now \in Nat :
       DeactivatedIfNeeded(a, now) \in Account /\ Deactivated(a, now) \in Account
  BY Constants DEF Unallocated, Initialized, Delegated, DeactivatedIfNeeded, Deactivated, Account

\* Deactivate changes nothing but the deactivation epoch.
LEMMA DeactivatedKeeps ==
  ASSUME NEW a \in Account, NEW now \in Nat
  PROVE  /\ DeactivatedIfNeeded(a, now).lamports = a.lamports
         /\ DeactivatedIfNeeded(a, now).mine = a.mine
         /\ DeactivatedIfNeeded(a, now).kind = a.kind
         /\ DeactivatedIfNeeded(a, now).stake = a.stake
  BY DEF DeactivatedIfNeeded, Deactivated, Account

\* Merge: the lamports add up, and the stake does not shrink.
LEMMA MergedAccount ==
  ASSUME NEW dst \in Account, NEW src \in Account, NEW now \in Nat
  PROVE  /\ Merged(dst, src, now) \in Account
         /\ Merged(dst, src, now).lamports = dst.lamports + src.lamports
         /\ Merged(dst, src, now).mine = dst.mine
         /\ Merged(dst, src, now).kind = dst.kind
         /\ Merged(dst, src, now).stake = MergedStake(dst, src, now)
         /\ MergedStake(dst, src, now) \in Nat
         /\ MergedStake(dst, src, now) >= dst.stake
  <1>1. MergedStake(dst, src, now) \in Nat /\ MergedStake(dst, src, now) >= dst.stake
    BY Constants DEF MergedStake, Account
  <1>2. dst.lamports + src.lamports \in Nat
    BY DEF Account
  <1> DEFINE k == MergedStake(dst, src, now)
             n == dst.lamports + src.lamports
             r == Merged(dst, src, now)
  <1>3. r = [dst EXCEPT !.lamports = n, !.stake = k]
    BY DEF Merged, Account
  <1> HIDE DEF k, n, r
  <1>4. /\ r \in Account /\ r.lamports = n /\ r.stake = k
        /\ r.mine = dst.mine /\ r.kind = dst.kind
    BY <1>1, <1>2, <1>3 DEF Account, k, n
  <1> QED BY <1>1, <1>4 DEF k, n, r

\* What a Split of a part leaves behind.
LEMMA SplitSourceAccount ==
  ASSUME NEW src \in Account, NEW funded \in Nat, NEW amount \in Nat, NEW now,
         CanSplit(src, funded, amount, now), amount < src.lamports
  PROVE  /\ SplitSource(src, amount) \in Account
         /\ SplitSource(src, amount).lamports = src.lamports - amount
         /\ SplitSource(src, amount).stake = src.stake - amount
         /\ SplitSource(src, amount).kind = "stake"
         /\ SplitSource(src, amount).mine = src.mine
         /\ src.stake - amount >= StakeMinimum
  <1>1. src.kind = "stake" /\ src.stake - amount >= StakeMinimum /\ src.lamports - amount \in Nat
    BY Constants DEF CanSplit, Account
  <1>2. src.stake - amount \in Nat
    BY <1>1, Constants DEF Account
  <1> QED BY <1>1, <1>2 DEF SplitSource, Account

\* What a Split creates.
LEMMA SplitTargetAccount ==
  ASSUME NEW src \in Account, NEW funded \in Nat, NEW amount \in Nat, NEW now,
         CanSplit(src, funded, amount, now)
  PROVE  /\ SplitTarget(src, funded, amount) \in Account
         /\ SplitTarget(src, funded, amount).lamports = funded + amount
         /\ SplitTarget(src, funded, amount).mine = src.mine
         /\ SplitTarget(src, funded, amount).kind = "stake"
         /\ SplitTarget(src, funded, amount).stake = SplitStake(src, funded, amount)
         /\ SplitStake(src, funded, amount) \in Nat
  <1>1. SplitStake(src, funded, amount) \in Nat /\ src.kind = "stake"
    BY Constants DEF SplitStake, CanSplit, Account
  <1>2. funded + amount \in Nat
    OBVIOUS
  <1> DEFINE k == SplitStake(src, funded, amount)
             n == funded + amount
  <1> HIDE DEF k, n
  <1>3. LET r == [src EXCEPT !.lamports = n, !.stake = k]
        IN /\ r \in Account /\ r.lamports = n /\ r.stake = k
           /\ r.mine = src.mine /\ r.kind = src.kind
    BY <1>1, <1>2 DEF Account, k, n
  <1> QED BY <1>1, <1>3 DEF SplitTarget, k, n

\* AddValidatorToPool: the reserve pays for what the new entry records, even
\* when the address of the stake account held lamports already.
LEMMA AddValidatorStep ==
  ASSUME PoolInv, NEW v \in Validators, AddValidatorToPool(v)
  PROVE  StakeInv'
  <1> DEFINE required == MinimumStakeLamports
             lamports == vstake[v].lamports + required
             e == [NotListed EXCEPT !.active = required, !.last_update = epoch,
                                    !.status = "Active"]
             vs == Delegated(lamports, lamports - Rent, epoch)
  <1>1. /\ epoch \in Nat /\ vstake[v].lamports \in Nat /\ list[v] \in Entry
        /\ tstake[v] \in [Seeds -> Account] /\ RecordOK(list[v])
        /\ reserve \in Nat /\ total_lamports \in Nat
    BY DEF PoolInv, FeeInv, FeeTypeOK, StakeInv, StakeOK, EntriesOK, Account
  <1>2. e \in Entry /\ e.active = required /\ e.transient = 0 /\ e.status = "Active"
    BY <1>1, NotListedType, Constants DEF Entry, NotListed, Statuses
  <1>3. vs \in Account /\ vs.lamports = lamports /\ vs.mine
    BY <1>1, Constants DEF Delegated, Account
  <1>4. RecordOK(e) /\ BackedBy(e, vs, tstake[v])
    BY <1>1, <1>2, <1>3, Constants DEF RecordOK, BackedBy
  <1>5. Recorded(list[v]) = 0 /\ Recorded(e) = required
    BY <1>1, <1>2, Constants DEF AddValidatorToPool, RecordOK, Listed, Recorded, Entry
  <1>6. reserve - required \in Nat /\ reserve - required >= Rent
    BY <1>1, Constants DEF AddValidatorToPool, ReserveCanGive
  <1>7. OneEntry(v, e, vs, tstake[v], reserve - required, {}, total_lamports)
    <2> HIDE DEF e, vs
    <2> QED BY <1>1, <1>2, <1>3, <1>4, <1>5, <1>6, Constants DEF OneEntry
  <1>8. StakeOK([list EXCEPT ![v] = e], [vstake EXCEPT ![v] = vs],
                [tstake EXCEPT ![v] = tstake[v]], reserve - required, {}, total_lamports)
    BY <1>7, OneEntryStep DEF PoolInv
  <1>9. [tstake EXCEPT ![v] = tstake[v]] = tstake
    BY DEF PoolInv, StakeInv, StakeOK
  <1> QED BY <1>8, <1>9 DEF StakeInv, AddValidatorToPool, valueVars
----------------------------------------------------------------------------
\* What the invariant says of one entry and its accounts.
LEMMA EntryFacts ==
  ASSUME PoolInv, NEW v \in Validators
  PROVE  /\ epoch \in Nat
         /\ list[v] \in Entry /\ list[v].active \in Nat /\ list[v].transient \in Nat
         /\ list[v].seed \in Seeds
         /\ vstake[v] \in Account /\ vstake[v].lamports \in Nat /\ vstake[v].stake \in Nat
         /\ tstake[v] \in [Seeds -> Account]
         /\ Transient(v) \in Account /\ Transient(v).lamports \in Nat
         /\ RecordOK(list[v]) /\ BackedBy(list[v], vstake[v], tstake[v])
         /\ reserve \in Nat /\ reserve >= Rent /\ total_lamports \in Nat
  <1>1. /\ list[v] \in Entry /\ vstake[v] \in Account /\ tstake[v] \in [Seeds -> Account]
        /\ reserve \in Nat /\ reserve >= Rent /\ total_lamports \in Nat
        /\ RecordOK(list[v]) /\ BackedBy(list[v], vstake[v], tstake[v])
    BY DEF PoolInv, StakeInv, StakeOK, EntriesOK
  <1>2. epoch \in Nat
    BY DEF PoolInv, FeeInv, FeeTypeOK
  <1> QED BY <1>1, <1>2 DEF Entry, Account, Transient

\* Replacing a part of a row of a table, or nothing of it.
LEMMA RowChanges ==
  ASSUME PoolInv, NEW v \in Validators, NEW s \in Seeds, NEW a
  PROVE  /\ [tstake EXCEPT ![v][s] = a] = [tstake EXCEPT ![v] = [tstake[v] EXCEPT ![s] = a]]
         /\ [tstake EXCEPT ![v] = tstake[v]] = tstake
         /\ [vstake EXCEPT ![v] = vstake[v]] = vstake
         /\ [list EXCEPT ![v] = list[v]] = list
  BY DEF PoolInv, StakeInv, StakeOK

\* RemoveValidatorFromPool deactivates accounts and changes the status only.
LEMMA RemoveValidatorStep ==
  ASSUME PoolInv, NEW v \in Validators, RemoveValidatorFromPool(v)
  PROVE  StakeInv'
  <1> DEFINE s == list[v].seed
             has_transient == list[v].transient > 0
             status == IF has_transient THEN "DeactivatingAll" ELSE "DeactivatingValidator"
             e == [list[v] EXCEPT !.status = status]
             vs == DeactivatedIfNeeded(vstake[v], epoch)
             ts == IF has_transient /\ Transient(v).mine
                     THEN [tstake[v] EXCEPT ![s] = DeactivatedIfNeeded(@, epoch)]
                     ELSE tstake[v]
  <1>1. /\ e \in Entry /\ e.active = list[v].active /\ e.transient = list[v].transient
        /\ e.seed = s /\ e.status = status
    BY EntryFacts DEF Entry, Statuses
  <1>2. /\ vs \in Account /\ vs.lamports = vstake[v].lamports /\ vs.mine = vstake[v].mine
    BY EntryFacts, AccountTypes, DeactivatedKeeps
  <1>3. /\ ts \in [Seeds -> Account]
        /\ ts[s].lamports = Transient(v).lamports /\ ts[s].mine = Transient(v).mine
    <2> DEFINE a == DeactivatedIfNeeded(tstake[v][s], epoch)
    <2>1. /\ a \in Account /\ a.lamports = Transient(v).lamports
          /\ a.mine = Transient(v).mine
      BY EntryFacts, AccountTypes, DeactivatedKeeps DEF Transient
    <2> HIDE DEF a
    <2>2. CASE has_transient /\ Transient(v).mine
      <3>1. ts = [tstake[v] EXCEPT ![s] = a]
        BY <2>2 DEF a
      <3>2. ts \in [Seeds -> Account] /\ ts[s] = a
        BY <3>1, <2>1, EntryFacts
      <3> QED BY <3>2, <2>1
    <2>3. CASE ~(has_transient /\ Transient(v).mine)
      BY <2>3, EntryFacts DEF Transient
    <2> QED BY <2>2, <2>3
  <1>4. RecordOK(e)
    BY <1>1, EntryFacts DEF RecordOK
  <1>5. BackedBy(e, vs, ts)
    BY <1>1, <1>2, <1>3, EntryFacts, Zenon DEF BackedBy, Transient
  <1>6. Recorded(e) = Recorded(list[v]) /\ Recorded(e) \in Nat
    BY <1>1, EntryFacts DEF Recorded
  <1>7. OneEntry(v, e, vs, ts, reserve, {}, total_lamports)
    <2> HIDE DEF e, vs, ts
    <2> QED BY <1>1, <1>2, <1>3, <1>4, <1>5, <1>6, EntryFacts, Constants DEF OneEntry
  <1>8. StakeOK([list EXCEPT ![v] = e], [vstake EXCEPT ![v] = vs],
                [tstake EXCEPT ![v] = ts], reserve, {}, total_lamports)
    BY <1>7, OneEntryStep DEF PoolInv
  <1>9. list' = [list EXCEPT ![v] = e] /\ vstake' = [vstake EXCEPT ![v] = vs]
    BY DEF RemoveValidatorFromPool, PoolInv, StakeInv, StakeOK
  <1>10. tstake' = [tstake EXCEPT ![v] = ts]
    BY EntryFacts, RowChanges DEF RemoveValidatorFromPool, Transient, PoolInv, StakeInv, StakeOK
  <1> QED BY <1>8, <1>9, <1>10 DEF StakeInv, RemoveValidatorFromPool, valueVars

\* All decreases: what leaves the validator stake account and what the reserve
\* lends arrive in the transient account.
LEMMA DecreaseStep ==
  ASSUME PoolInv, NEW v \in Validators, NEW lamports \in Nat, NEW seed \in Seeds,
         NEW source \in Account, NEW target \in Account, NEW lent \in Nat,
         IsActive(v), lamports <= list[v].active,
         source.lamports = vstake[v].lamports - lamports, source.mine = vstake[v].mine,
         target.lamports \in Nat,
         target.mine = TRUE,
         target.lamports >= lamports + list[v].transient + lent,
         ReserveCanLend(lent),
         RecordDecrease(v, lamports, seed, source, target, lent)
  PROVE  StakeInv'
  <1> DEFINE e == [list[v] EXCEPT !.active = @ - lamports, !.transient = target.lamports,
                                  !.seed = seed]
             ts == [tstake[v] EXCEPT ![seed] = target]
  <1>1. /\ e \in Entry /\ e.active = list[v].active - lamports
        /\ e.transient = target.lamports /\ e.seed = seed /\ e.status = "Active"
    <2>1. list[v].active - lamports \in Nat
      BY EntryFacts
    <2> QED BY <2>1, EntryFacts DEF Entry, IsActive
  <1>2. ts \in [Seeds -> Account] /\ ts[seed] = target
    BY EntryFacts
  <1>3. RecordOK(e)
    BY <1>1 DEF RecordOK
  <1>4. BackedBy(e, source, ts)
    <2>1. e.active > 0 => list[v].active > 0
      BY <1>1, EntryFacts
    <2>2. e.active <= vstake[v].lamports - lamports <=> list[v].active <= vstake[v].lamports
      BY <1>1, EntryFacts
    <2>3. target.lamports <= target.lamports
      OBVIOUS
    <2> HIDE DEF e, ts
    <2> QED BY <1>1, <1>2, <2>1, <2>2, <2>3, EntryFacts, Zenon DEF BackedBy
  <1>5. reserve - lent \in Nat /\ reserve - lent >= Rent
    BY EntryFacts, Constants DEF ReserveCanLend, ReserveCanGive
  <1>6. /\ Recorded(e) = list[v].active - lamports + target.lamports
        /\ Recorded(list[v]) = list[v].active + list[v].transient
    BY <1>1 DEF Recorded
  <1>7. OneEntry(v, e, source, ts, reserve - lent, {}, total_lamports)
    <2> HIDE DEF e, ts
    <2>1. total_lamports + reserve + Recorded(list[v])
            <= total_lamports + (reserve - lent) + Recorded(e)
      BY <1>6, EntryFacts
    <2> QED BY <1>1, <1>2, <1>3, <1>4, <1>5, <2>1, EntryFacts, Constants DEF OneEntry
  <1>8. StakeOK([list EXCEPT ![v] = e], [vstake EXCEPT ![v] = source],
                [tstake EXCEPT ![v] = ts], reserve - lent, {}, total_lamports)
    BY <1>7, OneEntryStep DEF PoolInv
  <1>9. list' = [list EXCEPT ![v] = e] /\ tstake' = [tstake EXCEPT ![v] = ts]
    BY RowChanges DEF RecordDecrease, PoolInv, StakeInv, StakeOK
  <1> QED BY <1>8, <1>9 DEF StakeInv, RecordDecrease, valueVars

\* DecreaseValidatorStake, with or without a reserve that lends the rent.
LEMMA DecreaseValidatorStep ==
  ASSUME PoolInv, NEW v \in Validators, NEW lamports \in Nat, NEW seed \in Seeds,
         NEW fund \in BOOLEAN, DecreaseValidatorStake(v, lamports, seed, fund)
  PROVE  StakeInv'
  <1> DEFINE funded == tstake[v][seed].lamports
             lent == IF fund THEN RentFor(funded) ELSE 0
             split == SplitTarget(vstake[v], funded + lent, lamports)
             source == SplitSource(vstake[v], lamports)
             target == DeactivatedIfNeeded(split, epoch)
  <1>1. funded \in Nat
    BY EntryFacts DEF Account
  <1>2. lent \in Nat
    BY <1>1, Constants DEF RentFor, Minus
  <1>3. CanSplit(vstake[v], funded + lent, lamports, epoch) /\ ReserveCanLend(lent)
        /\ CanDecrease(v, lamports, seed, FALSE)
        /\ RecordDecrease(v, lamports, seed, source, target, lent)
    BY DEF DecreaseValidatorStake
  <1> HIDE DEF funded, lent
  <1>4. funded + lent \in Nat
    BY <1>1, <1>2
  <1>5. vstake[v].mine = TRUE
    BY <1>3, EntryFacts, Zenon DEF CanSplit, Account
  <1>6. lamports < vstake[v].lamports /\ IsActive(v) /\ lamports <= list[v].active
        /\ list[v].transient = 0
    BY <1>3, EntryFacts, Constants DEF CanDecrease, TransientReady
  <1>7. /\ source \in Account /\ source.lamports = vstake[v].lamports - lamports
        /\ source.mine = vstake[v].mine
    BY <1>3, <1>4, <1>6, EntryFacts, SplitSourceAccount
  <1>8. /\ split \in Account /\ split.lamports = funded + lent + lamports
        /\ split.mine = vstake[v].mine
    BY <1>3, <1>4, EntryFacts, SplitTargetAccount
  <1> HIDE DEF split, source
  <1>9. /\ target \in Account /\ target.lamports = funded + lent + lamports
        /\ target.mine = TRUE
    BY <1>5, <1>8, EntryFacts, AccountTypes, DeactivatedKeeps
  <1>10. target.lamports \in Nat /\ target.lamports >= lamports + list[v].transient + lent
    BY <1>1, <1>2, <1>6, <1>9
  <1> HIDE DEF target
  <1> QED BY <1>2, <1>3, <1>6, <1>7, <1>9, <1>10, DecreaseStep

\* DecreaseAdditionalValidatorStake: through an ephemeral account.
LEMMA DecreaseAdditionalStep ==
  ASSUME PoolInv, NEW v \in Validators, NEW lamports \in Nat, NEW seed \in Seeds,
         DecreaseAdditionalValidatorStake(v, lamports, seed)
  PROVE  StakeInv'
  <1> DEFINE split == SplitTarget(vstake[v], Rent, lamports)
             ephemeral == Deactivated(split, epoch)
             t == tstake[v][seed]
             merge == list[v].transient > 0
             source == SplitSource(vstake[v], lamports)
             target == IF merge THEN Merged(t, ephemeral, epoch)
                       ELSE SplitTarget(ephemeral, t.lamports, ephemeral.lamports)
  <1>1. t \in Account /\ t.lamports \in Nat
    BY EntryFacts DEF Account
  <1>2. /\ CanSplit(vstake[v], Rent, lamports, epoch) /\ ReserveCanLend(Rent)
        /\ CanDecrease(v, lamports, seed, TRUE)
        /\ RecordDecrease(v, lamports, seed, source, target, Rent)
        /\ merge => CanMerge(t, ephemeral, epoch)
        /\ ~merge => CanSplit(ephemeral, t.lamports, ephemeral.lamports, epoch)
    BY DEF DecreaseAdditionalValidatorStake
  <1>3. vstake[v].mine = TRUE
    BY <1>2, EntryFacts, Zenon DEF CanSplit, Account
  <1>4. /\ lamports < vstake[v].lamports /\ IsActive(v) /\ lamports <= list[v].active
        /\ merge => seed = list[v].seed
    BY <1>2, EntryFacts, Constants DEF CanDecrease, TransientReady
  <1>5. /\ source \in Account /\ source.lamports = vstake[v].lamports - lamports
        /\ source.mine = vstake[v].mine
    BY <1>2, <1>4, EntryFacts, Constants, SplitSourceAccount
  <1>6. /\ split \in Account /\ split.lamports = Rent + lamports
        /\ split.mine = vstake[v].mine
    BY <1>2, EntryFacts, Constants, SplitTargetAccount
  <1> HIDE DEF split, source
  <1>7. /\ ephemeral \in Account /\ ephemeral.lamports = Rent + lamports
        /\ ephemeral.mine = TRUE
    <2>1. ephemeral \in Account
      BY <1>6, EntryFacts, AccountTypes
    <2>2. ephemeral.lamports = split.lamports /\ ephemeral.mine = split.mine
      BY <1>6 DEF Deactivated, Account
    <2> QED BY <1>3, <1>6, <2>1, <2>2
  <1> HIDE DEF ephemeral, t
  <1>8. Rent + lamports \in Nat
    BY Constants
  <1>9. /\ target \in Account /\ target.lamports = t.lamports + (Rent + lamports)
        /\ target.mine = TRUE
    <2>1. CASE merge
      <3>1. target = Merged(t, ephemeral, epoch)
        BY <2>1
      <3>2. t.mine = TRUE
        BY <1>1, <1>2, <2>1, Zenon DEF CanMerge, Account
      <3>3. /\ Merged(t, ephemeral, epoch) \in Account
            /\ Merged(t, ephemeral, epoch).lamports = t.lamports + ephemeral.lamports
            /\ Merged(t, ephemeral, epoch).mine = t.mine
        <4>1. epoch \in Nat /\ t \in Account /\ ephemeral \in Account
          BY <1>1, <1>7, EntryFacts
        <4> QED BY ONLY <4>1, MergedAccount
      <3> HIDE DEF target
      <3> QED BY <1>7, <3>1, <3>2, <3>3
    <2>2. CASE ~merge
      <3>1. target = SplitTarget(ephemeral, t.lamports, ephemeral.lamports)
        BY <2>2
      <3> QED BY <1>1, <1>2, <1>7, <1>8, <2>2, <3>1, EntryFacts, SplitTargetAccount
    <2> QED BY <2>1, <2>2
  <1>10. t.lamports >= list[v].transient
    <2>1. CASE merge
      <3>1. t = tstake[v][list[v].seed]
        BY <1>4, <2>1 DEF t
      <3> QED BY <3>1, <2>1, EntryFacts DEF BackedBy
    <2>2. CASE ~merge
      BY <1>1, <2>2, EntryFacts
    <2> QED BY <2>1, <2>2
  <1>11. target.lamports \in Nat /\ target.lamports >= lamports + list[v].transient + Rent
    BY <1>1, <1>9, <1>10, EntryFacts, Constants
  <1> HIDE DEF target
  <1> QED BY <1>2, <1>4, <1>5, <1>9, <1>11, Constants, DecreaseStep

\* IncreaseValidatorStake and IncreaseAdditionalValidatorStake: the transient
\* record grows by what leaves the reserve.
LEMMA IncreaseStep ==
  ASSUME PoolInv, NEW v \in Validators, NEW lamports \in Nat, NEW seed \in Seeds,
         NEW ephemeral \in BOOLEAN, IncreaseValidatorStake(v, lamports, seed, ephemeral)
  PROVE  StakeInv'
  <1> DEFINE moved == lamports + Rent
             added == Delegated(moved, lamports, epoch)
             t == tstake[v][seed]
             target == IncreasedTransient(v, added, seed, ephemeral)
             e == [list[v] EXCEPT !.transient = @ + moved, !.seed = seed]
             ts == [tstake[v] EXCEPT ![seed] = target]
  <1>1. moved \in Nat /\ t \in Account /\ t.lamports \in Nat
    BY EntryFacts, Constants DEF Account
  <1>2. /\ added \in Account /\ added.lamports = moved /\ added.stake = lamports
        /\ added.mine = TRUE /\ added.kind = "stake"
    BY <1>1, EntryFacts, AccountTypes DEF Delegated
  <1>3. /\ CanIncrease(v, lamports, seed, ephemeral)
        /\ list[v].transient > 0 => CanMerge(t, added, epoch)
    BY DEF IncreaseValidatorStake
  <1>4. IsActive(v) /\ (list[v].transient > 0 => seed = list[v].seed)
    BY <1>3 DEF CanIncrease, TransientReady
  <1>5. reserve - moved \in Nat /\ reserve - moved >= Rent
    BY <1>1, <1>3, EntryFacts, Constants DEF CanIncrease, ReserveCanGive
  <1> HIDE DEF moved, added, t
  <1>6. /\ target \in Account /\ target.mine = TRUE
        /\ target.lamports = t.lamports + moved
    <2>1. CASE list[v].transient > 0
      <3>1. target = Merged(t, added, epoch)
        BY <2>1 DEF IncreasedTransient, t
      <3>2. t.mine = TRUE
        BY <1>1, <1>3, <2>1, Zenon DEF CanMerge, Account
      <3>3. /\ Merged(t, added, epoch) \in Account
            /\ Merged(t, added, epoch).lamports = t.lamports + added.lamports
            /\ Merged(t, added, epoch).mine = t.mine
        <4>1. epoch \in Nat
          BY EntryFacts
        <4> QED BY ONLY <1>1, <1>2, <4>1, MergedAccount
      <3> QED BY <1>2, <3>1, <3>2, <3>3
    <2>2. CASE ~(list[v].transient > 0) /\ ephemeral
      <3> DEFINE k == SplitStake(added, t.lamports, added.lamports)
                 n == t.lamports + moved
      <3>1. k \in Nat /\ n \in Nat
        BY <1>1, <1>2, Constants DEF SplitStake, moved
      <3>2. target = [added EXCEPT !.lamports = n, !.stake = k]
        BY <1>2, <2>2 DEF IncreasedTransient, SplitTarget, t
      <3> HIDE DEF k, n, target
      <3>3. target \in Account /\ target.mine = added.mine /\ target.lamports = n
        BY <1>2, <3>1, <3>2 DEF Account
      <3> QED BY <1>2, <3>3 DEF n
    <2>3. CASE ~(list[v].transient > 0) /\ ~ephemeral
      <3> DEFINE k == t.lamports + added.stake
                 n == t.lamports + moved
      <3>1. k \in Nat /\ n \in Nat
        BY <1>1, <1>2, Constants
      <3>2. target = Delegated(n, k, epoch)
        BY <1>2, <2>3 DEF IncreasedTransient, t
      <3> HIDE DEF k, n, target
      <3>3. target \in Account /\ target.mine = TRUE /\ target.lamports = n
        BY <3>1, <3>2, EntryFacts, AccountTypes DEF Delegated
      <3> QED BY <3>3 DEF n
    <2> QED BY <2>1, <2>2, <2>3
  <1> HIDE DEF target
  <1>7. /\ e \in Entry /\ e.active = list[v].active
        /\ e.transient = list[v].transient + moved /\ e.seed = seed /\ e.status = "Active"
    <2> DEFINE n == list[v].transient + moved
    <2>1. n \in Nat
      BY <1>1, EntryFacts
    <2>2. e = [list[v] EXCEPT !.transient = n, !.seed = seed]
      BY EntryFacts DEF Entry
    <2> HIDE DEF n, e
    <2>3. /\ e \in Entry /\ e.active = list[v].active
          /\ e.transient = n /\ e.seed = seed /\ e.status = list[v].status
      BY <2>1, <2>2, EntryFacts DEF Entry
    <2> QED BY <1>4, <2>3 DEF n, IsActive
  <1>8. ts \in [Seeds -> Account] /\ ts[seed] = target
    BY <1>6, EntryFacts
  <1>9. t.lamports >= list[v].transient
    <2>1. CASE list[v].transient > 0
      BY <1>4, <2>1, EntryFacts DEF BackedBy, t
    <2>2. CASE ~(list[v].transient > 0)
      BY <1>1, <2>2, EntryFacts
    <2> QED BY <2>1, <2>2
  <1> HIDE DEF e, ts
  <1>10. RecordOK(e)
    BY <1>7 DEF RecordOK
  <1>11. BackedBy(e, vstake[v], ts)
    <2>1. e.transient <= target.lamports
      BY <1>1, <1>6, <1>7, <1>9, EntryFacts
    <2> QED BY <1>6, <1>7, <1>8, <2>1, EntryFacts, Zenon DEF BackedBy
  <1>12. Recorded(e) = Recorded(list[v]) + moved /\ Recorded(list[v]) \in Nat
    BY <1>1, <1>7, EntryFacts DEF Recorded
  <1>13. OneEntry(v, e, vstake[v], ts, reserve - moved, {}, total_lamports)
    BY <1>1, <1>5, <1>7, <1>8, <1>10, <1>11, <1>12, EntryFacts, Constants DEF OneEntry
  <1>14. StakeOK([list EXCEPT ![v] = e], [vstake EXCEPT ![v] = vstake[v]],
                 [tstake EXCEPT ![v] = ts], reserve - moved, {}, total_lamports)
    BY <1>13, OneEntryStep DEF PoolInv
  <1>15. list' = [list EXCEPT ![v] = e] /\ tstake' = [tstake EXCEPT ![v] = ts]
    BY RowChanges DEF IncreaseValidatorStake, PoolInv, StakeInv, StakeOK, e, ts, target,
       added, moved
  <1> QED BY <1>14, <1>15, RowChanges DEF StakeInv, IncreaseValidatorStake, valueVars, moved
----------------------------------------------------------------------------
\* A stake that loses lamports to a withdrawal, the entry losing as many.
LEMMA WithdrawActiveStep ==
  ASSUME PoolInv, NEW v \in Validators, NEW lamports \in Nat,
         CanSplit(vstake[v], Rent, lamports, epoch),
         vstake[v].lamports - lamports >= MinimumStakeLamports,
         lamports <= list[v].active, lamports <= total_lamports, IsActive(v)
  PROVE  StakeOK([list EXCEPT ![v].active = @ - lamports],
                 [vstake EXCEPT ![v] = SplitSource(@, lamports)],
                 tstake, reserve, {}, total_lamports - lamports)
  <1> DEFINE e == [list[v] EXCEPT !.active = @ - lamports]
             vs == SplitSource(vstake[v], lamports)
  <1>1. /\ e \in Entry /\ e.active = list[v].active - lamports
        /\ e.transient = list[v].transient /\ e.seed = list[v].seed /\ e.status = "Active"
    <2>1. list[v].active - lamports \in Nat
      BY EntryFacts
    <2> QED BY <2>1, EntryFacts DEF Entry, IsActive
  <1>2. /\ vs \in Account /\ vs.lamports = vstake[v].lamports - lamports
        /\ vs.mine = vstake[v].mine
    <2>1. lamports < vstake[v].lamports
      BY EntryFacts, Constants
    <2> QED BY <2>1, EntryFacts, Constants, SplitSourceAccount
  <1> HIDE DEF e, vs
  <1>3. RecordOK(e)
    BY <1>1 DEF RecordOK
  <1>4. BackedBy(e, vs, tstake[v])
    <2>1. /\ e.active > 0 => list[v].active > 0
          /\ e.active <= vstake[v].lamports - lamports <=> list[v].active <= vstake[v].lamports
      BY <1>1, EntryFacts
    <2> QED BY <1>1, <1>2, <2>1, EntryFacts, Zenon DEF BackedBy
  <1>5. Recorded(list[v]) = Recorded(e) + lamports /\ Recorded(e) \in Nat
    BY <1>1, EntryFacts DEF Recorded, Entry
  <1>6. OneEntry(v, e, vs, tstake[v], reserve, {}, total_lamports - lamports)
    BY <1>1, <1>2, <1>3, <1>4, <1>5, EntryFacts, Constants DEF OneEntry
  <1>7. StakeOK([list EXCEPT ![v] = e], [vstake EXCEPT ![v] = vs],
                [tstake EXCEPT ![v] = tstake[v]], reserve, {}, total_lamports - lamports)
    BY <1>6, OneEntryStep DEF PoolInv
  <1>8. [list EXCEPT ![v].active = @ - lamports] = [list EXCEPT ![v] = e]
    BY DEF e, PoolInv, StakeInv, StakeOK
  <1> QED BY <1>7, <1>8, EntryFacts, RowChanges DEF vs

\* The same for a transient account.
LEMMA WithdrawTransientStep ==
  ASSUME PoolInv, NEW v \in Validators, NEW lamports \in Nat,
         CanSplit(Transient(v), Rent, lamports, epoch),
         Transient(v).lamports - lamports >= MinimumStakeLamports,
         lamports <= list[v].transient, lamports <= total_lamports, IsActive(v)
  PROVE  StakeOK([list EXCEPT ![v].transient = @ - lamports], vstake,
                 [tstake EXCEPT ![v][list[v].seed] = SplitSource(@, lamports)],
                 reserve, {}, total_lamports - lamports)
  <1> DEFINE e == [list[v] EXCEPT !.transient = @ - lamports]
             s == list[v].seed
             t == SplitSource(tstake[v][s], lamports)
             ts == [tstake[v] EXCEPT ![s] = t]
  <1>1. /\ e \in Entry /\ e.active = list[v].active
        /\ e.transient = list[v].transient - lamports /\ e.seed = s /\ e.status = "Active"
    <2>1. list[v].transient - lamports \in Nat
      BY EntryFacts
    <2> QED BY <2>1, EntryFacts DEF Entry, IsActive
  <1>2. /\ t \in Account /\ t.lamports = Transient(v).lamports - lamports
        /\ t.mine = Transient(v).mine
    <2>1. lamports < Transient(v).lamports
      BY EntryFacts, Constants
    <2> QED BY <2>1, EntryFacts, Constants, SplitSourceAccount DEF Transient
  <1>3. s \in Seeds
    BY EntryFacts
  <1> HIDE DEF e, t
  <1>4. ts \in [Seeds -> Account] /\ ts[s] = t
    BY <1>2, <1>3, EntryFacts
  <1>5. RecordOK(e)
    BY <1>1 DEF RecordOK
  <1>6. BackedBy(e, vstake[v], ts)
    <2>1. /\ e.transient > 0 => list[v].transient > 0
          /\ e.transient <= Transient(v).lamports - lamports
               <=> list[v].transient <= Transient(v).lamports
      BY <1>1, EntryFacts
    <2>2. list[v].transient > 0 =>
            Transient(v).mine /\ list[v].transient <= Transient(v).lamports
      BY EntryFacts, Zenon DEF BackedBy, Transient
    <2> HIDE DEF ts, s
    <2> QED BY <1>1, <1>2, <1>4, <2>1, <2>2, EntryFacts, Zenon DEF BackedBy
  <1>7. Recorded(list[v]) = Recorded(e) + lamports /\ Recorded(e) \in Nat
    BY <1>1, EntryFacts DEF Recorded, Entry
  <1> HIDE DEF ts
  <1>8. OneEntry(v, e, vstake[v], ts, reserve, {}, total_lamports - lamports)
    BY <1>1, <1>4, <1>5, <1>6, <1>7, EntryFacts, Constants DEF OneEntry
  <1>9. StakeOK([list EXCEPT ![v] = e], [vstake EXCEPT ![v] = vstake[v]],
                [tstake EXCEPT ![v] = ts], reserve, {}, total_lamports - lamports)
    BY <1>8, OneEntryStep DEF PoolInv
  <1>10. [list EXCEPT ![v].transient = @ - lamports] = [list EXCEPT ![v] = e]
    BY DEF e, PoolInv, StakeInv, StakeOK
  <1>11. [tstake EXCEPT ![v][list[v].seed] = SplitSource(@, lamports)]
           = [tstake EXCEPT ![v] = ts]
    BY <1>3, RowChanges DEF ts, t
  <1>12. [vstake EXCEPT ![v] = vstake[v]] = vstake
    BY <1>3, RowChanges
  <1> QED BY <1>9, <1>10, <1>11, <1>12

\* The whole validator stake account is withdrawn, and its entry with it.
LEMMA WithdrawWholeStep ==
  ASSUME PoolInv, NEW v \in Validators, list[v].transient = 0,
         list[v].active = vstake[v].lamports, vstake[v].lamports <= total_lamports
  PROVE  StakeOK([list EXCEPT ![v].active = 0, ![v].status = "ReadyForRemoval"],
                 [vstake EXCEPT ![v] = Unallocated(0)], tstake, reserve,
                 Drain({<<v, NoValidator>>}), total_lamports - vstake[v].lamports)
  <1> DEFINE e == [list[v] EXCEPT !.active = 0, !.status = "ReadyForRemoval"]
             vs == Unallocated(0)
             d == Drain({<<v, NoValidator>>})
  <1>1. /\ e \in Entry /\ e.active = 0 /\ e.transient = 0 /\ e.seed = list[v].seed
        /\ e.status = "ReadyForRemoval"
    BY EntryFacts DEF Entry, Statuses
  <1>2. vs \in Account
    BY AccountTypes
  <1> HIDE DEF e, vs
  <1>3. RecordOK(e) /\ BackedBy(e, vs, tstake[v])
    BY <1>1 DEF RecordOK, BackedBy
  <1>4. Recorded(list[v]) = vstake[v].lamports /\ Recorded(e) = 0
    BY <1>1, EntryFacts DEF Recorded
  <1>5. d \subseteq {<<v, NoValidator>>}
    BY DEF Drain
  <1> HIDE DEF d
  <1>6. OneEntry(v, e, vs, tstake[v], reserve, d, total_lamports - vstake[v].lamports)
    BY <1>1, <1>2, <1>3, <1>4, <1>5, EntryFacts, Constants DEF OneEntry
  <1>7. StakeOK([list EXCEPT ![v] = e], [vstake EXCEPT ![v] = vs],
                [tstake EXCEPT ![v] = tstake[v]], reserve, d,
                total_lamports - vstake[v].lamports)
    BY <1>6, OneEntryStep DEF PoolInv
  <1>8. [list EXCEPT ![v].active = 0, ![v].status = "ReadyForRemoval"] = [list EXCEPT ![v] = e]
    BY DEF e, PoolInv, StakeInv, StakeOK
  <1>9. [tstake EXCEPT ![v] = tstake[v]] = tstake
    BY DEF PoolInv, StakeInv, StakeOK
  <1> QED BY <1>7, <1>8, <1>9 DEF vs, d

\* Lamports that arrive in the reserve and are added to the value.
LEMMA DepositSolStep ==
  ASSUME PoolInv, NEW lamports \in Nat
  PROVE  StakeOK(list, vstake, tstake, reserve + lamports, {}, total_lamports + lamports)
  <1>1. /\ reserve \in Nat /\ reserve >= Rent /\ total_lamports \in Nat
        /\ vstake \in [Validators -> Account] /\ tstake \in [Validators -> [Seeds -> Account]]
        /\ \A v \in Validators : BackedBy(list[v], vstake[v], tstake[v])
    BY DEF PoolInv, StakeInv, StakeOK, EntriesOK
  <1>2. SameList(vstake, tstake, reserve + lamports, {}, total_lamports + lamports)
    BY <1>1, Constants DEF SameList
  <1> QED BY <1>2, SameListStep DEF PoolInv

\* Lamports that leave the reserve and are taken off the value.
LEMMA WithdrawSolStep ==
  ASSUME PoolInv, NEW lamports \in Nat, lamports <= total_lamports, ReserveCanGive(lamports)
  PROVE  StakeOK(list, vstake, tstake, reserve - lamports, {}, total_lamports - lamports)
  <1>1. /\ reserve \in Nat /\ reserve >= Rent /\ total_lamports \in Nat
        /\ vstake \in [Validators -> Account] /\ tstake \in [Validators -> [Seeds -> Account]]
        /\ \A v \in Validators : BackedBy(list[v], vstake[v], tstake[v])
    BY DEF PoolInv, StakeInv, StakeOK, EntriesOK
  <1>2. SameList(vstake, tstake, reserve - lamports, {}, total_lamports - lamports)
    BY <1>1, Constants DEF SameList, ReserveCanGive
  <1> QED BY <1>2, SameListStep DEF PoolInv

\* A deposit of stake: what is merged goes to the entry and, for the lamports
\* that are not staked, to the reserve.
LEMMA DepositStakeStep ==
  ASSUME PoolInv, NEW v \in Validators, NEW user_stake \in Account, IsActive(v),
         CanMerge(vstake[v], user_stake, epoch),
         NEW total, NEW from_stake,
         LET merged == Merged(vstake[v], user_stake, epoch)
         IN /\ total = merged.lamports - vstake[v].lamports
            /\ from_stake = merged.stake - vstake[v].stake,
         from_stake <= total
  PROVE  LET merged == Merged(vstake[v], user_stake, epoch)
             sol == total - from_stake
         IN /\ total \in Nat /\ from_stake \in Nat
            /\ StakeOK([list EXCEPT ![v].active = merged.lamports - sol],
                       [vstake EXCEPT ![v] = [merged EXCEPT !.lamports = @ - sol]],
                       tstake, reserve + sol, {}, total_lamports + total)
  <1> DEFINE merged == Merged(vstake[v], user_stake, epoch)
             sol == total - from_stake
             kept == merged.lamports - sol
             e == [list[v] EXCEPT !.active = kept]
             vs == [merged EXCEPT !.lamports = kept]
  <1>1. /\ merged \in Account /\ merged.lamports = vstake[v].lamports + user_stake.lamports
        /\ merged.mine = vstake[v].mine /\ merged.stake \in Nat
        /\ merged.stake >= vstake[v].stake
    <2>1. vstake[v] \in Account /\ epoch \in Nat
      BY EntryFacts
    <2> QED BY <2>1, MergedAccount
  <1>2. vstake[v].mine = TRUE
    BY EntryFacts, Zenon DEF CanMerge, Account
  <1> HIDE DEF merged
  <1>3. user_stake.lamports \in Nat
    BY DEF Account
  <1>4. total = user_stake.lamports /\ from_stake \in Nat
    <2>1. total = merged.lamports - vstake[v].lamports
          /\ from_stake = merged.stake - vstake[v].stake
      BY DEF merged
    <2> QED BY <1>1, <1>3, <2>1, EntryFacts
  <1>5. /\ sol \in Nat /\ kept \in Nat /\ kept = vstake[v].lamports + from_stake
        /\ total = sol + from_stake /\ total \in Nat
    BY <1>1, <1>3, <1>4, EntryFacts
  <1> HIDE DEF sol, kept
  <1>6. /\ e \in Entry /\ e.active = kept /\ e.transient = list[v].transient
        /\ e.seed = list[v].seed /\ e.status = "Active"
    BY <1>5, EntryFacts DEF Entry, IsActive
  <1>7. vs \in Account /\ vs.lamports = kept /\ vs.mine = TRUE
    BY <1>1, <1>2, <1>5 DEF Account
  <1> HIDE DEF e, vs
  <1>8. RecordOK(e)
    BY <1>6 DEF RecordOK
  <1>9. BackedBy(e, vs, tstake[v])
    <2>1. kept <= kept
      BY <1>5
    <2> QED BY <1>6, <1>7, <2>1, EntryFacts, Zenon DEF BackedBy
  <1>10. Recorded(list[v]) + from_stake <= Recorded(e) /\ Recorded(e) \in Nat
    <2>1. list[v].active <= vstake[v].lamports
      BY EntryFacts DEF BackedBy
    <2> QED BY <1>4, <1>5, <1>6, <2>1, EntryFacts DEF Recorded
  <1>11. Recorded(list[v]) \in Nat
    BY EntryFacts DEF Recorded
  <1>12. OneEntry(v, e, vs, tstake[v], reserve + sol, {}, total_lamports + total)
    BY <1>4, <1>5, <1>6, <1>7, <1>8, <1>9, <1>10, <1>11, EntryFacts, Constants DEF OneEntry
  <1>13. StakeOK([list EXCEPT ![v] = e], [vstake EXCEPT ![v] = vs],
                 [tstake EXCEPT ![v] = tstake[v]], reserve + sol, {}, total_lamports + total)
    BY <1>12, OneEntryStep DEF PoolInv
  <1>14. [list EXCEPT ![v].active = kept] = [list EXCEPT ![v] = e]
    BY DEF e, PoolInv, StakeInv, StakeOK
  <1>15. [tstake EXCEPT ![v] = tstake[v]] = tstake
    BY DEF PoolInv, StakeInv, StakeOK
  <1>16. StakeOK([list EXCEPT ![v].active = kept], [vstake EXCEPT ![v] = vs],
                 tstake, reserve + sol, {}, total_lamports + total)
    BY <1>13, <1>14, <1>15
  <1> QED BY <1>4, <1>5, <1>16 DEF merged, sol, kept, vs
----------------------------------------------------------------------------
\* An account that still belongs to the pool, if it did, and lost nothing.
Keeps(b, a) == b \in Account /\ b.mine = a.mine /\ b.lamports >= a.lamports

\* Accounts that keep what they hold still back the record.
LEMMA KeepsBacked ==
  ASSUME NEW e \in Entry, NEW vs \in Account, NEW ts \in [Seeds -> Account],
         NEW vs1, NEW ts1,
         Keeps(vs1, vs), \A s \in Seeds : Keeps(ts1[s], ts[s]),
         BackedBy(e, vs, ts)
  PROVE  BackedBy(e, vs1, ts1)
  <1>1. /\ e.active \in Nat /\ e.transient \in Nat /\ e.seed \in Seeds
        /\ vs.lamports \in Nat /\ vs1.lamports \in Nat
        /\ ts[e.seed].lamports \in Nat /\ ts1[e.seed].lamports \in Nat
    BY DEF Entry, Account, Keeps
  <1>2. e.active <= vs.lamports => e.active <= vs1.lamports
    BY <1>1 DEF Keeps
  <1>3. e.transient <= ts[e.seed].lamports => e.transient <= ts1[e.seed].lamports
    BY <1>1 DEF Keeps
  <1>4. vs1.mine = vs.mine /\ ts1[e.seed].mine = ts[e.seed].mine
    BY <1>1 DEF Keeps
  <1> QED BY <1>2, <1>3, <1>4, Zenon DEF BackedBy

\* The accounts of all validators keep what they hold; the reserve may grow.
LEMMA AccountsKeepStep ==
  ASSUME PoolInv, NEW vs, NEW ts, NEW r \in Nat, r >= reserve, NEW d, d \subseteq drained,
         vs \in [Validators -> Account], ts \in [Validators -> [Seeds -> Account]],
         \A v \in Validators : Keeps(vs[v], vstake[v]),
         \A v \in Validators : \A s \in Seeds : Keeps(ts[v][s], tstake[v][s])
  PROVE  StakeOK(list, vs, ts, r, d, total_lamports)
  <1>1. /\ reserve \in Nat /\ reserve >= Rent /\ total_lamports \in Nat
    BY DEF PoolInv, StakeInv, StakeOK
  <1>2. \A v \in Validators : BackedBy(list[v], vs[v], ts[v])
    BY EntryFacts, KeepsBacked
  <1>3. r >= Rent /\ total_lamports + reserve <= total_lamports + r
    BY <1>1, Constants
  <1>4. SameList(vs, ts, r, d, total_lamports)
    BY <1>1, <1>2, <1>3 DEF SameList
  <1> QED BY <1>4, SameListStep DEF PoolInv

\* An account that does not change keeps what it holds.
LEMMA KeepsItself == \A a \in Account : Keeps(a, a)
  BY DEF Keeps, Account

\* Steps that do not touch the stake accounts, the list or the value.
LEMMA QuietStep ==
  ASSUME PoolInv, UNCHANGED <<stakeVars, reserve, total_lamports>>, drained' \subseteq drained
  PROVE  StakeInv'
  <1>1. /\ reserve \in Nat /\ reserve >= reserve
        /\ vstake \in [Validators -> Account] /\ tstake \in [Validators -> [Seeds -> Account]]
    BY DEF PoolInv, StakeInv, StakeOK
  <1>2. StakeOK(list, vstake, tstake, reserve, drained', total_lamports)
    BY <1>1, KeepsItself, AccountsKeepStep
  <1> QED BY <1>2 DEF StakeInv, stakeVars

\* One account of a validator changes and keeps what it holds.
LEMMA OneAccountKeepsStep ==
  ASSUME PoolInv, NEW v \in Validators, NEW vs, NEW ts,
         Keeps(vs, vstake[v]), ts \in [Seeds -> Account],
         \A s \in Seeds : Keeps(ts[s], tstake[v][s]),
         vstake' = [vstake EXCEPT ![v] = vs], tstake' = [tstake EXCEPT ![v] = ts],
         UNCHANGED <<list, reserve, total_lamports>>, drained' \subseteq drained
  PROVE  StakeInv'
  <1>1. /\ reserve \in Nat /\ reserve >= reserve
        /\ vstake \in [Validators -> Account] /\ tstake \in [Validators -> [Seeds -> Account]]
    BY DEF PoolInv, StakeInv, StakeOK
  <1> DEFINE v1 == [vstake EXCEPT ![v] = vs]
             t1 == [tstake EXCEPT ![v] = ts]
  <1>2. vs \in Account
    BY DEF Keeps
  <1>3. v1 \in [Validators -> Account] /\ t1 \in [Validators -> [Seeds -> Account]]
    BY <1>1, <1>2
  <1>4. /\ \A w \in Validators : Keeps(v1[w], vstake[w])
        /\ \A w \in Validators : \A s \in Seeds : Keeps(t1[w][s], tstake[w][s])
    BY <1>1, KeepsItself
  <1> HIDE DEF v1, t1
  <1>5. StakeOK(list, v1, t1, reserve, drained', total_lamports)
    BY <1>1, <1>3, <1>4, AccountsKeepStep
  <1> QED BY <1>5 DEF StakeInv, v1, t1

\* One transient account changes and keeps what it holds.
LEMMA KeepsRow ==
  ASSUME PoolInv, NEW v \in Validators, NEW s \in Seeds, NEW a, Keeps(a, tstake[v][s])
  PROVE  /\ [tstake[v] EXCEPT ![s] = a] \in [Seeds -> Account]
         /\ \A x \in Seeds : Keeps([tstake[v] EXCEPT ![s] = a][x], tstake[v][x])
  BY EntryFacts, KeepsItself DEF Keeps

\* Operations of the stake program and transfers after which an account keeps
\* what it holds.
LEMMA KeepsOperations ==
  ASSUME NEW a \in Account, NEW now \in Nat, NEW d \in Nat
  PROVE  /\ Keeps(Deactivated(a, now), a)
         /\ Keeps(Destaked(a), a)
         /\ Keeps([a EXCEPT !.lamports = @ + d], a)
         /\ Keeps([a EXCEPT !.lamports = @ + d, !.stake = @ + d], a)
  <1>1. Keeps(Deactivated(a, now), a)
    BY DEF Keeps, Deactivated, Account
  <1>2. Keeps(Destaked(a), a)
    <2>1. a.lamports \in Nat /\ a.mine \in BOOLEAN
      BY DEF Account
    <2> DEFINE l == a.lamports
               m == a.mine
               b == Initialized(l, m)
    <2>2. b \in Account
      BY <2>1, AccountTypes
    <2> HIDE DEF l, m
    <2>3. b.lamports = l /\ b.mine = m
      BY DEF Initialized, Unallocated
    <2>4. b.lamports >= l
      BY <2>1, <2>3 DEF l
    <2> HIDE DEF b
    <2>5. Keeps(b, a)
      BY <2>2, <2>3, <2>4 DEF Keeps, l, m
    <2>6. Keeps(a, a)
      BY KeepsItself
    <2> QED BY <2>5, <2>6 DEF Destaked, b, l, m
  <1> DEFINE n == a.lamports + d
             k == a.stake + d
  <1>3. n \in Nat /\ k \in Nat /\ n >= a.lamports
    BY DEF Account
  <1> HIDE DEF n, k
  <1>4. Keeps([a EXCEPT !.lamports = n], a) /\ Keeps([a EXCEPT !.lamports = n, !.stake = k], a)
    BY <1>3 DEF Keeps, Account
  <1>5. Keeps([a EXCEPT !.lamports = @ + d], a)
        /\ Keeps([a EXCEPT !.lamports = @ + d, !.stake = @ + d], a)
    BY <1>4 DEF n, k
  <1> QED BY <1>1, <1>2, <1>5

\* The distribution of rewards only adds lamports to accounts.
LEMMA RewardsStep ==
  ASSUME PoolInv, NEW W \in SUBSET Validators, NEW r \in Nat, DistributeRewards(W, r)
  PROVE  StakeInv'
  <1> DEFINE v1 == [v \in Validators |-> IF v \in W THEN Earned(vstake[v], r) ELSE vstake[v]]
             t1 == [v \in Validators |-> [s \in Seeds |->
                      IF v \in W THEN Earned(tstake[v][s], r) ELSE tstake[v][s]]]
  <1>1. ASSUME NEW a \in Account PROVE Keeps(Earned(a, r), a)
    <2> DEFINE b == [a EXCEPT !.lamports = @ + r, !.stake = @ + r]
    <2>1. Keeps(b, a) /\ Keeps(a, a)
      BY Constants, KeepsOperations, KeepsItself
    <2>2. Earned(a, r) \in {b, a}
      BY DEF Earned
    <2> HIDE DEF b
    <2> QED BY <2>1, <2>2
  <1>2. /\ \A v \in Validators : Keeps(v1[v], vstake[v])
        /\ \A v \in Validators : \A s \in Seeds : Keeps(t1[v][s], tstake[v][s])
    BY <1>1, EntryFacts, KeepsItself
  <1>3. v1 \in [Validators -> Account]
    BY <1>2 DEF Keeps
  <1>4. t1 \in [Validators -> [Seeds -> Account]]
    BY <1>2 DEF Keeps
  <1>5. /\ reserve \in Nat /\ reserve >= reserve /\ {} \subseteq drained
    BY DEF PoolInv, StakeInv, StakeOK
  <1> HIDE DEF v1, t1
  <1>6. StakeOK(list, v1, t1, reserve, {}, total_lamports)
    BY <1>2, <1>3, <1>4, <1>5, AccountsKeepStep
  <1> QED BY <1>6 DEF StakeInv, DistributeRewards, valueVars, v1, t1

\* Whatever third parties and cluster restarts do to the accounts, the records
\* stay backed: they add lamports, deactivate, or take over addresses that
\* nothing is recorded of.
LEMMA OutsidersStep ==
  ASSUME PoolInv, Outsiders
  PROVE  StakeInv'
  <1> USE DEF Environment, valueVars
  <1>0. /\ vstake \in [Validators -> Account] /\ tstake \in [Validators -> [Seeds -> Account]]
        /\ reserve \in Nat /\ epoch \in Nat
    BY DEF PoolInv, StakeInv, StakeOK, FeeInv, FeeTypeOK
  <1>a. /\ reserve \in Nat /\ reserve >= Rent /\ total_lamports \in Nat
        /\ total_lamports + reserve <= total_lamports + reserve
    BY DEF PoolInv, StakeInv, StakeOK
  <1>1. ASSUME NEW d \in Donations, DonateToReserve(d) PROVE StakeInv'
    <2>1. reserve + d \in Nat /\ reserve + d >= reserve
      BY <1>0, PoolAssumption
    <2>2. StakeOK(list, vstake, tstake, reserve + d, {}, total_lamports)
      BY <1>0, <2>1, KeepsItself, AccountsKeepStep
    <2> QED BY <1>1, <2>2 DEF DonateToReserve, StakeInv
  <1>2. ASSUME NEW v \in Validators, NEW d \in Donations, DonateToValidator(v, d)
        PROVE  StakeInv'
    <2> DEFINE a == [vstake[v] EXCEPT !.lamports = @ + d]
    <2>1. Keeps(a, vstake[v])
      BY <1>0, PoolAssumption, KeepsOperations
    <2>2. vstake' = [vstake EXCEPT ![v] = a] /\ tstake' = [tstake EXCEPT ![v] = tstake[v]]
      BY <1>0, <1>2 DEF DonateToValidator
    <2> HIDE DEF a
    <2>3. UNCHANGED <<list, reserve, total_lamports>> /\ drained' \subseteq drained
      BY <1>2 DEF DonateToValidator
    <2> QED BY <1>0, <2>1, <2>2, <2>3, KeepsItself, OneAccountKeepsStep
  <1>3. ASSUME NEW v \in Validators, NEW d \in Donations, DonateToTransient(v, d)
        PROVE  StakeInv'
    <2> DEFINE s == list[v].seed
               a == [tstake[v][s] EXCEPT !.lamports = @ + d]
               ts == [tstake[v] EXCEPT ![s] = a]
    <2>0. s \in Seeds
      BY EntryFacts
    <2>1. Keeps(a, tstake[v][s])
      BY <1>0, <2>0, PoolAssumption, KeepsOperations
    <2>2. tstake' = [tstake EXCEPT ![v] = ts] /\ vstake' = [vstake EXCEPT ![v] = vstake[v]]
      BY <1>0, <1>3 DEF DonateToTransient
    <2> HIDE DEF a
    <2>3. ts \in [Seeds -> Account] /\ \A x \in Seeds : Keeps(ts[x], tstake[v][x])
      BY <2>0, <2>1, KeepsRow
    <2> HIDE DEF ts
    <2>4. UNCHANGED <<list, reserve, total_lamports>> /\ drained' \subseteq drained
      BY <1>3 DEF DonateToTransient
    <2> QED BY <1>0, <2>2, <2>3, <2>4, KeepsItself, OneAccountKeepsStep
  <1>4. ASSUME NEW v \in Validators, DeactivateDelinquent(v) PROVE StakeInv'
    <2> DEFINE a == Deactivated(vstake[v], epoch)
    <2>1. Keeps(a, vstake[v])
      BY <1>0, Constants, KeepsOperations
    <2>2. vstake' = [vstake EXCEPT ![v] = a] /\ tstake' = [tstake EXCEPT ![v] = tstake[v]]
      BY <1>0, <1>4 DEF DeactivateDelinquent
    <2> HIDE DEF a
    <2>3. UNCHANGED <<list, reserve, total_lamports>> /\ drained' \subseteq drained
      BY <1>4 DEF DeactivateDelinquent
    <2> QED BY <1>0, <2>1, <2>2, <2>3, KeepsItself, OneAccountKeepsStep
  <1>5. ASSUME NEW v \in Validators, DeactivateDelinquentTransient(v) PROVE StakeInv'
    <2> DEFINE s == list[v].seed
               a == Deactivated(tstake[v][s], epoch)
               ts == [tstake[v] EXCEPT ![s] = a]
    <2>0. s \in Seeds
      BY EntryFacts
    <2>1. Keeps(a, tstake[v][s])
      BY <1>0, <2>0, Constants, KeepsOperations
    <2>2. tstake' = [tstake EXCEPT ![v] = ts] /\ vstake' = [vstake EXCEPT ![v] = vstake[v]]
      BY <1>0, <1>5 DEF DeactivateDelinquentTransient
    <2> HIDE DEF a
    <2>3. ts \in [Seeds -> Account] /\ \A x \in Seeds : Keeps(ts[x], tstake[v][x])
      BY <2>0, <2>1, KeepsRow
    <2> HIDE DEF ts
    <2>4. UNCHANGED <<list, reserve, total_lamports>> /\ drained' \subseteq drained
      BY <1>5 DEF DeactivateDelinquentTransient
    <2> QED BY <1>0, <2>2, <2>3, <2>4, KeepsItself, OneAccountKeepsStep
  <1>6. ASSUME NEW v \in Validators, ForceDestake(v) PROVE StakeInv'
    <2> DEFINE a == Destaked(vstake[v])
               ts == [s \in Seeds |-> Destaked(tstake[v][s])]
    <2>1. Keeps(a, vstake[v])
      BY <1>0, Constants, KeepsOperations
    <2>2. tstake' = [tstake EXCEPT ![v] = ts] /\ vstake' = [vstake EXCEPT ![v] = a]
      BY <1>0, <1>6 DEF ForceDestake
    <2>3. \A x \in Seeds : Keeps(ts[x], tstake[v][x])
      BY <1>0, Constants, KeepsOperations
    <2>4. ts \in [Seeds -> Account]
      BY <2>3 DEF Keeps
    <2> HIDE DEF ts, a
    <2>5. UNCHANGED <<list, reserve, total_lamports>> /\ drained' \subseteq drained
      BY <1>6 DEF ForceDestake
    <2> QED BY <2>1, <2>2, <2>3, <2>4, <2>5, OneAccountKeepsStep
  <1>7. ASSUME NEW v \in Validators, NEW a \in Account, list[v].active = 0,
               vstake' = [vstake EXCEPT ![v] = a],
               UNCHANGED <<list, reserve, total_lamports, tstake>>, drained' \subseteq drained
        PROVE  StakeInv'
    <2> DEFINE v1 == [vstake EXCEPT ![v] = a]
    <2>1. v1 \in [Validators -> Account]
      BY <1>0
    <2>2. \A w \in Validators : BackedBy(list[w], v1[w], tstake[w])
      <3>1. BackedBy(list[v], a, tstake[v])
        BY <1>7, EntryFacts DEF BackedBy
      <3> QED BY <3>1, <1>0, EntryFacts
    <2> HIDE DEF v1
    <2>3. SameList(v1, tstake, reserve, drained', total_lamports)
      BY <1>0, <1>a, drained' \subseteq drained, <2>1, <2>2 DEF SameList
    <2>4. StakeOK(list, v1, tstake, reserve, drained', total_lamports)
      BY <2>3, SameListStep DEF PoolInv
    <2> QED BY <1>7, <2>4 DEF StakeInv, v1
  <1>8. ASSUME NEW v \in Validators, NEW s \in Seeds, NEW a \in Account,
               s = list[v].seed => list[v].transient = 0,
               tstake' = [tstake EXCEPT ![v][s] = a],
               UNCHANGED <<list, reserve, total_lamports, vstake>>, drained' \subseteq drained
        PROVE  StakeInv'
    <2> DEFINE t1 == [tstake EXCEPT ![v][s] = a]
    <2>1. t1 \in [Validators -> [Seeds -> Account]]
      BY <1>0
    <2>2. \A w \in Validators : BackedBy(list[w], vstake[w], t1[w])
      <3>1. BackedBy(list[v], vstake[v], t1[v])
        BY <1>0, <1>8, EntryFacts DEF BackedBy
      <3>2. \A w \in Validators : w # v => t1[w] = tstake[w]
        BY <1>0
      <3> QED BY <3>1, <3>2, EntryFacts
    <2> HIDE DEF t1
    <2>3. SameList(vstake, t1, reserve, drained', total_lamports)
      BY <1>0, <1>a, drained' \subseteq drained, <2>1, <2>2 DEF SameList
    <2>4. StakeOK(list, vstake, t1, reserve, drained', total_lamports)
      BY <2>3, SameListStep DEF PoolInv
    <2> QED BY <1>8, <2>4 DEF StakeInv, t1
  <1>9. ASSUME NEW v \in Validators, NEW d \in Prefunds, PrefundValidator(v, d)
        PROVE  StakeInv'
    <2>1. Unallocated(d) \in Account
      BY PoolAssumption, AccountTypes
    <2>2. ~vstake[v].mine
      BY <1>9 DEF PrefundValidator, Unallocated
    <2>3. list[v].active = 0
      BY <2>2, EntryFacts DEF BackedBy
    <2> QED BY <1>7, <1>9, <2>1, <2>3 DEF PrefundValidator
  <1>10. ASSUME NEW v \in Validators, NEW s \in Seeds, NEW d \in Prefunds, Prefund(v, s, d)
         PROVE  StakeInv'
    <2>1. Unallocated(d) \in Account
      BY PoolAssumption, AccountTypes
    <2>2. ~tstake[v][s].mine
      BY <1>10 DEF Prefund, Unallocated
    <2>3. s = list[v].seed => list[v].transient = 0
      BY <2>2, EntryFacts DEF BackedBy
    <2> QED BY <1>8, <1>10, <2>1, <2>3 DEF Prefund
  <1>11. ASSUME NEW v \in Validators, NEW mine \in BOOLEAN, HijackValidator(v, mine)
         PROVE  StakeInv'
    <2>1. Initialized(Rent, mine) \in Account
      BY Constants, AccountTypes
    <2>2. list[v].active = 0
      BY <1>11 DEF HijackValidator, PoolInv, StakeInv, StakeOK, Unused
    <2> QED BY <1>7, <1>11, <2>1, <2>2 DEF HijackValidator
  <1>12. ASSUME NEW v \in Validators, NEW s \in Seeds, NEW mine \in BOOLEAN,
                HijackTransient(v, s, mine)
         PROVE  StakeInv'
    <2>1. Initialized(Rent, mine) \in Account
      BY Constants, AccountTypes
    <2>2. s = list[v].seed => list[v].transient = 0
      BY <1>12 DEF HijackTransient, PoolInv, StakeInv, StakeOK, Unused
    <2> QED BY <1>8, <1>12, <2>1, <2>2 DEF HijackTransient
  <1>13. ASSUME NEW h, NEW a, BurnTokens(h, a) PROVE StakeInv'
    BY <1>13, QuietStep DEF BurnTokens
  <1> QED
    BY <1>1, <1>2, <1>3, <1>4, <1>5, <1>6, <1>9, <1>10, <1>11, <1>12, <1>13 DEF Outsiders
----------------------------------------------------------------------------
\* The records that UpdateValidatorListBalance works on, and what its parts do
\* to them.
Work == [ok : BOOLEAN, status : Statuses \cup {"NotListed"}, t : Account, vs : Account,
         reserve : Nat, found : Nat, active : Nat]

\* The fields of a work record.
LEMMA WorkFields ==
  ASSUME NEW u \in Work
  PROVE  /\ u.ok \in BOOLEAN /\ u.status \in Statuses \cup {"NotListed"}
         /\ u.t \in Account /\ u.vs \in Account
         /\ u.reserve \in Nat /\ u.found \in Nat /\ u.active \in Nat
         /\ u.t.lamports \in Nat /\ u.vs.lamports \in Nat /\ u.vs.stake \in Nat
  BY DEF Work, Account

\* The record with which the handler starts.
LEMMA BeginWork ==
  ASSUME PoolInv, NEW v \in Validators
  PROVE  /\ Begin(v) \in Work /\ Begin(v).ok = TRUE /\ Begin(v).status = list[v].status
         /\ Begin(v).t = Transient(v) /\ Begin(v).vs = vstake[v]
         /\ Begin(v).reserve = reserve /\ Begin(v).found = 0 /\ Begin(v).active = 0
  BY EntryFacts DEF Begin, Work, Entry

\* The transient account is counted.
LEMMA CountTransientWork ==
  ASSUME NEW u \in Work
  PROVE  LET w == CountTransient(u)
         IN /\ w \in Work /\ w.found = u.t.lamports
            /\ w.ok = u.ok /\ w.status = u.status /\ w.t = u.t /\ w.vs = u.vs
            /\ w.reserve = u.reserve /\ w.active = u.active
  BY WorkFields DEF CountTransient, Work

\* Statuses stay statuses.
LEMMA StatusWork ==
  ASSUME NEW status \in Statuses \cup {"NotListed"}
  PROVE  /\ RemoveTransientStake(status) \in Statuses \cup {"NotListed"}
         /\ RemoveValidatorStake(status) \in Statuses \cup {"NotListed"}
  BY DEF RemoveTransientStake, RemoveValidatorStake, Statuses

\* The transient account is merged into the reserve.
LEMMA TransientIntoReserveWork ==
  ASSUME NEW u \in Work
  PROVE  LET w == TransientIntoReserve(u)
         IN /\ w \in Work /\ w.reserve = u.reserve + u.t.lamports
            /\ w.t = Unallocated(0) /\ w.status = RemoveTransientStake(u.status)
            /\ w.vs = u.vs /\ w.found = u.found /\ w.active = u.active
            /\ w.ok = CanMergeIntoReserve(u.t)
  <1> DEFINE n == u.reserve + u.t.lamports
             b == CanMergeIntoReserve(u.t)
             st == RemoveTransientStake(u.status)
             a == Unallocated(0)
             w == TransientIntoReserve(u)
  <1>1. n \in Nat /\ st \in Statuses \cup {"NotListed"} /\ a \in Account
    BY WorkFields, StatusWork, AccountTypes
  <1>2. b \in BOOLEAN
    BY WorkFields, Zenon DEF CanMergeIntoReserve, Account
  <1>3. w = [u EXCEPT !.ok = b, !.reserve = n, !.t = a, !.status = st]
    BY DEF TransientIntoReserve
  <1> HIDE DEF n, b, st, a, w
  <1>4. /\ w \in Work /\ w.reserve = n /\ w.t = a /\ w.status = st /\ w.vs = u.vs
        /\ w.found = u.found /\ w.active = u.active /\ w.ok = b
    BY <1>1, <1>2, <1>3 DEF Work
  <1> QED BY <1>4 DEF n, b, st, a, w

\* The transient account is merged into the validator stake account.
LEMMA TransientIntoValidatorWork ==
  ASSUME NEW u \in Work, epoch \in Nat
  PROVE  LET w == TransientIntoValidator(u)
         IN /\ w \in Work /\ w.vs = Merged(u.vs, u.t, epoch)
            /\ w.t = Unallocated(0) /\ w.status = u.status /\ w.reserve = u.reserve
            /\ w.found = u.found /\ w.active = u.active
            /\ w.ok = CanMerge(u.vs, u.t, epoch)
  <1> DEFINE b == CanMerge(u.vs, u.t, epoch)
             m == Merged(u.vs, u.t, epoch)
             a == Unallocated(0)
             w == TransientIntoValidator(u)
  <1>1. m \in Account /\ a \in Account
    BY WorkFields, AccountTypes, MergedAccount
  <1>2. b \in BOOLEAN
    BY WorkFields, Zenon DEF CanMerge, Account
  <1>3. w = [u EXCEPT !.ok = b, !.vs = m, !.t = a]
    BY DEF TransientIntoValidator
  <1> HIDE DEF b, m, a, w
  <1>4. /\ w \in Work /\ w.vs = m /\ w.t = a /\ w.status = u.status
        /\ w.reserve = u.reserve /\ w.found = u.found /\ w.active = u.active /\ w.ok = b
    BY <1>1, <1>2, <1>3 DEF Work
  <1> QED BY <1>4 DEF b, m, a, w

\* Sweeping moves lamports from the account to the reserve.
LEMMA SweepExtraWork ==
  ASSUME NEW u \in Work
  PROVE  LET w == SweepExtra(u)
         IN /\ w \in Work /\ w.vs \in Account
            /\ w.reserve + w.vs.lamports = u.reserve + u.vs.lamports
            /\ w.reserve >= u.reserve
            /\ w.vs.mine = u.vs.mine /\ w.vs.kind = u.vs.kind
            /\ w.ok = u.ok /\ w.status = u.status /\ w.t = u.t
            /\ w.found = u.found /\ w.active = u.active
  <1> DEFINE x == ExtraLamports(u.vs)
             n == u.reserve + x
             k == u.vs.lamports - x
             a == [u.vs EXCEPT !.lamports = k]
             w == SweepExtra(u)
  <1>1. x \in Nat /\ k \in Nat /\ n \in Nat /\ n + k = u.reserve + u.vs.lamports /\ n >= u.reserve
    BY WorkFields, Constants DEF ExtraLamports
  <1>2. w = [u EXCEPT !.reserve = n, !.vs = a]
    BY WorkFields DEF SweepExtra, Work
  <1> HIDE DEF n, k, w
  <1>3. a \in Account /\ a.lamports = k /\ a.mine = u.vs.mine /\ a.kind = u.vs.kind
    BY <1>1, WorkFields DEF Account
  <1> HIDE DEF a
  <1>4. /\ w \in Work /\ w.reserve = n /\ w.vs = a /\ w.t = u.t /\ w.status = u.status
        /\ w.found = u.found /\ w.active = u.active /\ w.ok = u.ok
    BY <1>1, <1>2, <1>3 DEF Work
  <1> QED BY <1>1, <1>3, <1>4 DEF w

\* The validator stake account is counted.
LEMMA CountValidatorWork ==
  ASSUME NEW u \in Work
  PROVE  LET w == CountValidator(u)
         IN /\ w \in Work /\ w.active = u.vs.lamports
            /\ w.ok = u.ok /\ w.status = u.status /\ w.t = u.t /\ w.vs = u.vs
            /\ w.reserve = u.reserve /\ w.found = u.found
  BY WorkFields DEF CountValidator, Work

\* The validator stake account is merged into the reserve.
LEMMA ValidatorIntoReserveWork ==
  ASSUME NEW u \in Work, NEW status \in Statuses \cup {"NotListed"}
  PROVE  LET w == ValidatorIntoReserve(u, status)
         IN /\ w \in Work /\ w.reserve = u.reserve + u.vs.lamports
            /\ w.vs = Unallocated(0) /\ w.status = status
            /\ w.t = u.t /\ w.found = u.found /\ w.active = u.active
            /\ w.ok => u.ok
  <1> DEFINE n == u.reserve + u.vs.lamports
             b == u.ok /\ CanMergeIntoReserve(u.vs)
             a == Unallocated(0)
             w == ValidatorIntoReserve(u, status)
  <1>1. n \in Nat /\ a \in Account
    <2>1. n \in Nat
      BY WorkFields
    <2>2. a \in Account
      BY AccountTypes
    <2> QED BY <2>1, <2>2
  <1>2. b \in BOOLEAN /\ (b => u.ok)
    BY WorkFields, Zenon DEF CanMergeIntoReserve, Account
  <1>3. w = [u EXCEPT !.ok = b, !.reserve = n, !.vs = a, !.status = status]
    BY DEF ValidatorIntoReserve
  <1> HIDE DEF n, b, a, w
  <1>4. /\ w \in Work /\ w.reserve = n /\ w.vs = a /\ w.status = status /\ w.t = u.t
        /\ w.found = u.found /\ w.active = u.active /\ w.ok = b
    BY <1>1, <1>2, <1>3 DEF Work
  <1>5. w.ok => u.ok
    BY <1>2, <1>4, Zenon
  <1> QED BY <1>4, <1>5 DEF n, a, w

\* What the first half of an update has done: the transient lamports are in
\* the reserve, still counted, or merged into the validator stake account, and
\* the status agrees with what was found.
HalfDone(v, u) ==
  /\ u \in Work
  /\ u.active = 0
  /\ u.status # "NotListed"
  /\ u.reserve >= reserve
  /\ u.found > 0 => u.t.mine /\ u.found <= u.t.lamports
  /\ u.status \in {"DeactivatingValidator", "ReadyForRemoval"} => u.found = 0
  /\ u.status \in {"DeactivatingTransient", "DeactivatingAll"} => u.found > 0
  /\ u.status \in {"DeactivatingTransient", "ReadyForRemoval"} => list[v].active = 0
  /\ u.t.kind = "none" /\ Transient(v).kind # "none" => u.found = 0
  /\ \/ /\ u.vs = vstake[v]
        /\ u.reserve + u.found >= reserve + list[v].transient
     \/ /\ u.status = "Active" /\ u.vs.mine /\ u.vs.kind = "stake"
        /\ u.found = 0 /\ u.vs.lamports >= vstake[v].lamports + list[v].transient

\* The first half of an update, in each of its branches.
LEMMA TransientHalf ==
  ASSUME PoolInv, NEW v \in Validators, Listed(v), NEW no_merge \in BOOLEAN,
         UpdateTransient(v, no_merge).ok
  PROVE  HalfDone(v, UpdateTransient(v, no_merge))
  <1> DEFINE u == Begin(v)
             w == UpdateTransient(v, no_merge)
  <1>1. /\ u \in Work /\ u.status = list[v].status
        /\ u.t = Transient(v) /\ u.vs = vstake[v]
        /\ u.reserve = reserve /\ u.found = 0 /\ u.active = 0
    BY BeginWork
  <1>2. /\ reserve \in Nat /\ list[v].active \in Nat /\ list[v].transient \in Nat
        /\ Transient(v) \in Account /\ Transient(v).lamports \in Nat
        /\ vstake[v] \in Account /\ vstake[v].lamports \in Nat /\ epoch \in Nat
    BY EntryFacts
  <1>3. /\ list[v].transient > 0 => list[v].transient <= Transient(v).lamports
        /\ list[v].transient > 0 => Transient(v).mine
    BY EntryFacts, Zenon DEF BackedBy, Transient
  <1>4. /\ list[v].status # "NotListed" /\ RecordOK(list[v])
        /\ list[v].status \in Statuses
    BY EntryFacts DEF Listed, Entry
  <1> HIDE DEF u
  <1>5. CASE list[v].transient = 0
    <2>1. w = u
      BY <1>5 DEF UpdateTransient, u
    <2> QED BY <1>1, <1>2, <1>4, <1>5, <2>1 DEF HalfDone, RecordOK
  <1>6. CASE list[v].transient > 0
    <2>1. UsableByPool(u.t)
      BY <1>1, <1>3, <1>6, Zenon DEF UsableByPool
    <2>2. list[v].status \in {"Active", "DeactivatingTransient", "DeactivatingAll"}
      BY <1>4, <1>6, <1>2 DEF RecordOK, Statuses
    <2>3. list[v].status = "DeactivatingTransient" => list[v].active = 0
      BY <1>4 DEF RecordOK
    <2>4. ASSUME NEW x \in Work, x.found = x.t.lamports, x.status = list[v].status,
                 x.t.lamports = Transient(v).lamports, x.t.mine = Transient(v).mine,
                 x.t.kind = Transient(v).kind, x.vs = vstake[v], x.reserve = reserve,
                 x.active = 0
          PROVE  HalfDone(v, x)
      <3>1. x.found \in Nat /\ x.found >= list[v].transient /\ x.found > 0
        BY <1>2, <1>3, <1>6, <2>4
      <3>2. x.t.mine
        BY <1>3, <1>6, <2>4, Zenon
      <3>3. x.reserve >= reserve /\ x.reserve + x.found >= reserve + list[v].transient
            /\ x.found <= x.t.lamports
        BY <1>2, <3>1, <2>4
      <3> QED BY <1>4, <2>2, <2>3, <2>4, <3>1, <3>2, <3>3 DEF HalfDone
    <2>5. CASE w = CountTransient(u)
      <3> DEFINE x == CountTransient(u)
      <3>1. /\ x \in Work /\ x.found = u.t.lamports /\ x.status = u.status /\ x.t = u.t
            /\ x.vs = u.vs /\ x.reserve = u.reserve /\ x.active = u.active
        BY <1>1, CountTransientWork
      <3> HIDE DEF x
      <3>2. HalfDone(v, x)
        BY <1>1, <2>4, <3>1
      <3> QED BY <2>5, <3>2 DEF x
    <2>6. CASE w = TransientIntoReserve(u)
      <3> DEFINE x == TransientIntoReserve(u)
      <3>1. /\ x \in Work /\ x.reserve = u.reserve + u.t.lamports
            /\ x.t = Unallocated(0) /\ x.status = RemoveTransientStake(u.status)
            /\ x.vs = u.vs /\ x.found = u.found /\ x.active = u.active
        BY <1>1, TransientIntoReserveWork
      <3> HIDE DEF x
      <3>2. x.reserve >= reserve /\ x.reserve + x.found >= reserve + list[v].transient
        BY <1>1, <1>2, <1>3, <1>6, <3>1
      <3>3. /\ x.status \notin {"NotListed", "DeactivatingTransient", "DeactivatingAll"}
            /\ x.status = "ReadyForRemoval" => list[v].active = 0
        BY <1>1, <2>2, <2>3, <3>1 DEF RemoveTransientStake
      <3>4. HalfDone(v, x)
        BY <1>1, <1>2, <3>1, <3>2, <3>3 DEF HalfDone
      <3> QED BY <2>6, <3>4 DEF x
    <2>7. CASE w = TransientIntoValidator(u) /\ ReadyForValidator(u)
      <3> DEFINE x == TransientIntoValidator(u)
                 m == Merged(u.vs, u.t, epoch)
      <3>1. /\ x \in Work /\ x.vs = m /\ x.t = Unallocated(0) /\ x.status = u.status
            /\ x.reserve = u.reserve /\ x.found = u.found /\ x.active = u.active
            /\ x.ok = CanMerge(u.vs, u.t, epoch)
        BY <1>1, <1>2, TransientIntoValidatorWork
      <3>2. /\ m.lamports = u.vs.lamports + u.t.lamports /\ m.mine = u.vs.mine
            /\ m.kind = u.vs.kind
        <4>1. u.vs \in Account /\ u.t \in Account /\ epoch \in Nat
          BY <1>1, <1>2
        <4> QED BY ONLY <4>1, MergedAccount
      <3> HIDE DEF x, m
      <3>3. x.ok
        BY <2>7 DEF x
      <3>4. x.vs.mine
        BY <3>1, <3>2, <3>3, Zenon DEF CanMerge
      <3>5. x.status = "Active" /\ x.vs.kind = "stake"
        BY <2>7, <3>1, <3>2 DEF ReadyForValidator
      <3>6. x.vs.lamports >= vstake[v].lamports + list[v].transient /\ x.reserve >= reserve
        BY <1>1, <1>2, <1>3, <1>6, <3>1, <3>2
      <3>7. HalfDone(v, x)
        BY <1>1, <3>1, <3>4, <3>5, <3>6 DEF HalfDone
      <3> QED BY <2>7, <3>7 DEF x
    <2>8. CASE w = CountTransient([u EXCEPT !.t = DeactivatedIfNeeded(@, epoch)])
      <3> DEFINE a == DeactivatedIfNeeded(u.t, epoch)
                 y == [u EXCEPT !.t = a]
                 x == CountTransient(y)
      <3>1. /\ a \in Account /\ a.lamports = u.t.lamports /\ a.mine = u.t.mine
            /\ a.kind = u.t.kind
        <4>1. u.t \in Account /\ epoch \in Nat
          BY <1>1, <1>2
        <4> QED BY ONLY <4>1, AccountTypes, DeactivatedKeeps
      <3> HIDE DEF a
      <3>2. /\ y \in Work /\ y.t = a /\ y.status = u.status /\ y.vs = u.vs
            /\ y.reserve = u.reserve /\ y.active = u.active
        BY <1>1, <3>1 DEF Work
      <3> HIDE DEF y
      <3>3. /\ x \in Work /\ x.found = y.t.lamports /\ x.status = y.status /\ x.t = y.t
            /\ x.vs = y.vs /\ x.reserve = y.reserve /\ x.active = y.active
        BY <3>2, CountTransientWork
      <3> HIDE DEF x
      <3>4. HalfDone(v, x)
        BY <1>1, <2>4, <3>1, <3>2, <3>3
      <3> QED BY <2>8, <3>4 DEF x, y, a
    <2> QED
      <3>1. list[v].transient # 0
        BY <1>2, <1>6
      <3> QED BY <2>1, <2>5, <2>6, <2>7, <2>8, <3>1 DEF UpdateTransient, u
  <1> QED BY <1>2, <1>5, <1>6

\* What the whole update has done to the entry and the reserve.
Done(v, w) ==
  /\ w \in Work
  /\ w.reserve >= reserve
  /\ RecordOK([list[v] EXCEPT !.status = w.status, !.active = w.active, !.transient = w.found,
                              !.last_update = epoch])
  /\ w.active > 0 => w.vs.mine /\ w.active <= w.vs.lamports
  /\ w.found > 0 => w.t.mine /\ w.found <= w.t.lamports
  /\ w.reserve + w.active + w.found >= reserve + list[v].active + list[v].transient
  /\ w.vs.kind = "none" /\ vstake[v].kind # "none" => w.active = 0
  /\ w.t.kind = "none" /\ Transient(v).kind # "none" => w.found = 0

\* RecordOK of an updated entry, from its fields.
LEMMA RecordOKFields ==
  ASSUME PoolInv, NEW v \in Validators, NEW status, NEW active, NEW found,
         status \in {"NotListed", "ReadyForRemoval"} => active = 0 /\ found = 0,
         status = "DeactivatingValidator" => found = 0,
         status = "DeactivatingTransient" => active = 0 /\ found > 0,
         status = "DeactivatingAll" => found > 0
  PROVE  RecordOK([list[v] EXCEPT !.status = status, !.active = active, !.transient = found,
                                  !.last_update = epoch])
  <1> DEFINE e == [list[v] EXCEPT !.status = status, !.active = active, !.transient = found,
                                  !.last_update = epoch]
  <1>1. e.status = status /\ e.active = active /\ e.transient = found
    BY EntryFacts DEF Entry
  <1> HIDE DEF e
  <1>2. RecordOK(e)
    BY <1>1 DEF RecordOK
  <1> QED BY <1>2 DEF e

\* The second half of an update, in each of its branches.
LEMMA ValidatorHalf ==
  ASSUME PoolInv, NEW v \in Validators, NEW u, HalfDone(v, u), NEW no_merge \in BOOLEAN
  PROVE  Done(v, UpdateValidator(u, no_merge))
  <1> DEFINE s == SweepExtra(u)
             w == UpdateValidator(u, no_merge)
  <1>0. /\ list[v].active \in Nat /\ list[v].transient \in Nat /\ reserve \in Nat
        /\ vstake[v].lamports \in Nat /\ epoch \in Nat
    BY EntryFacts
  <1>1. list[v].active <= vstake[v].lamports
    BY EntryFacts DEF BackedBy
  <1>2. /\ u \in Work /\ u.active = 0 /\ u.reserve >= reserve
        /\ u.status \in Statuses
        /\ u.reserve \in Nat /\ u.found \in Nat /\ u.vs \in Account /\ u.vs.lamports \in Nat
        /\ u.t.lamports \in Nat
    BY WorkFields DEF HalfDone
  <1>3. /\ u.status \in {"DeactivatingValidator", "ReadyForRemoval"} => u.found = 0
        /\ u.status \in {"DeactivatingTransient", "DeactivatingAll"} => u.found > 0
        /\ u.status \in {"DeactivatingTransient", "ReadyForRemoval"} => list[v].active = 0
    BY DEF HalfDone
  <1>4. /\ u.found > 0 => u.t.mine /\ u.found <= u.t.lamports
        /\ u.t.kind = "none" /\ Transient(v).kind # "none" => u.found = 0
    BY DEF HalfDone
  <1>5. \/ /\ u.vs = vstake[v]
           /\ u.reserve + u.found >= reserve + list[v].transient
        \/ /\ u.status = "Active" /\ u.vs.mine /\ u.vs.kind = "stake"
           /\ u.found = 0 /\ u.vs.lamports >= vstake[v].lamports + list[v].transient
    BY DEF HalfDone
  <1>6. u.reserve + u.vs.lamports + u.found >= reserve + list[v].active + list[v].transient
    BY <1>0, <1>1, <1>2, <1>5
  \* Every branch counts what it leaves in the account or moves it to the reserve.
  <1>7. ASSUME NEW x \in Work, x.t = u.t, x.found = u.found, x.reserve >= u.reserve,
               x.active > 0 => x.vs.mine /\ x.active <= x.vs.lamports,
               x.reserve + x.active + x.found >= reserve + list[v].active + list[v].transient,
               x.vs.kind = "none" /\ vstake[v].kind # "none" => x.active = 0,
               x.status \in {"NotListed", "ReadyForRemoval"} => x.active = 0 /\ x.found = 0,
               x.status = "DeactivatingValidator" => x.found = 0,
               x.status = "DeactivatingTransient" => x.active = 0 /\ x.found > 0,
               x.status = "DeactivatingAll" => x.found > 0
        PROVE  Done(v, x)
    <2>1. RecordOK([list[v] EXCEPT !.status = x.status, !.active = x.active,
                                   !.transient = x.found, !.last_update = epoch])
      BY ONLY <1>7, PoolInv, v \in Validators, RecordOKFields
    <2>2. x.reserve \in Nat /\ x.reserve >= reserve
      BY <1>0, <1>2, <1>7, WorkFields
    <2> QED BY <1>4, <1>7, <2>1, <2>2 DEF Done
  <1>8. CASE ~UsableByPool(u.vs)
    <2>1. w = u
      BY <1>8 DEF UpdateValidator
    <2>2. u.vs = vstake[v] /\ u.reserve + u.found >= reserve + list[v].transient
      BY <1>5, <1>8 DEF UsableByPool
    <2>3. list[v].active = 0
      BY <1>8, <2>2, EntryFacts DEF UsableByPool, BackedBy
    <2>4. /\ u.reserve + u.active + u.found >= reserve + list[v].active + list[v].transient
          /\ ~(u.active > 0) /\ u.reserve >= u.reserve
      BY <1>0, <1>2, <2>2, <2>3
    <2>5. Done(v, u)
      BY <1>2, <1>3, <1>7, <2>4 DEF Statuses
    <2> QED BY <2>1, <2>5
  <1>9. CASE UsableByPool(u.vs) /\ u.vs.kind = "initialized"
    <2> DEFINE st == DestakedStatus(u.found)
               x == ValidatorIntoReserve(u, st)
    <2>1. st \in Statuses \cup {"NotListed"}
          /\ st = IF u.found # 0 THEN "DeactivatingTransient" ELSE "ReadyForRemoval"
      BY DEF DestakedStatus, Statuses
    <2> HIDE DEF st
    <2>2. /\ x \in Work /\ x.reserve = u.reserve + u.vs.lamports
          /\ x.status = st /\ x.t = u.t /\ x.found = u.found /\ x.active = u.active
      BY <1>2, <2>1, ValidatorIntoReserveWork
    <2>3. w = x
      BY <1>9 DEF UpdateValidator, st
    <2> HIDE DEF x, w
    <2>4. /\ x.reserve >= u.reserve /\ x.active = 0 /\ ~(x.active > 0)
          /\ x.reserve + x.active + x.found >= reserve + list[v].active + list[v].transient
      BY <1>0, <1>2, <1>6, <2>2
    <2>5. /\ x.status = "ReadyForRemoval" => x.found = 0
          /\ x.status = "DeactivatingTransient" => x.found > 0
          /\ x.status \in {"ReadyForRemoval", "DeactivatingTransient"}
      BY <1>2, <2>1, <2>2
    <2>6. Done(v, x)
      BY <1>7, <2>2, <2>4, <2>5
    <2> QED BY <2>3, <2>6 DEF w
  <1>10. /\ s \in Work /\ s.vs \in Account /\ s.vs.lamports \in Nat /\ s.reserve \in Nat
         /\ s.reserve + s.vs.lamports = u.reserve + u.vs.lamports
         /\ s.reserve >= u.reserve
         /\ s.vs.mine = u.vs.mine /\ s.vs.kind = u.vs.kind
         /\ s.status = u.status /\ s.t = u.t /\ s.found = u.found /\ s.active = 0
    BY <1>2, SweepExtraWork, WorkFields
  <1>11. CASE /\ UsableByPool(u.vs) /\ u.vs.kind # "initialized"
              /\ u.status \in {"DeactivatingTransient", "ReadyForRemoval"}
    <2>1. w = s
      BY <1>11 DEF UpdateValidator
    <2> HIDE DEF s, w
    <2>2. list[v].active = 0 /\ u.reserve + u.found >= reserve + list[v].transient
      BY <1>3, <1>5, <1>11
    <2>3. s.reserve + s.active + s.found >= reserve + list[v].active + list[v].transient
          /\ ~(s.active > 0)
      BY <1>0, <1>2, <1>10, <2>2
    <2>4. Done(v, s)
      BY <1>3, <1>7, <1>10, <1>11, <2>3
    <2> QED BY <2>1, <2>4 DEF w
  <1>12. CASE /\ UsableByPool(u.vs) /\ u.vs.kind # "initialized"
              /\ u.status \notin {"DeactivatingTransient", "ReadyForRemoval"}
              /\ u.status # "Active" /\ ~no_merge /\ InactiveWithoutHistory(u.vs)
    <2> DEFINE st == RemoveValidatorStake(u.status)
               x == ValidatorIntoReserve(s, st)
    <2>1. /\ st \in Statuses \cup {"NotListed"}
          /\ st \in {"DeactivatingTransient", "ReadyForRemoval"}
          /\ st = "DeactivatingTransient" => u.found > 0
          /\ st = "ReadyForRemoval" => u.found = 0
      BY <1>2, <1>3, <1>12 DEF RemoveValidatorStake, Statuses
    <2>2. w = x
      BY <1>12 DEF UpdateValidator
    <2> HIDE DEF s, st, w
    <2>3. /\ x \in Work /\ x.reserve = s.reserve + s.vs.lamports
          /\ x.status = st /\ x.t = s.t /\ x.found = s.found /\ x.active = s.active
      BY <1>10, <2>1, ValidatorIntoReserveWork
    <2> HIDE DEF x
    <2>4. /\ x.reserve >= u.reserve /\ x.active = 0 /\ ~(x.active > 0)
          /\ x.reserve + x.active + x.found >= reserve + list[v].active + list[v].transient
      BY <1>0, <1>2, <1>6, <1>10, <2>3
    <2>5. Done(v, x)
      BY <1>7, <1>10, <2>1, <2>3, <2>4
    <2> QED BY <2>2, <2>5 DEF w
  <1>13. CASE /\ UsableByPool(u.vs) /\ u.vs.kind # "initialized"
              /\ u.status \notin {"DeactivatingTransient", "ReadyForRemoval"}
              /\ ~(u.status # "Active" /\ ~no_merge /\ InactiveWithoutHistory(u.vs))
    <2> DEFINE x == CountValidator(s)
    <2>1. w = x
      BY <1>13 DEF UpdateValidator
    <2> HIDE DEF s, w
    <2>2. /\ x \in Work /\ x.active = s.vs.lamports
          /\ x.status = s.status /\ x.t = s.t /\ x.vs = s.vs
          /\ x.reserve = s.reserve /\ x.found = s.found
      BY <1>10, CountValidatorWork
    <2> HIDE DEF x
    <2>3. /\ x.reserve >= u.reserve /\ x.active <= x.vs.lamports
          /\ x.reserve + x.active + x.found >= reserve + list[v].active + list[v].transient
      BY <1>0, <1>2, <1>6, <1>10, <2>2
    <2>4. x.vs.mine
      BY <1>10, <1>13, <2>2, Zenon DEF UsableByPool
    <2>5. ~(x.vs.kind = "none" /\ vstake[v].kind # "none")
      BY <1>5, <1>10, <2>2
    <2>6. Done(v, x)
      BY <1>2, <1>3, <1>7, <1>10, <1>13, <2>2, <2>3, <2>4, <2>5 DEF Statuses
    <2> QED BY <2>1, <2>6 DEF w
  <1> QED BY <1>8, <1>9, <1>11, <1>12, <1>13

\* A CPI of the first half that fails is not forgotten by the second.
LEMMA UpdateOkWork ==
  ASSUME NEW u \in Work, NEW no_merge \in BOOLEAN, UpdateValidator(u, no_merge).ok
  PROVE  u.ok
  <1> DEFINE s == SweepExtra(u)
  <1>1. s \in Work /\ s.ok = u.ok
    BY SweepExtraWork
  <1> HIDE DEF s
  <1>2. CountValidator(s).ok = s.ok
    BY <1>1, CountValidatorWork
  <1>3. ASSUME NEW st \in Statuses \cup {"NotListed"}
        PROVE  /\ ValidatorIntoReserve(u, st).ok => u.ok
               /\ ValidatorIntoReserve(s, st).ok => s.ok
    BY <1>1, ValidatorIntoReserveWork
  <1>4. /\ DestakedStatus(u.found) \in Statuses \cup {"NotListed"}
        /\ RemoveValidatorStake(u.status) \in Statuses \cup {"NotListed"}
    BY WorkFields, StatusWork DEF DestakedStatus, Statuses
  <1>5. UpdateValidator(u, no_merge) \in
          {u, s, CountValidator(s), ValidatorIntoReserve(u, DestakedStatus(u.found)),
           ValidatorIntoReserve(s, RemoveValidatorStake(u.status))}
    BY DEF UpdateValidator, s
  <1> QED BY <1>1, <1>2, <1>3, <1>4, <1>5, Zenon

\* The first half yields a work record.
LEMMA TransientWork ==
  ASSUME PoolInv, NEW v \in Validators, NEW no_merge \in BOOLEAN
  PROVE  UpdateTransient(v, no_merge) \in Work
  <1> DEFINE u == Begin(v)
             y == [u EXCEPT !.t = DeactivatedIfNeeded(@, epoch)]
  <1>0. epoch \in Nat
    BY EntryFacts
  <1>1. u \in Work
    BY BeginWork
  <1> HIDE DEF u
  <1>2. y \in Work
    <2>1. DeactivatedIfNeeded(u.t, epoch) \in Account
      BY <1>0, <1>1, WorkFields, AccountTypes
    <2> QED BY <1>1, <2>1 DEF Work
  <1> HIDE DEF y
  <1>3. /\ CountTransient(u) \in Work /\ CountTransient(y) \in Work
        /\ TransientIntoReserve(u) \in Work /\ TransientIntoValidator(u) \in Work
    BY <1>0, <1>1, <1>2, CountTransientWork, TransientIntoReserveWork, TransientIntoValidatorWork
  <1>4. UpdateTransient(v, no_merge) \in
          {u, CountTransient(u), CountTransient(y), TransientIntoReserve(u),
           TransientIntoValidator(u)}
    BY DEF UpdateTransient, u, y
  <1> QED BY <1>1, <1>3, <1>4

\* Both halves of an update that succeeds.
LEMMA UpdateDone ==
  ASSUME PoolInv, NEW v \in Validators, NEW no_merge \in BOOLEAN, Listed(v),
         UpdateEntry(v, no_merge).ok
  PROVE  /\ HalfDone(v, UpdateTransient(v, no_merge))
         /\ Done(v, UpdateEntry(v, no_merge))
  <1> DEFINE u == UpdateTransient(v, no_merge)
  <1>1. u.ok
    BY TransientWork, UpdateOkWork DEF UpdateEntry
  <1>2. HalfDone(v, u)
    BY <1>1, TransientHalf
  <1> QED BY <1>2, ValidatorHalf DEF UpdateEntry

\* UpdateValidatorListBalance: no branch loses lamports the entry recorded.
LEMMA UpdateListStep ==
  ASSUME PoolInv, NEW v \in Validators, NEW no_merge \in BOOLEAN,
         UpdateValidatorListBalance(v, no_merge)
  PROVE  StakeInv'
  <1> DEFINE u == UpdateEntry(v, no_merge)
             s == list[v].seed
             e == [list[v] EXCEPT !.status = u.status, !.active = u.active,
                                  !.transient = u.found, !.last_update = epoch]
             ts == [tstake[v] EXCEPT ![s] = u.t]
             d == Drain(Emptied(v, u))
  <1>1. Done(v, u)
    BY UpdateDone DEF UpdateValidatorListBalance
  <1>2. /\ list' = [list EXCEPT ![v] = e] /\ vstake' = [vstake EXCEPT ![v] = u.vs]
        /\ tstake' = [tstake EXCEPT ![v] = ts] /\ reserve' = u.reserve /\ drained' = d
        /\ total_lamports' = total_lamports
    <2>1. s \in Seeds
      BY EntryFacts
    <2> QED BY <2>1, RowChanges
            DEF UpdateValidatorListBalance, valueVars, PoolInv, StakeInv, StakeOK
  <1> HIDE DEF u
  <1>3. u \in Work /\ u.vs \in Account /\ u.t \in Account /\ u.reserve \in Nat
        /\ u.active \in Nat /\ u.found \in Nat
        /\ u.status \in Statuses \cup {"NotListed"}
    BY <1>1, WorkFields DEF Done
  <1>4. /\ e \in Entry /\ e.active = u.active /\ e.transient = u.found /\ e.seed = s
    BY <1>3, EntryFacts DEF Entry
  <1>5. ts \in [Seeds -> Account] /\ ts[s] = u.t
    BY <1>3, EntryFacts
  <1>6. RecordOK(e)
    BY <1>1 DEF Done
  <1>7. d \subseteq {<<v, NoValidator>>, <<v, s>>}
    BY DEF Drain, Emptied
  <1>8. <<v, NoValidator>> \in d => u.active = 0
    <2>1. s # NoValidator
      BY EntryFacts, PoolAssumption
    <2>2. <<v, NoValidator>> \in d => u.vs.kind = "none" /\ vstake[v].kind # "none"
      BY <2>1 DEF Drain, Emptied
    <2> QED BY <1>1, <2>2 DEF Done
  <1>9. <<v, s>> \in d => u.found = 0
    <2>1. s # NoValidator
      BY EntryFacts, PoolAssumption
    <2>2. <<v, s>> \in d => u.t.kind = "none" /\ Transient(v).kind # "none"
      BY <2>1 DEF Drain, Emptied
    <2> QED BY <1>1, <2>2 DEF Done
  <1> HIDE DEF e, ts, d, s
  <1>10. BackedBy(e, u.vs, ts)
    BY <1>1, <1>4, <1>5, Zenon DEF Done, BackedBy
  <1>11. /\ u.reserve >= Rent
         /\ total_lamports + reserve + Recorded(list[v])
               <= total_lamports + u.reserve + Recorded(e)
    <2>1. u.reserve >= reserve
          /\ u.reserve + u.active + u.found >= reserve + list[v].active + list[v].transient
      BY <1>1 DEF Done
    <2> QED BY <1>3, <1>4, <2>1, EntryFacts, Constants DEF Recorded
  <1>12. OneEntry(v, e, u.vs, ts, u.reserve, d, total_lamports)
    BY <1>3, <1>4, <1>5, <1>6, <1>7, <1>8, <1>9, <1>10, <1>11, EntryFacts DEF OneEntry
  <1>13. StakeOK([list EXCEPT ![v] = e], [vstake EXCEPT ![v] = u.vs],
                 [tstake EXCEPT ![v] = ts], u.reserve, d, total_lamports)
    BY <1>12, OneEntryStep DEF PoolInv
  <1> QED BY <1>2, <1>13 DEF StakeInv
----------------------------------------------------------------------------
\* CleanupRemovedValidatorEntries drops entries that record nothing.
LEMMA CleanupStep ==
  ASSUME PoolInv, NEW writable, CleanupRemovedValidatorEntries(writable)
  PROVE  StakeInv'
  <1> DEFINE l1 == [v \in Validators |-> IF IsRemoved(list[v]) THEN NotListed ELSE list[v]]
  <1>0. /\ list \in [Validators -> Entry] /\ IsFiniteSet(Validators)
        /\ EntriesOK(list, vstake, tstake)
    BY PoolAssumption DEF PoolInv, StakeInv, StakeOK
  <1>1. l1 \in [Validators -> Entry]
    BY <1>0, NotListedType
  <1>2. /\ NotListed.active = 0 /\ NotListed.transient = 0 /\ NotListed.status = "NotListed"
    BY DEF NotListed
  <1>3. RecordOK(NotListed) /\ \A vs, ts : BackedBy(NotListed, vs, ts)
    BY <1>2 DEF RecordOK, BackedBy
  <1>4. EntriesOK(l1, vstake, tstake)
    BY <1>0, <1>3 DEF EntriesOK
  <1>5. ListTotal(l1) = ListTotal(list)
    <2>1. \A v \in Validators : Recorded(l1[v]) = Recorded(list[v])
      BY <1>0, <1>2 DEF Recorded, IsRemoved, Entry
    <2> HIDE DEF l1
    <2>2. \A v \in Validators : [w \in Validators |-> Recorded(l1[w])][v]
                                  = [w \in Validators |-> Recorded(list[w])][v]
      BY <2>1
    <2> QED BY <1>0, <2>2, TotalSame DEF ListTotal
  <1> HIDE DEF l1
  <1>6. StakeOK(l1, vstake, tstake, reserve, {}, total_lamports)
    BY <1>1, <1>4, <1>5 DEF PoolInv, StakeInv, StakeOK, Unused
  <1> QED BY <1>6 DEF StakeInv, CleanupRemovedValidatorEntries, valueVars, l1

\* The value that UpdateStakePoolBalance computes, and that no loss hides in it.
LEMMA ComputedTotal ==
  ASSUME PoolInv
  PROVE  /\ reserve - Rent + ListLamports \in Nat
         /\ reserve - Rent + ListLamports >= total_lamports
         /\ StakeOK(list, vstake, tstake, reserve, {}, reserve - Rent + ListLamports)
  <1> DEFINE n == ListTotal(list)
  <1>1. n \in Nat
    BY TotalOfList DEF PoolInv, StakeInv, StakeOK
  <1>2. ListLamports = n
    BY ListLamportsNow
  <1>3. reserve \in Nat /\ reserve >= Rent /\ total_lamports <= reserve - Rent + n
        /\ total_lamports \in Nat
    BY DEF PoolInv, StakeInv, StakeOK
  <1> HIDE DEF n
  <1> DEFINE T1 == reserve - Rent + n
  <1>4. T1 \in Nat /\ T1 >= total_lamports /\ T1 <= reserve - Rent + n
    BY <1>1, <1>3, Constants
  <1> HIDE DEF T1
  <1>5. StakeOK(list, vstake, tstake, reserve, {}, T1)
    BY <1>4 DEF PoolInv, StakeInv, StakeOK, n, Unused
  <1> QED BY <1>2, <1>4, <1>5 DEF T1

\* UpdateStakePoolBalance makes the value what the accounts hold.
LEMMA UpdatePoolStep ==
  ASSUME PoolInv, UpdateStakePoolBalance
  PROVE  StakeInv'
  <1>1. total_lamports' = reserve - Rent + ListLamports
    BY DEF UpdateStakePoolBalance, Accrue
  <1> QED BY <1>1, ComputedTotal DEF StakeInv, UpdateStakePoolBalance, stakeVars

-----------------------------------------------------------------------------
(* The theorems about StakePool.                                           *)

\* An instruction of the pool changes the fees as FeeSchedule says, or not at
\* all.
LEMMA FeeStep == [Next]_vars => [FeeNext]_feeVars
<1> SUFFICES ASSUME [Next]_vars PROVE [FeeNext]_feeVars
  OBVIOUS
<1>1. ASSUME NEW v \in Validators, Staker(v) PROVE UNCHANGED feeVars
  <2>1. ASSUME NEW l, NEW s, NEW source, NEW target, NEW lent,
               RecordDecrease(v, l, s, source, target, lent)
        PROVE  UNCHANGED feeVars
    BY <2>1 DEF RecordDecrease
  <2>2. ASSUME NEW l, NEW s, NEW fund, DecreaseValidatorStake(v, l, s, fund)
        PROVE  UNCHANGED feeVars
    BY <2>1, <2>2 DEF DecreaseValidatorStake
  <2>3. ASSUME NEW l, NEW s, DecreaseAdditionalValidatorStake(v, l, s)
        PROVE  UNCHANGED feeVars
    BY <2>1, <2>3 DEF DecreaseAdditionalValidatorStake
  <2>4. ASSUME NEW l, NEW s, NEW e, IncreaseValidatorStake(v, l, s, e)
        PROVE  UNCHANGED feeVars
    BY <2>4 DEF IncreaseValidatorStake
  <2>5. CASE AddValidatorToPool(v) \/ RemoveValidatorFromPool(v)
    BY <2>5 DEF AddValidatorToPool, RemoveValidatorFromPool
  <2>6. ASSUME NEW o, SetPreferredValidator(o, v) PROVE UNCHANGED feeVars
    BY <2>6 DEF SetPreferredValidator
  <2> QED BY <1>1, <2>2, <2>3, <2>4, <2>5, <2>6 DEF Staker
<1>2. CASE \E o \in Options : SetPreferredValidator(o, NoValidator)
  BY <1>2 DEF SetPreferredValidator
<1>3. CASE User
  <2>1. ASSUME NEW l, DepositSol(l) PROVE UNCHANGED feeVars
    BY <2>1 DEF DepositSol
  <2>2. ASSUME NEW v, NEW u, DepositStake(v, u) PROVE UNCHANGED feeVars
    BY <2>2 DEF DepositStake
  <2>3. ASSUME NEW h, NEW a, WithdrawSol(h, a) \/ WithdrawStakeFromReserve(h, a)
        PROVE  UNCHANGED feeVars
    BY <2>3 DEF WithdrawSol, WithdrawStakeFromReserve
  <2>4. ASSUME NEW v, NEW h, NEW a,
               \/ WithdrawActiveStake(v, h, a)
               \/ WithdrawTransientStake(v, h, a)
               \/ WithdrawWholeValidator(v, h, a)
        PROVE  UNCHANGED feeVars
    BY <2>4 DEF WithdrawActiveStake, WithdrawTransientStake, WithdrawWholeValidator
  <2> QED BY <1>3, <2>1, <2>2, <2>3, <2>4 DEF User
<1>4. CASE Manager
  BY <1>4 DEF Manager, ChangeFees, SetMaxValidatorStake, CloseFeeAccount,
     ReplaceFeeAccount, FeeNext
<1>5. CASE Crank
  BY <1>5 DEF Crank, UpdateValidatorListBalance, UpdateStakePoolBalance,
     CleanupRemovedValidatorEntries, FeeNext
<1>6. CASE Cluster
  BY <1>6 DEF Cluster, NewEpoch, DistributeRewards, FeeNext
<1>7. CASE Outsiders
  BY <1>7 DEF Outsiders, DonateToReserve, DonateToValidator, DonateToTransient,
     PrefundValidator, Prefund, DeactivateDelinquent, DeactivateDelinquentTransient,
     ForceDestake, HijackValidator, HijackTransient, BurnTokens, Environment
<1>8. CASE UNCHANGED vars
  BY <1>8 DEF vars
<1> QED BY <1>1, <1>2, <1>3, <1>4, <1>5, <1>6, <1>7, <1>8 DEF Next

\* The pool implements FeeSchedule: no other instruction disturbs the fees,
\* their schedule or the epoch of the last update.
THEOREM PoolFollowsFeeSchedule == Spec => FollowsFeeSchedule
<1>1. Init => FeeInit
  BY DEF Init
<1> QED BY <1>1, FeeStep, PTL DEF Spec, FollowsFeeSchedule, FeeSpec
----------------------------------------------------------------------------
\* A step of PoolValue, from value T and supply S to T1 and S1.
Promised(T, S, T1, S1) ==
  LET fair == S > 0 => T * S1 <= T1 * S
  IN /\ T1 \in Nat /\ S1 \in Nat
     /\ (T1 > T /\ S1 > S /\ fair) \/ (T1 < T /\ S1 < S /\ fair) \/ (T1 >= T /\ fair)

\* That is what Next of PoolValue says.
LEMMA PromisedValue ==
  Promised(total_lamports, pool_token_supply, total_lamports', pool_token_supply') <=> Value!Next
  BY DEF Promised, Value!Next, Value!Deposit, Value!Withdraw, Value!Accrue, Value!Fair

\* Tokens issued at the price of the pool or above, and tokens redeemed at the
\* price or below, leave the others worth as much.
LEMMA IssueFair ==
  ASSUME NEW T \in Nat, NEW S \in Nat, NEW lamports \in Nat, NEW minted \in Nat,
         S > 0 => T * minted <= lamports * S, lamports > 0, minted > 0
  PROVE  Promised(T, S, T + lamports, S + minted)
  <1>1. /\ T * (S + minted) = T * S + T * minted
        /\ (T + lamports) * S = T * S + lamports * S
    BY MulDistributes
  <1>2. T * S \in Nat /\ T * minted \in Nat /\ lamports * S \in Nat
    BY MulFacts
  <1>3. S > 0 => T * (S + minted) <= (T + lamports) * S
    BY <1>1, <1>2
  <1> QED BY <1>3 DEF Promised

\* The same for tokens that are redeemed.
LEMMA RedeemFair ==
  ASSUME NEW T \in Nat, NEW S \in Nat, NEW lamports \in Nat, NEW burnt \in Nat,
         lamports * S <= burnt * T, lamports <= T, burnt <= S, lamports > 0, burnt > 0
  PROVE  Promised(T, S, T - lamports, S - burnt)
  <1>1. /\ T * (S - burnt) = T * S - T * burnt
        /\ (T - lamports) * S = T * S - lamports * S
    BY MulDistributes
  <1>2. T * S \in Nat /\ T * burnt \in Nat /\ lamports * S \in Nat /\ T * burnt = burnt * T
    BY MulFacts
  <1>3. T * (S - burnt) <= (T - lamports) * S
    BY <1>1, <1>2
  <1> QED BY <1>3 DEF Promised

\* The same for a reward and the fee on it, when holders may have burnt tokens.
LEMMA AccrueFair ==
  ASSUME NEW T \in Nat, NEW S \in Nat, NEW reward \in Nat, NEW minted \in Nat,
         NEW mint \in Nat, mint <= S, S > 0 => T * minted <= reward * S
  PROVE  Promised(T, S, T + reward, mint + minted)
  <1>1. /\ T * (mint + minted) = T * mint + T * minted
        /\ (T + reward) * S = T * S + reward * S
    BY MulDistributes
  <1>2. T * S \in Nat /\ T * mint \in Nat /\ T * minted \in Nat /\ reward * S \in Nat
    BY MulFacts
  <1>3. T * mint <= T * S
    BY MulMonotonic
  <1>4. S > 0 => T * (mint + minted) <= (T + reward) * S
    BY <1>1, <1>2, <1>3
  <1> QED BY <1>4 DEF Promised

\* What the invariant says of value, supply and tokens.
LEMMA MoneyFacts ==
  ASSUME PoolInv
  PROVE  /\ total_lamports \in Nat /\ pool_token_supply \in Nat
         /\ tokens \in [Holders -> Nat]
         /\ tokens["user"] \in Nat /\ tokens["manager"] \in Nat
         /\ tokens["user"] + tokens["manager"] <= pool_token_supply
  BY DEF PoolInv, MoneyInv, MoneyOK, Holders

\* What it says of a fee.
LEMMA FeeFacts ==
  ASSUME PoolInv, NEW k \in FeeTypes
  PROVE  /\ fees[k].numerator \in Nat /\ fees[k].denominator \in Nat
         /\ fees[k].numerator <= fees[k].denominator
  BY DEF PoolInv, FeeInv, FeeTypeOK, FeesAtMostWhole, NotTooHigh, Fee

\* What it says of a referral percentage.
LEMMA ReferralFacts ==
  ASSUME PoolInv, NEW k \in ReferralTypes
  PROVE  referral_fees[k] \in 0..100
  BY DEF PoolInv, FeeInv, FeeTypeOK, FeesAtMostWhole

\* The mint and the supply grow by the same shares.
LEMMA MintMoney ==
  ASSUME PoolInv, NEW T1 \in Nat, NEW u \in Nat, NEW r \in Nat, NEW m \in Nat
  PROVE  MoneyOK(T1, pool_token_supply + (u + r + m),
                 [tokens EXCEPT !["user"] = @ + u + r, !["manager"] = @ + m])
  <1> DEFINE a == tokens["user"] + u + r
             b == tokens["manager"] + m
             held == [tokens EXCEPT !["user"] = a, !["manager"] = b]
  <1>1. a \in Nat /\ b \in Nat /\ pool_token_supply + (u + r + m) \in Nat
        /\ a + b <= pool_token_supply + (u + r + m)
    BY MoneyFacts
  <1> HIDE DEF a, b
  <1>2. held \in [Holders -> Nat] /\ held["user"] = a /\ held["manager"] = b
    BY <1>1, MoneyFacts DEF Holders
  <1> HIDE DEF held
  <1>3. MoneyOK(T1, pool_token_supply + (u + r + m), held)
    BY <1>1, <1>2 DEF MoneyOK
  <1> QED BY <1>3 DEF held, a, b

\* The mint and the supply shrink by the tokens burnt, whoever holds them: the
\* manager may redeem from the fee account itself.
LEMMA RedeemMoney ==
  ASSUME PoolInv, NEW T1 \in Nat, NEW holder \in Holders, NEW amount \in Nat,
         amount <= tokens[holder], NEW fee \in 0..amount,
         amount - fee <= pool_token_supply
  PROVE  MoneyOK(T1, pool_token_supply - (amount - fee),
                 [[tokens EXCEPT ![holder] = @ - amount] EXCEPT !["manager"] = @ + fee])
  <1> DEFINE held == [[tokens EXCEPT ![holder] = @ - amount] EXCEPT !["manager"] = @ + fee]
             S1 == pool_token_supply - (amount - fee)
  <1>1. S1 \in Nat
    BY MoneyFacts
  <1>2. CASE holder = "user"
    <2> DEFINE a == tokens["user"] - amount
               b == tokens["manager"] + fee
    <2>1. a \in Nat /\ b \in Nat /\ a + b <= S1
      BY <1>2, MoneyFacts
    <2>2. held = [[tokens EXCEPT !["user"] = a] EXCEPT !["manager"] = b]
      BY <1>2, MoneyFacts DEF Holders
    <2> HIDE DEF a, b, held, S1
    <2>3. held \in [Holders -> Nat] /\ held["user"] = a /\ held["manager"] = b
      BY <2>1, <2>2, MoneyFacts DEF Holders
    <2>4. MoneyOK(T1, S1, held)
      BY <1>1, <2>1, <2>3 DEF MoneyOK
    <2> QED BY <2>4 DEF held, S1
  <1>3. CASE holder = "manager"
    <2> DEFINE b == tokens["manager"] - amount + fee
    <2>1. b \in Nat /\ tokens["user"] + b <= S1
      BY <1>3, MoneyFacts
    <2>2. held = [tokens EXCEPT !["manager"] = b]
      BY <1>3, MoneyFacts DEF Holders
    <2> HIDE DEF b, held, S1
    <2>3. held \in [Holders -> Nat] /\ held["user"] = tokens["user"] /\ held["manager"] = b
      BY <2>1, <2>2, MoneyFacts DEF Holders
    <2>4. MoneyOK(T1, S1, held)
      BY <1>1, <2>1, <2>3 DEF MoneyOK
    <2> QED BY <2>4 DEF held, S1
  <1> QED BY <1>2, <1>3 DEF Holders

\* MoneyInv and a step of PoolValue, for the instructions that change the value.
Worth(T1, S1, held) ==
  MoneyOK(T1, S1, held) /\ Promised(total_lamports, pool_token_supply, T1, S1)

\* A deposit, with its fees and referral, dilutes nobody.
LEMMA MintWorth ==
  ASSUME PoolInv, NEW lamports \in Nat, NEW k \in ReferralTypes,
         NEW from_stake \in Nat, NEW from_sol \in Nat,
         from_stake + from_sol
           = PoolTokensForDeposit(total_lamports, pool_token_supply, lamports),
         Mint(DepositShares(fees, referral_fees[k], from_stake, from_sol))
  PROVE  Worth(total_lamports + lamports, pool_token_supply + (from_stake + from_sol), tokens')
  <1> DEFINE shares == DepositShares(fees, referral_fees[k], from_stake, from_sol)
             minted == from_stake + from_sol
             T == total_lamports
             S == pool_token_supply
  <1>1. WholeDepositFees(fees)
    BY FeeFacts DEF WholeDepositFees, FeeTypes, ImmediateFees
  <1>2. referral_fees[k] \in 0..100
    BY ReferralFacts
  <1>3. /\ shares.user \in Nat /\ shares.referrer \in Nat /\ shares.manager \in Nat
        /\ shares.user + shares.referrer + shares.manager = minted
    <2>1. AddUp(shares, minted)
      BY <1>1, <1>2, DepositSharesAddUp
    <2> QED BY <2>1 DEF AddUp
  <1> HIDE DEF shares
  <1>4. /\ shares.user > 0
        /\ tokens' = [tokens EXCEPT !["user"] = @ + shares.user + shares.referrer,
                                    !["manager"] = @ + shares.manager]
    BY DEF Mint, shares
  <1>5. T \in Nat /\ S \in Nat
    BY MoneyFacts
  <1>6. minted \in Nat /\ minted > 0
    BY <1>3, <1>4
  <1>7. T + lamports \in Nat
    BY <1>5
  <1>8. MoneyOK(T + lamports, S + minted, tokens')
    BY <1>3, <1>4, <1>7, MintMoney
  <1>9. (S > 0 => T * minted <= lamports * S) /\ lamports > 0
    <2>1. minted = PoolTokensForDeposit(T, S, lamports)
      OBVIOUS
    <2> HIDE DEF minted, T, S
    <2> QED BY ONLY <1>5, <1>6, <2>1, lamports \in Nat, DepositConversion
  <1>10. Promised(T, S, T + lamports, S + minted)
    BY <1>5, <1>6, <1>9, IssueFair
  <1> QED BY <1>8, <1>10 DEF Worth

\* The fee of a withdrawal is a part of the amount.
LEMMA FeeWithin ==
  ASSUME PoolInv, NEW kind \in WithdrawalFees, NEW holder, NEW amount \in Nat
  PROVE  WithdrawalFee(fees[kind], holder, amount) \in 0..amount
  <1>1. /\ fees[kind].numerator \in Nat /\ fees[kind].denominator \in Nat
        /\ fees[kind].numerator <= fees[kind].denominator
    BY FeeFacts DEF FeeTypes, FutureFees
  <1>2. Apply(fees[kind], amount) \in 0..amount
    BY <1>1, ApplyAtMostWhole
  <1> QED BY <1>2 DEF WithdrawalFee

\* lamports is what the tokens burnt are worth, or less.
LEMMA RedeemWorth ==
  ASSUME PoolInv, NEW kind \in WithdrawalFees, NEW holder \in Holders, NEW amount \in Nat,
         NEW lamports \in Nat, lamports > 0,
         lamports <= WithdrawLamports(kind, holder, amount),
         Redeem(kind, holder, amount, lamports)
  PROVE  /\ Worth(total_lamports', pool_token_supply', tokens')
         /\ lamports <= total_lamports /\ total_lamports' = total_lamports - lamports
  <1> DEFINE fee == WithdrawalFee(fees[kind], holder, amount)
             burnt == amount - fee
             T == total_lamports
             S == pool_token_supply
             paid == LamportsForWithdrawal(T, S, burnt)
  <1>1. fee \in 0..amount
    BY FeeWithin
  <1>2. /\ amount <= tokens[holder] /\ burnt <= S /\ lamports <= T
        /\ tokens' = [[tokens EXCEPT ![holder] = @ - amount] EXCEPT !["manager"] = @ + fee]
        /\ pool_token_supply' = S - burnt /\ total_lamports' = T - lamports
    BY DEF Redeem
  <1>3. lamports <= paid
    BY DEF WithdrawLamports
  <1> HIDE DEF fee
  <1>4. T \in Nat /\ S \in Nat /\ burnt \in Nat
    BY <1>1, MoneyFacts
  <1>5. T - lamports \in Nat
    BY <1>2, <1>4
  <1>6. MoneyOK(T - lamports, S - burnt, tokens')
    BY <1>1, <1>2, <1>5, RedeemMoney
  <1> HIDE DEF burnt
  <1>7. paid \in Nat /\ paid * S <= burnt * T /\ (paid > 0 => burnt > 0 /\ S > 0)
    BY <1>4, WithdrawConversion
  <1> HIDE DEF paid
  <1>8. lamports * S <= paid * S
    BY <1>3, <1>4, <1>7, MulMonotonic
  <1>9. lamports * S <= burnt * T /\ burnt > 0
    <2>1. lamports * S \in Nat /\ paid * S \in Nat /\ burnt * T \in Nat
      BY <1>4, <1>7, MulFacts
    <2>2. burnt > 0
      BY <1>3, <1>7
    <2> QED BY <1>7, <1>8, <2>1, <2>2
  <1>10. Promised(T, S, T - lamports, S - burnt)
    BY <1>2, <1>4, <1>9, RedeemFair
  <1> QED BY <1>2, <1>6, <1>10 DEF Worth

\* UpdateStakePoolBalance dilutes nobody, whatever the reward, the fee, the
\* state of the fee account and the tokens burnt behind its back.
LEMMA AccrueWorth ==
  ASSUME PoolInv, UpdateStakePoolBalance
  PROVE  Worth(total_lamports', pool_token_supply', tokens')
  <1> DEFINE T == total_lamports
             S == pool_token_supply
             total == reserve - Rent + ListLamports
             reward == Minus(total, T)
             fee == EpochFeeTokens(T, S, fees["epoch"], reward)
             minted == IF fee_account_ok THEN fee ELSE 0
             b == tokens["manager"] + minted
             held == [tokens EXCEPT !["manager"] = b]
  <1>1. total \in Nat /\ total >= T
    BY ComputedTotal
  <1>2. /\ total_lamports' = total /\ pool_token_supply' = MintSupply + minted
        /\ tokens' = held
    BY DEF UpdateStakePoolBalance, Accrue
  <1> HIDE DEF total
  <1>3. T \in Nat /\ S \in Nat
    BY MoneyFacts
  <1>4. reward \in Nat /\ total = T + reward
    BY <1>1, <1>3 DEF Minus
  <1> HIDE DEF reward
  <1>5. /\ fees["epoch"].numerator \in Nat /\ fees["epoch"].denominator \in Nat
        /\ fees["epoch"].numerator <= fees["epoch"].denominator
    BY FeeFacts DEF FeeTypes, FutureFees
  <1>6. fee \in Nat /\ (S > 0 => T * fee <= reward * S)
    BY <1>3, <1>4, <1>5, EpochFeeConversion
  <1> HIDE DEF fee
  <1>7. minted \in Nat /\ (S > 0 => T * minted <= reward * S)
    <2>1. CASE fee_account_ok
      BY <1>6, <2>1
    <2>2. CASE ~fee_account_ok
      <3>1. minted = 0
        BY <2>2
      <3>2. T * 0 = 0 /\ reward * S \in Nat
        BY <1>3, <1>4, MulFacts
      <3> QED BY <3>1, <3>2
    <2> QED BY <2>1, <2>2
  <1> HIDE DEF minted
  <1> DEFINE mint == MintSupply
  <1>8. mint \in Nat /\ mint <= S /\ mint + minted = tokens["user"] + b /\ b \in Nat
        /\ mint + minted \in Nat
    BY <1>7, MoneyFacts DEF MintSupply
  <1> HIDE DEF mint, b
  <1>9. held \in [Holders -> Nat] /\ held["user"] = tokens["user"] /\ held["manager"] = b
    BY <1>8, MoneyFacts DEF Holders
  <1> HIDE DEF held
  <1>10. MoneyOK(total, mint + minted, held)
    BY <1>1, <1>8, <1>9 DEF MoneyOK
  <1>11. Promised(T, S, T + reward, mint + minted)
    BY <1>3, <1>4, <1>7, <1>8, AccrueFair
  <1> QED BY <1>2, <1>4, <1>10, <1>11 DEF Worth, mint
----------------------------------------------------------------------------
\* What every step preserves.
Kept == StakeInv' /\ Worth(total_lamports', pool_token_supply', tokens')

\* DepositSol.
LEMMA DepositSolKept ==
  ASSUME PoolInv, NEW lamports \in DepositAmounts, DepositSol(lamports)
  PROVE  Kept
  <1> DEFINE T == total_lamports
             S == pool_token_supply
             minted == PoolTokensForDeposit(T, S, lamports)
  <1>0. lamports \in Nat
    BY PoolAssumption
  <1>1. T \in Nat /\ S \in Nat
    BY MoneyFacts
  <1>2. minted \in Nat
    BY <1>0, <1>1, DepositConversion
  <1>3. /\ Mint(DepositShares(fees, referral_fees["sol_referral"], 0, minted))
        /\ reserve' = reserve + lamports /\ total_lamports' = T + lamports
        /\ pool_token_supply' = S + minted /\ drained' = {} /\ UNCHANGED stakeVars
    BY DEF DepositSol
  <1>4. 0 + minted = minted /\ 0 + minted = PoolTokensForDeposit(T, S, lamports)
    BY <1>2
  <1> HIDE DEF minted
  <1>5. Worth(T + lamports, S + (0 + minted), tokens')
    BY <1>0, <1>2, <1>3, <1>4, MintWorth DEF ReferralTypes
  <1>6. StakeOK(list, vstake, tstake, reserve + lamports, {}, T + lamports)
    BY <1>0, DepositSolStep
  <1> QED BY <1>3, <1>4, <1>5, <1>6 DEF Kept, StakeInv, stakeVars

\* The stake accounts a user deposits hold at least what a merge stakes of them.
LEMMA UserStakeFacts ==
  ASSUME PoolInv, NEW v \in Validators, NEW u \in UserStakes,
         CanMerge(vstake[v], u, epoch)
  PROVE  /\ u \in Account
         /\ Merged(vstake[v], u, epoch).stake - vstake[v].stake
              <= Merged(vstake[v], u, epoch).lamports - vstake[v].lamports
  <1>1. PICK l \in DepositAmounts :
          u \in {[Delegated(l + Rent, l, 0) EXCEPT !.activation = e] : e \in {0, epoch}}
                  \cup {Initialized(l + Rent, TRUE)}
    BY DEF UserStakes
  <1>2. l \in Nat /\ l + Rent \in Nat /\ epoch \in Nat
    BY PoolAssumption, Constants, EntryFacts
  <1>3. u \in Account /\ u.lamports = l + Rent /\ u.kind \in {"stake", "initialized"}
        /\ (u.kind = "stake" => u.stake = l)
    <2>1. CASE u = Initialized(l + Rent, TRUE)
      BY <1>2, <2>1, AccountTypes DEF Initialized, Unallocated
    <2>2. CASE \E e \in {0, epoch} : u = [Delegated(l + Rent, l, 0) EXCEPT !.activation = e]
      <3> DEFINE n == l + Rent
      <3>1. n \in Nat
        BY <1>2
      <3>2. PICK e \in {0, epoch} : u = [Delegated(n, l, 0) EXCEPT !.activation = e]
        BY <2>2
      <3> HIDE DEF n
      <3>3. e \in Nat
        BY <1>2
      <3>4. u \in Account /\ u.lamports = n /\ u.kind = "stake" /\ u.stake = l
        BY <1>2, <3>1, <3>2, <3>3, Constants DEF Delegated, Account
      <3> QED BY <3>4 DEF n
    <2> QED BY <1>1, <2>1, <2>2
  <1> DEFINE dst == vstake[v]
             m == Merged(dst, u, epoch)
  <1>4. dst \in Account /\ dst.stake \in Nat /\ dst.lamports \in Nat
    BY EntryFacts
  <1>5. m.lamports = dst.lamports + u.lamports /\ m.stake = MergedStake(dst, u, epoch)
    BY <1>2, <1>3, <1>4, MergedAccount
  <1>6. MergedStake(dst, u, epoch) \in {dst.stake + (l + Rent), dst.stake + l, dst.stake}
    <2>1. u.kind = "initialized" => MergeKind(u, epoch) = "inactive"
      BY DEF MergeKind
    <2>2. u.kind = "stake" => MergedStake(dst, u, epoch)
            \in {dst.stake + u.lamports, dst.stake + u.stake + Rent, dst.stake + u.stake, dst.stake}
      BY DEF MergedStake
    <2>3. u.kind = "initialized" => MergedStake(dst, u, epoch)
            \in {dst.stake + u.lamports, dst.stake}
      BY <2>1 DEF MergedStake
    <2>4. dst.stake + l + Rent = dst.stake + (l + Rent)
      BY <1>2, <1>4, Constants
    <2> QED BY <1>3, <2>2, <2>3, <2>4
  <1>7. MergedStake(dst, u, epoch) - dst.stake <= (dst.lamports + (l + Rent)) - dst.lamports
    BY <1>2, <1>4, <1>6, Constants
  <1> QED BY <1>3, <1>5, <1>7

\* DepositStake.
LEMMA DepositStakeKept ==
  ASSUME PoolInv, NEW v \in Validators, NEW u \in UserStakes, DepositStake(v, u)
  PROVE  Kept
  <1> DEFINE merged == Merged(vstake[v], u, epoch)
             total == merged.lamports - vstake[v].lamports
             from_stake == merged.stake - vstake[v].stake
             sol == total - from_stake
             T == total_lamports
             S == pool_token_supply
             minted == PoolTokensForDeposit(T, S, total)
             minted_stake == PoolTokensForDeposit(T, S, from_stake)
             from_sol == minted - minted_stake
             l1 == [list EXCEPT ![v].active = merged.lamports - sol]
             v1 == [vstake EXCEPT ![v] = [merged EXCEPT !.lamports = @ - sol]]
  <1>1. /\ IsActive(v) /\ CanMerge(vstake[v], u, epoch)
        /\ Mint(DepositShares(fees, referral_fees["stake_referral"], minted_stake, from_sol))
        /\ list' = l1 /\ vstake' = v1 /\ tstake' = tstake
        /\ reserve' = reserve + sol /\ drained' = {}
        /\ total_lamports' = T + total /\ pool_token_supply' = S + minted
    BY DEF DepositStake
  <1>2. u \in Account /\ from_stake <= total
    BY <1>1, UserStakeFacts
  <1>3. /\ total \in Nat /\ from_stake \in Nat
        /\ StakeOK(l1, v1, tstake, reserve + sol, {}, T + total)
    BY <1>1, <1>2, DepositStakeStep
  <1> HIDE DEF total, from_stake, l1, v1, sol
  <1>4. T \in Nat /\ S \in Nat
    BY MoneyFacts
  <1>5. minted \in Nat /\ minted_stake \in Nat /\ minted_stake <= minted
    BY <1>2, <1>3, <1>4, DepositConversion, DepositMonotonic
  <1> HIDE DEF minted_stake
  <1>6. /\ from_sol \in Nat /\ minted_stake + from_sol = minted
        /\ minted_stake + from_sol = PoolTokensForDeposit(T, S, total)
    BY <1>5
  <1> HIDE DEF minted, from_sol
  <1>7. Worth(T + total, S + (minted_stake + from_sol), tokens')
    BY <1>1, <1>3, <1>5, <1>6, MintWorth DEF ReferralTypes
  <1> QED BY <1>1, <1>3, <1>6, <1>7 DEF Kept, StakeInv

\* Withdrawals: what the pool pays is at most what the tokens burnt are worth.
LEMMA WithdrawLamportsType ==
  ASSUME PoolInv, NEW kind \in WithdrawalFees, NEW holder, NEW amount \in Nat
  PROVE  WithdrawLamports(kind, holder, amount) \in Nat
  <1> DEFINE fee == WithdrawalFee(fees[kind], holder, amount)
             burnt == amount - fee
  <1>1. fee \in 0..amount
    BY FeeWithin
  <1> HIDE DEF fee
  <1>2. burnt \in Nat /\ total_lamports \in Nat /\ pool_token_supply \in Nat
    BY <1>1, MoneyFacts
  <1> HIDE DEF burnt
  <1>3. LamportsForWithdrawal(total_lamports, pool_token_supply, burnt) \in Nat
    BY <1>2, WithdrawConversion
  <1> QED BY <1>3 DEF WithdrawLamports, burnt, fee

\* WithdrawSol and WithdrawStake, from each source.
LEMMA WithdrawKept ==
  ASSUME PoolInv, NEW holder \in Holders, NEW amount \in WithdrawAmounts,
         \/ WithdrawSol(holder, amount)
         \/ WithdrawStakeFromReserve(holder, amount)
         \/ \E v \in Validators : \/ WithdrawActiveStake(v, holder, amount)
                                  \/ WithdrawTransientStake(v, holder, amount)
                                  \/ WithdrawWholeValidator(v, holder, amount)
  PROVE  Kept
  <1>0. amount \in Nat
    BY PoolAssumption
  <1>1. ASSUME NEW kind \in WithdrawalFees, NEW lamports \in Nat, lamports > 0,
               lamports <= WithdrawLamports(kind, holder, amount),
               Redeem(kind, holder, amount, lamports), ReserveCanGive(lamports),
               reserve' = reserve - lamports, drained' = {}, UNCHANGED stakeVars
        PROVE  Kept
    <2>1. /\ Worth(total_lamports', pool_token_supply', tokens')
          /\ lamports <= total_lamports /\ total_lamports' = total_lamports - lamports
      BY <1>0, <1>1, RedeemWorth
    <2>2. StakeOK(list, vstake, tstake, reserve - lamports, {}, total_lamports - lamports)
      BY <1>1, <2>1, WithdrawSolStep
    <2> QED BY <1>1, <2>1, <2>2 DEF Kept, StakeInv, stakeVars
  <1> DEFINE sol == WithdrawLamports("sol_withdrawal", holder, amount)
             stake == WithdrawLamports("stake_withdrawal", holder, amount)
  <1>2. sol \in Nat /\ stake \in Nat /\ sol <= sol /\ stake <= stake
    BY <1>0, WithdrawLamportsType DEF WithdrawalFees
  <1>3. CASE WithdrawSol(holder, amount)
    <2>1. /\ sol > 0 /\ Redeem("sol_withdrawal", holder, amount, sol) /\ ReserveCanGive(sol)
          /\ reserve' = reserve - sol /\ drained' = {} /\ UNCHANGED stakeVars
      BY <1>3 DEF WithdrawSol
    <2> HIDE DEF sol
    <2> QED BY <1>1, <1>2, <2>1 DEF WithdrawalFees, sol
  <1>4. CASE WithdrawStakeFromReserve(holder, amount)
    <2>1. /\ stake > 0 /\ Redeem("stake_withdrawal", holder, amount, stake)
          /\ ReserveCanGive(stake) /\ reserve' = reserve - stake /\ drained' = {}
          /\ UNCHANGED stakeVars
      BY <1>4 DEF WithdrawStakeFromReserve, CanWithdrawStake
    <2> QED BY <1>1, <1>2, <2>1 DEF WithdrawalFees
  <1>5. ASSUME NEW v \in Validators, WithdrawActiveStake(v, holder, amount) PROVE Kept
    <2>1. /\ stake > 0 /\ Redeem("stake_withdrawal", holder, amount, stake)
          /\ IsActive(v) /\ vstake[v].lamports - stake >= MinimumStakeLamports
          /\ CanSplit(vstake[v], Rent, stake, epoch) /\ stake <= list[v].active
          /\ vstake' = [vstake EXCEPT ![v] = SplitSource(@, stake)]
          /\ list' = [list EXCEPT ![v].active = @ - stake] /\ tstake' = tstake
          /\ drained' = {} /\ reserve' = reserve
      BY <1>5 DEF WithdrawActiveStake, CanWithdrawStake
    <2>2. /\ Worth(total_lamports', pool_token_supply', tokens')
          /\ stake <= total_lamports /\ total_lamports' = total_lamports - stake
      BY <1>0, <1>2, <2>1, RedeemWorth DEF WithdrawalFees
    <2> HIDE DEF stake
    <2>3. StakeOK([list EXCEPT ![v].active = @ - stake],
                  [vstake EXCEPT ![v] = SplitSource(@, stake)],
                  tstake, reserve, {}, total_lamports - stake)
      BY <1>2, <2>1, <2>2, WithdrawActiveStep
    <2> QED BY <2>1, <2>2, <2>3 DEF Kept, StakeInv
  <1>6. ASSUME NEW v \in Validators, WithdrawTransientStake(v, holder, amount) PROVE Kept
    <2>1. /\ stake > 0 /\ Redeem("stake_withdrawal", holder, amount, stake)
          /\ IsActive(v) /\ Transient(v).lamports - stake >= MinimumStakeLamports
          /\ CanSplit(Transient(v), Rent, stake, epoch) /\ stake <= list[v].transient
          /\ tstake' = [tstake EXCEPT ![v][list[v].seed] = SplitSource(@, stake)]
          /\ list' = [list EXCEPT ![v].transient = @ - stake] /\ vstake' = vstake
          /\ drained' = {} /\ reserve' = reserve
      BY <1>6 DEF WithdrawTransientStake, CanWithdrawStake
    <2>2. /\ Worth(total_lamports', pool_token_supply', tokens')
          /\ stake <= total_lamports /\ total_lamports' = total_lamports - stake
      BY <1>0, <1>2, <2>1, RedeemWorth DEF WithdrawalFees
    <2> HIDE DEF stake
    <2>3. StakeOK([list EXCEPT ![v].transient = @ - stake], vstake,
                  [tstake EXCEPT ![v][list[v].seed] = SplitSource(@, stake)],
                  reserve, {}, total_lamports - stake)
      BY <1>2, <2>1, <2>2, WithdrawTransientStep
    <2> QED BY <2>1, <2>2, <2>3 DEF Kept, StakeInv
  <1>7. ASSUME NEW v \in Validators, WithdrawWholeValidator(v, holder, amount) PROVE Kept
    <2> DEFINE whole == vstake[v].lamports
    <2>1. /\ stake \in whole..(whole + Tolerance)
          /\ Redeem("stake_withdrawal", holder, amount, whole)
          /\ list[v].transient = 0 /\ list[v].active = whole
          /\ CanSplit(vstake[v], Rent, whole, epoch)
          /\ vstake' = [vstake EXCEPT ![v] = Unallocated(0)]
          /\ list' = [list EXCEPT ![v].active = 0, ![v].status = "ReadyForRemoval"]
          /\ tstake' = tstake /\ reserve' = reserve
          /\ drained' = Drain({<<v, NoValidator>>})
      BY <1>7 DEF WithdrawWholeValidator
    <2>2. whole \in Nat /\ whole > 0 /\ whole <= stake
      <3>1. whole \in Nat
        BY EntryFacts
      <3>2. SplitStake(vstake[v], Rent, whole) = whole - Rent
        BY DEF SplitStake
      <3>3. whole - Rent >= StakeMinimum
        BY <2>1, <3>2 DEF CanSplit
      <3> QED BY <2>1, <3>1, <3>3, Constants
    <2> HIDE DEF stake
    <2>3. /\ Worth(total_lamports', pool_token_supply', tokens')
          /\ whole <= total_lamports /\ total_lamports' = total_lamports - whole
      BY <1>0, <2>1, <2>2, RedeemWorth DEF WithdrawalFees, stake
    <2>4. StakeOK([list EXCEPT ![v].active = 0, ![v].status = "ReadyForRemoval"],
                  [vstake EXCEPT ![v] = Unallocated(0)], tstake, reserve,
                  Drain({<<v, NoValidator>>}), total_lamports - whole)
      BY <2>1, <2>3, WithdrawWholeStep
    <2> QED BY <2>1, <2>3, <2>4 DEF Kept, StakeInv
  <1> QED BY <1>3, <1>4, <1>5, <1>6, <1>7
----------------------------------------------------------------------------
\* Steps that leave value, supply and tokens alone.
LEMMA SameWorth ==
  ASSUME PoolInv, UNCHANGED valueVars
  PROVE  Worth(total_lamports', pool_token_supply', tokens')
  <1> DEFINE T == total_lamports
             S == pool_token_supply
  <1>1. T \in Nat /\ S \in Nat
    BY MoneyFacts
  <1>2. T * S \in Nat
    BY <1>1, MulFacts
  <1>3. Promised(T, S, T, S)
    BY <1>1, <1>2 DEF Promised
  <1>4. MoneyOK(T, S, tokens)
    BY DEF PoolInv, MoneyInv
  <1> QED BY <1>3, <1>4 DEF Worth, valueVars

\* Holders who burn tokens lower the mint, not the supply the pool knows.
LEMMA BurnWorth ==
  ASSUME PoolInv, NEW h \in Holders, NEW a \in Nat, BurnTokens(h, a)
  PROVE  Worth(total_lamports', pool_token_supply', tokens')
  <1> DEFINE T == total_lamports
             S == pool_token_supply
             n == tokens[h] - a
             held == [tokens EXCEPT ![h] = n]
  <1>1. T \in Nat /\ S \in Nat
    BY MoneyFacts
  <1>2. T * S \in Nat
    BY <1>1, MulFacts
  <1>3. Promised(T, S, T, S)
    BY <1>1, <1>2 DEF Promised
  <1>4. tokens' = held /\ total_lamports' = T /\ pool_token_supply' = S /\ a <= tokens[h]
    BY DEF BurnTokens
  <1>5. n \in Nat /\ n <= tokens[h]
    BY <1>4, MoneyFacts
  <1> HIDE DEF n
  <1>6. held \in [Holders -> Nat] /\ (\A x \in Holders : held[x] <= tokens[x])
    BY <1>5, MoneyFacts
  <1>7. held["user"] \in Nat /\ held["manager"] \in Nat
        /\ held["user"] <= tokens["user"] /\ held["manager"] <= tokens["manager"]
    BY <1>6 DEF Holders
  <1> HIDE DEF held
  <1>8. held["user"] + held["manager"] <= S
    BY <1>7, MoneyFacts
  <1>9. MoneyOK(T, S, held)
    BY <1>1, <1>6, <1>8 DEF MoneyOK
  <1> QED BY <1>3, <1>4, <1>9 DEF Worth

\* The instructions of the staker.
LEMMA StakerKept ==
  ASSUME PoolInv, NEW v \in Validators, Staker(v)
  PROVE  Kept
  <1>0. MoveAmounts \subseteq Nat
    BY PoolAssumption
  <1>1. CASE AddValidatorToPool(v)
    BY <1>1, AddValidatorStep, SameWorth DEF AddValidatorToPool, Kept
  <1>2. CASE RemoveValidatorFromPool(v)
    BY <1>2, RemoveValidatorStep, SameWorth DEF RemoveValidatorFromPool, Kept
  <1>3. ASSUME NEW o \in Options, SetPreferredValidator(o, v) PROVE Kept
    BY <1>3, QuietStep, SameWorth DEF SetPreferredValidator, Kept, valueVars
  <1>4. ASSUME NEW l \in MoveAmounts, NEW s \in Seeds, NEW fund \in BOOLEAN,
               DecreaseValidatorStake(v, l, s, fund)
        PROVE  Kept
    <2>1. UNCHANGED valueVars
      BY <1>4 DEF DecreaseValidatorStake, RecordDecrease
    <2> QED BY <1>0, <1>4, <2>1, DecreaseValidatorStep, SameWorth DEF Kept
  <1>5. ASSUME NEW l \in MoveAmounts, NEW s \in Seeds, DecreaseAdditionalValidatorStake(v, l, s)
        PROVE  Kept
    <2>1. UNCHANGED valueVars
      BY <1>5 DEF DecreaseAdditionalValidatorStake, RecordDecrease
    <2> QED BY <1>0, <1>5, <2>1, DecreaseAdditionalStep, SameWorth DEF Kept
  <1>6. ASSUME NEW l \in MoveAmounts, NEW s \in Seeds, NEW ephemeral \in BOOLEAN,
               IncreaseValidatorStake(v, l, s, ephemeral)
        PROVE  Kept
    <2>1. UNCHANGED valueVars
      BY <1>6 DEF IncreaseValidatorStake
    <2> QED BY <1>0, <1>6, <2>1, IncreaseStep, SameWorth DEF Kept
  <1> QED BY <1>1, <1>2, <1>3, <1>4, <1>5, <1>6 DEF Staker

\* Every step keeps the records backed, the ledger solvent and the tokens worth
\* what they were.
LEMMA NextKept ==
  ASSUME PoolInv, [Next]_vars
  PROVE  Kept
  <1>1. CASE \E o \in Options : SetPreferredValidator(o, NoValidator)
    BY <1>1, QuietStep, SameWorth DEF SetPreferredValidator, Kept, valueVars
  <1>2. CASE User
    BY <1>2, DepositSolKept, DepositStakeKept, WithdrawKept DEF User
  <1>3. CASE Manager
    <2>1. /\ UNCHANGED <<stakeVars, reserve, total_lamports>> /\ UNCHANGED valueVars
          /\ drained' \subseteq drained
      BY <1>3 DEF Manager, ChangeFees, SetMaxValidatorStake, CloseFeeAccount,
         ReplaceFeeAccount, valueVars
    <2> QED BY <2>1, QuietStep, SameWorth DEF Kept
  <1>4. CASE Crank
    <2>1. ASSUME NEW v \in Validators, NEW no_merge \in BOOLEAN,
                 UpdateValidatorListBalance(v, no_merge)
          PROVE  Kept
      BY <2>1, UpdateListStep, SameWorth DEF UpdateValidatorListBalance, Kept
    <2>2. CASE UpdateStakePoolBalance
      BY <2>2, UpdatePoolStep, AccrueWorth DEF Kept
    <2>3. ASSUME NEW writable, CleanupRemovedValidatorEntries(writable) PROVE Kept
      BY <2>3, CleanupStep, SameWorth DEF CleanupRemovedValidatorEntries, Kept
    <2> QED BY <1>4, <2>1, <2>2, <2>3 DEF Crank
  <1>5. CASE Cluster
    <2>1. CASE NewEpoch
      BY <2>1, QuietStep, SameWorth DEF NewEpoch, Kept, valueVars
    <2>2. ASSUME NEW W \in SUBSET Validators, NEW r \in Rewards, DistributeRewards(W, r)
          PROVE  Kept
      <3>1. r \in Nat
        BY PoolAssumption
      <3> QED BY <2>2, <3>1, RewardsStep, SameWorth DEF DistributeRewards, Kept
    <2> QED BY <1>5, <2>1, <2>2 DEF Cluster
  <1>6. CASE Outsiders
    <2>1. StakeInv'
      BY <1>6, OutsidersStep
    <2>2. Worth(total_lamports', pool_token_supply', tokens')
      <3>1. WithdrawAmounts \subseteq Nat
        BY PoolAssumption
      <3>2. CASE UNCHANGED valueVars
        BY <3>2, SameWorth
      <3>3. CASE \E h \in Holders, a \in WithdrawAmounts : BurnTokens(h, a)
        BY <3>1, <3>3, BurnWorth
      <3> QED BY <1>6, <3>2, <3>3
              DEF Outsiders, DonateToReserve, DonateToValidator, DonateToTransient,
              PrefundValidator, Prefund, DeactivateDelinquent, DeactivateDelinquentTransient,
              ForceDestake, HijackValidator, HijackTransient, Environment
    <2> QED BY <2>1, <2>2 DEF Kept
  <1>7. CASE UNCHANGED vars
    BY <1>7, QuietStep, SameWorth DEF vars, valueVars, stakeVars, Kept
  <1> QED BY <1>1, <1>2, <1>3, <1>4, <1>5, <1>6, <1>7, StakerKept DEF Next
----------------------------------------------------------------------------
\* The configuration keeps its types.
LEMMA ConfigStep ==
  ASSUME PoolInv, [Next]_vars
  PROVE  ConfigTypes'
  <1>0. ConfigTypes
    BY DEF PoolInv
  <1>1. ASSUME NEW o \in Options, NEW v \in Validators \cup {NoValidator},
               SetPreferredValidator(o, v)
        PROVE  ConfigTypes'
    BY <1>0, <1>1 DEF SetPreferredValidator, ConfigTypes
  <1>2. ASSUME NEW v \in Validators, preferred' = PreferredWithout(v),
               UNCHANGED <<max_validator_stake, fee_account_ok, rewards_active>>
        PROVE  ConfigTypes'
    BY <1>0, <1>2 DEF PreferredWithout, ConfigTypes
  <1>3. CASE UNCHANGED <<configVars, rewards_active>>
    BY <1>0, <1>3 DEF configVars, ConfigTypes
  <1>4. ASSUME NEW v \in Validators, Staker(v) PROVE ConfigTypes'
    <2>1. CASE RemoveValidatorFromPool(v)
      BY <1>2, <2>1 DEF RemoveValidatorFromPool
    <2>2. CASE \E o \in Options : SetPreferredValidator(o, v)
      BY <1>1, <2>2
    <2>3. ASSUME NEW l, NEW s, NEW fund, DecreaseValidatorStake(v, l, s, fund)
          PROVE  UNCHANGED <<configVars, rewards_active>>
      BY <2>3 DEF DecreaseValidatorStake, RecordDecrease
    <2>4. ASSUME NEW l, NEW s, DecreaseAdditionalValidatorStake(v, l, s)
          PROVE  UNCHANGED <<configVars, rewards_active>>
      BY <2>4 DEF DecreaseAdditionalValidatorStake, RecordDecrease
    <2>5. ASSUME NEW l, NEW s, NEW e, IncreaseValidatorStake(v, l, s, e)
          PROVE  UNCHANGED <<configVars, rewards_active>>
      BY <2>5 DEF IncreaseValidatorStake
    <2>6. CASE AddValidatorToPool(v)
      BY <1>3, <2>6 DEF AddValidatorToPool
    <2> QED BY <1>3, <1>4, <2>1, <2>2, <2>3, <2>4, <2>5, <2>6 DEF Staker
  <1>5. CASE User
    <2>1. ASSUME NEW l, DepositSol(l) PROVE UNCHANGED <<configVars, rewards_active>>
      BY <2>1 DEF DepositSol
    <2>2. ASSUME NEW v, NEW u, DepositStake(v, u) PROVE UNCHANGED <<configVars, rewards_active>>
      BY <2>2 DEF DepositStake
    <2>3. ASSUME NEW h, NEW a, WithdrawSol(h, a) \/ WithdrawStakeFromReserve(h, a)
          PROVE  UNCHANGED <<configVars, rewards_active>>
      BY <2>3 DEF WithdrawSol, WithdrawStakeFromReserve
    <2>4. ASSUME NEW v, NEW h, NEW a, WithdrawActiveStake(v, h, a) \/ WithdrawTransientStake(v, h, a)
          PROVE  UNCHANGED <<configVars, rewards_active>>
      BY <2>4 DEF WithdrawActiveStake, WithdrawTransientStake
    <2>5. ASSUME NEW v \in Validators, NEW h, NEW a, WithdrawWholeValidator(v, h, a)
          PROVE  ConfigTypes'
      BY <1>2, <2>5 DEF WithdrawWholeValidator
    <2> QED BY <1>3, <1>5, <2>1, <2>2, <2>3, <2>4, <2>5 DEF User
  <1>6. CASE Manager
    <2>2. ASSUME NEW m \in StakeLimits \cup {NoLimit}, SetMaxValidatorStake(m) PROVE ConfigTypes'
      BY <1>0, <2>2, PoolAssumption DEF SetMaxValidatorStake, ConfigTypes
    <2>3. CASE CloseFeeAccount \/ ReplaceFeeAccount
      BY <1>0, <2>3 DEF CloseFeeAccount, ReplaceFeeAccount, ConfigTypes
    <2>4. CASE \E k \in SettableFees, f \in FeeChoices : ChangeFees(SetFee(k, f))
      BY <1>3, <2>4 DEF ChangeFees
    <2>5. CASE \E k \in ReferralTypes, p \in ReferralChoices : ChangeFees(SetReferralFee(k, p))
      BY <1>3, <2>5 DEF ChangeFees
    <2> QED BY <1>6, <2>2, <2>3, <2>4, <2>5 DEF Manager
  <1>7. CASE Crank
    <2>1. ASSUME NEW writable, CleanupRemovedValidatorEntries(writable) PROVE ConfigTypes'
      BY <1>0, <2>1 DEF CleanupRemovedValidatorEntries, ConfigTypes
    <2> QED BY <1>3, <1>7, <2>1
            DEF Crank, UpdateValidatorListBalance, UpdateStakePoolBalance
  <1>8. CASE Cluster
    BY <1>0, <1>8 DEF Cluster, NewEpoch, DistributeRewards, configVars, ConfigTypes
  <1>9. CASE Outsiders
    BY <1>3, <1>9
       DEF Outsiders, DonateToReserve, DonateToValidator, DonateToTransient,
       PrefundValidator, Prefund, DeactivateDelinquent, DeactivateDelinquentTransient,
       ForceDestake, HijackValidator, HijackTransient, BurnTokens, Environment
  <1>10. CASE UNCHANGED vars
    BY <1>3, <1>10 DEF vars
  <1> QED BY <1>1, <1>4, <1>5, <1>6, <1>7, <1>8, <1>9, <1>10 DEF Next

\* PoolInv is inductive.
LEMMA PoolInvInit == Init => PoolInv
  <1> SUFFICES ASSUME Init PROVE PoolInv
    OBVIOUS
  <1>1. FeeInv
    BY FeeTypeInit, WholeInit DEF Init, FeeInv
  <1>2. ConfigTypes
    BY DEF Init, ConfigTypes
  <1>3. InitLamports \in Nat /\ InitLamports + Rent \in Nat /\ InitLamports + Rent >= Rent
    BY PoolAssumption, Constants
  <1>4. MoneyInv
    <2>1. /\ tokens \in [Holders -> Nat] /\ tokens["user"] = 0 /\ tokens["manager"] = InitLamports
      BY <1>3 DEF Init, Holders
    <2> QED BY <1>3, <2>1 DEF Init, MoneyInv, MoneyOK
  <1>5. StakeInv
    <2>1. list \in [Validators -> Entry]
      BY NotListedType DEF Init
    <2>2. ListTotal(list) \in Nat
      BY <2>1, TotalOfList
    <2>3. total_lamports \in Nat /\ total_lamports <= reserve - Rent + ListTotal(list)
      BY <1>3, <2>2, Constants DEF Init
    <2>4. \A l \in Nat : Unallocated(l) \in Account
      BY AccountTypes
    <2>5. NotListed.active = 0 /\ NotListed.transient = 0 /\ NotListed.status = "NotListed"
      BY DEF NotListed
    <2>6. RecordOK(NotListed) /\ \A vs, ts : BackedBy(NotListed, vs, ts)
      BY <2>5 DEF RecordOK, BackedBy
    <2>7. EntriesOK(list, vstake, tstake)
      BY <2>6 DEF Init, EntriesOK
    <2>8. vstake \in [Validators -> Account] /\ tstake \in [Validators -> [Seeds -> Account]]
      BY <2>4 DEF Init
    <2>9. drained \subseteq Addresses /\ Unused(list, drained)
      BY DEF Init, Unused
    <2> QED BY <1>3, <2>1, <2>3, <2>7, <2>8, <2>9 DEF Init, StakeInv, StakeOK
  <1> QED BY <1>1, <1>2, <1>4, <1>5 DEF PoolInv

\* Every step preserves PoolInv.
LEMMA PoolInvStep == PoolInv /\ [Next]_vars => PoolInv'
  <1> SUFFICES ASSUME PoolInv, [Next]_vars PROVE PoolInv'
    OBVIOUS
  <1>1. FeeInv'
    BY FeeStep, FeeTypeStep, WholeStep DEF PoolInv, FeeInv
  <1>2. StakeInv' /\ MoneyInv'
    BY NextKept DEF Kept, Worth, MoneyInv
  <1> QED BY <1>1, <1>2, ConfigStep DEF PoolInv

\* PoolInv holds in every state.
LEMMA PoolInvHolds == Spec => []PoolInv
  BY PoolInvInit, PoolInvStep, PTL DEF Spec

\* The pool keeps its types: in particular no instruction takes more lamports
\* out of an account, the reserve or an entry than it holds.
THEOREM PoolTypeCorrect == Spec => []TypeOK
  <1>1. PoolInv => TypeOK
    BY DEF PoolInv, FeeInv, ConfigTypes, MoneyInv, MoneyOK, StakeInv, StakeOK, TypeOK
  <1> QED BY <1>1, PoolInvHolds, PTL

\* Every lamport of the validator list is held by a stake account of the pool,
\* whatever the staker, users, cranks, the cluster and third parties do.
THEOREM RecordsAreBacked == Spec => []Backed
  <1>1. PoolInv => Backed
    BY BackedByEntry DEF PoolInv, StakeInv, StakeOK, EntriesOK
  <1> QED BY <1>1, PoolInvHolds, PTL

\* The value of the pool never exceeds what the reserve and the records hold,
\* and the reserve keeps its rent.
THEOREM LedgerStaysSolvent == Spec => []LedgerSolvent
  <1>1. PoolInv => LedgerSolvent
    BY ListLamportsNow DEF PoolInv, StakeInv, StakeOK, LedgerSolvent
  <1> QED BY <1>1, PoolInvHolds, PTL

\* The status of an entry agrees with what it records.
THEOREM StatusAgrees == Spec => []StatusMatchesRecord
  <1>1. PoolInv => StatusMatchesRecord
    BY StatusByEntry DEF PoolInv, StakeInv, StakeOK, EntriesOK
  <1> QED BY <1>1, PoolInvHolds, PTL

\* The supply that prices deposits is never below the mint.
THEOREM SupplyCovered == Spec => []SupplyCoversMint
  <1>1. PoolInv => SupplyCoversMint
    BY DEF PoolInv, MoneyInv, MoneyOK, SupplyCoversMint, MintSupply
  <1> QED BY <1>1, PoolInvHolds, PTL

\* The pool implements PoolValue, for all amounts, fees, rewards and numbers of
\* validators: no instruction makes a token worth less.
THEOREM NobodyDiluted == Spec => HoldersNeverDiluted
  <1>1. Init => Value!Init
    BY PoolAssumption DEF Init, Value!Init
  <1>2. PoolInv /\ [Next]_vars => [Value!Next]_<<total_lamports, pool_token_supply>>
    BY NextKept, PromisedValue DEF Kept, Worth
  <1> QED BY <1>1, <1>2, PoolInvHolds, PTL DEF Spec, HoldersNeverDiluted, Value!Spec
-----------------------------------------------------------------------------
(* The life of an entry of the validator list and of its stake accounts.   *)

\* What every account looks like. Only addresses that nobody prefunds are
\* empty while unallocated, and only where emptied accounts are not taken over
\* are the initialized ones the pool's. There are none but those that were taken
\* over or destaked.
Shape(a) ==
  /\ a.kind = "none" => a.mine = FALSE
  /\ a.kind = "stake" => a.mine = TRUE /\ a.stake + Rent <= a.lamports
  /\ SmallPrefunds /\ a.kind = "none" => a.lamports < Rent + StakeMinimum
  /\ "prefund" \notin Events /\ a.kind = "none" => a.lamports = 0
  /\ "hijack" \notin Events /\ a.kind = "initialized" => a.mine = TRUE
  /\ "hijack" \notin Events /\ "destake" \notin Events => a.kind # "initialized"

\* The validator stake account and the status of an entry.
Absorbable(e, vs) ==
  vs.kind = "stake" => e.status \in {"Active", "DeactivatingValidator", "DeactivatingAll"}
Alive(e, vs) == "destake" \notin Events /\ e.status = "Active" => vs.kind = "stake"

\* A delegated transient account is the recorded one. Once the entry is up to
\* date, its record falls short of the stake by less than a withdrawal can use.
Tracked(e, ts, now) ==
  SmallPrefunds =>
    \A s \in Seeds : ts[s].kind = "stake" =>
      /\ s = e.seed /\ e.transient > 0
      /\ e.last_update = now => ts[s].stake < e.transient + StakeMinimum

\* An entry that is up to date records its validator stake account exactly.
Exact(e, vs, now) ==
  /\ Events \cap {"donate", "prefund", "hijack"} = {}
  /\ e.status # "NotListed" /\ e.last_update = now
  => e.active = vs.lamports

Row(e, vs, ts, now) ==
  /\ Shape(vs) /\ \A s \in Seeds : Shape(ts[s])
  /\ Absorbable(e, vs) /\ Alive(e, vs) /\ Tracked(e, ts, now) /\ Exact(e, vs, now)

LifeOK(l, vs, ts, now, d) ==
  \A v \in Validators :
    /\ Row(l[v], vs[v], ts[v], now)
    /\ <<v, NoValidator>> \in d => vs[v].kind = "none"
LifeInv == LifeOK(list, vstake, tstake, epoch, drained)

\* Entries are not ahead of the clock. While rewards are paid out no entry is up
\* to date, and in a pool that is up to date all of them are.
ClockInv ==
  /\ epoch <= MaxEpoch /\ last_update_epoch <= epoch
  /\ \A v \in Validators :
       /\ list[v].last_update <= epoch
       /\ Listed(v) /\ rewards_active => list[v].last_update < epoch
       /\ Listed(v) /\ UpToDate => list[v].last_update = epoch

\* The invariant.
LifecycleInv == PoolInv /\ LifeInv /\ ClockInv

\* What the invariant says of one entry.
LEMMA RowFacts ==
  ASSUME LifecycleInv, NEW v \in Validators
  PROVE  /\ Shape(vstake[v]) /\ \A s \in Seeds : Shape(tstake[v][s])
         /\ Absorbable(list[v], vstake[v]) /\ Alive(list[v], vstake[v])
         /\ Tracked(list[v], tstake[v], epoch) /\ Exact(list[v], vstake[v], epoch)
         /\ <<v, NoValidator>> \in drained => vstake[v].kind = "none"
         /\ list[v].last_update \in Nat /\ list[v].last_update <= epoch
         /\ Listed(v) /\ UpToDate => list[v].last_update = epoch
  <1>1. /\ Row(list[v], vstake[v], tstake[v], epoch)
        /\ <<v, NoValidator>> \in drained => vstake[v].kind = "none"
    BY DEF LifecycleInv, LifeInv, LifeOK
  <1>2. list[v].last_update \in Nat
    BY EntryFacts DEF LifecycleInv, Entry
  <1> QED BY <1>1, <1>2 DEF LifecycleInv, ClockInv, Row

\* An instruction that works on the entry of v leaves the others alone.
LEMMA RowStep ==
  ASSUME LifecycleInv, NEW v \in Validators, NEW e, NEW vs, NEW ts, NEW d,
         Row(e, vs, ts, epoch),
         <<v, NoValidator>> \in d => vs.kind = "none",
         \A w \in Validators \ {v} : <<w, NoValidator>> \in d => <<w, NoValidator>> \in drained
  PROVE  LifeOK([list EXCEPT ![v] = e], [vstake EXCEPT ![v] = vs],
                [tstake EXCEPT ![v] = ts], epoch, d)
  <1> DEFINE l1 == [list EXCEPT ![v] = e]
             v1 == [vstake EXCEPT ![v] = vs]
             t1 == [tstake EXCEPT ![v] = ts]
  <1>1. /\ l1[v] = e /\ v1[v] = vs /\ t1[v] = ts
        /\ \A w \in Validators \ {v} : l1[w] = list[w] /\ v1[w] = vstake[w] /\ t1[w] = tstake[w]
    BY DEF LifecycleInv, PoolInv, StakeInv, StakeOK
  <1> HIDE DEF l1, v1, t1
  <1>2. ASSUME NEW w \in Validators
        PROVE  /\ Row(l1[w], v1[w], t1[w], epoch)
               /\ <<w, NoValidator>> \in d => v1[w].kind = "none"
    <2>1. CASE w = v
      BY <1>1, <2>1
    <2>2. CASE w # v
      BY <1>1, <2>2 DEF LifecycleInv, LifeInv, LifeOK
    <2> QED BY <2>1, <2>2
  <1>3. LifeOK(l1, v1, t1, epoch, d)
    BY <1>2 DEF LifeOK
  <1> QED BY <1>3 DEF l1, v1, t1
----------------------------------------------------------------------------
\* Accounts that hold stake, and empty addresses.
LEMMA StakeShape ==
  ASSUME NEW a, a.kind = "stake", a.mine = TRUE, a.stake + Rent <= a.lamports
  PROVE  Shape(a)
  BY DEF Shape

\* An emptied account has the shape of an address nobody prefunded.
LEMMA EmptyShape ==
  /\ Shape(Unallocated(0)) /\ Unallocated(0).kind = "none" /\ Unallocated(0).lamports = 0
  BY Constants DEF Shape, Unallocated

\* The facts of Shape about a stake.
LEMMA ShapeFacts ==
  ASSUME NEW a, Shape(a), a.kind = "stake"
  PROVE  a.mine = TRUE /\ a.stake + Rent <= a.lamports
  BY DEF Shape

\* Deactivate keeps the shape.
LEMMA DeactivatedShape ==
  ASSUME NEW a \in Account, NEW now \in Nat, Shape(a)
  PROVE  Shape(DeactivatedIfNeeded(a, now)) /\ Shape(Deactivated(a, now))
  <1>1. /\ Deactivated(a, now).lamports = a.lamports /\ Deactivated(a, now).mine = a.mine
        /\ Deactivated(a, now).kind = a.kind /\ Deactivated(a, now).stake = a.stake
    BY DEF Deactivated, Account
  <1>2. Shape(Deactivated(a, now))
    BY <1>1 DEF Shape
  <1> QED BY <1>2 DEF DeactivatedIfNeeded

\* Split keeps rent in both parts.
LEMMA SplitShape ==
  ASSUME NEW src \in Account, NEW funded \in Nat, NEW amount \in Nat, NEW now, Shape(src),
         CanSplit(src, funded, amount, now)
  PROVE  /\ amount < src.lamports => Shape(SplitSource(src, amount))
         /\ Shape(SplitTarget(src, funded, amount))
  <1>1. src.kind = "stake" /\ src.mine = TRUE /\ src.stake + Rent <= src.lamports
    BY ShapeFacts DEF CanSplit
  <1>2. ASSUME amount < src.lamports PROVE Shape(SplitSource(src, amount))
    <2> DEFINE a == SplitSource(src, amount)
    <2>1. /\ a.lamports = src.lamports - amount /\ a.stake = src.stake - amount
          /\ a.kind = "stake" /\ a.mine = src.mine
      BY <1>2, SplitSourceAccount
    <2> HIDE DEF a
    <2>2. a.stake + Rent <= a.lamports
      BY <1>1, <2>1, Constants DEF Account
    <2>3. Shape(a)
      BY <1>1, <2>1, <2>2, StakeShape
    <2> QED BY <2>3 DEF a
  <1>3. Shape(SplitTarget(src, funded, amount))
    <2> DEFINE a == SplitTarget(src, funded, amount)
    <2>1. /\ a.lamports = funded + amount /\ a.stake = SplitStake(src, funded, amount)
          /\ a.kind = "stake" /\ a.mine = src.mine
      BY SplitTargetAccount
    <2> HIDE DEF a
    <2>2. a.stake + Rent <= a.lamports
      BY <2>1, Constants DEF SplitStake, Account
    <2>3. Shape(a)
      BY <1>1, <2>1, <2>2, StakeShape
    <2> QED BY <2>3 DEF a
  <1> QED BY <1>2, <1>3

\* Merge adds at most the source's lamports to the stake, and less by the rent
\* when the destination is no more than active.
LEMMA MergedStakeBound ==
  ASSUME NEW dst \in Account, NEW src \in Account, NEW now \in Nat, src.mine = TRUE, Shape(src),
         CanMerge(dst, src, now)
  PROVE  MergedStake(dst, src, now) <= dst.stake + src.lamports
  <1>1. src.kind = "stake" => src.stake + Rent <= src.lamports
    BY ShapeFacts
  <1>2. CASE src.kind = "stake"
    BY <1>1, <1>2, Constants DEF MergedStake, Account
  <1>3. CASE src.kind # "stake"
    <2>1. MergeKind(src, now) \in {"inactive", "transient"}
      BY <1>3 DEF MergeKind, Account
    <2> QED BY <2>1, Constants DEF MergedStake, Account
  <1> QED BY <1>2, <1>3

\* Merge keeps the shape of the account merged into.
LEMMA MergedShape ==
  ASSUME NEW dst \in Account, NEW src \in Account, NEW now \in Nat, Shape(dst), Shape(src),
         dst.kind = "stake", src.mine = TRUE, CanMerge(dst, src, now)
  PROVE  Shape(Merged(dst, src, now))
  <1> DEFINE a == Merged(dst, src, now)
  <1>1. /\ a.lamports = dst.lamports + src.lamports /\ a.stake = MergedStake(dst, src, now)
        /\ a.mine = dst.mine /\ a.kind = dst.kind /\ MergedStake(dst, src, now) \in Nat
    BY MergedAccount
  <1>2. MergedStake(dst, src, now) <= dst.stake + src.lamports
    BY MergedStakeBound
  <1>3. dst.mine = TRUE /\ dst.stake + Rent <= dst.lamports
    BY ShapeFacts
  <1> HIDE DEF a
  <1>4. a.stake + Rent <= a.lamports
    BY <1>1, <1>2, <1>3, Constants DEF Account
  <1>5. Shape(a)
    BY <1>1, <1>3, <1>4, StakeShape
  <1> QED BY <1>5 DEF a
----------------------------------------------------------------------------
\* A transient account that changes is the one recorded, or none was.
LEMMA TrackedStep ==
  ASSUME LifecycleInv, NEW v \in Validators, NEW seed \in Seeds, NEW e, NEW a,
         list[v].transient > 0 => seed = list[v].seed,
         a.kind = "stake" => e.seed = seed /\ e.transient > 0,
         a.kind = "stake" /\ e.last_update = epoch => a.stake < e.transient + StakeMinimum
  PROVE  Tracked(e, [tstake[v] EXCEPT ![seed] = a], epoch)
  <1> DEFINE ts == [tstake[v] EXCEPT ![seed] = a]
  <1>0. tstake[v] \in [Seeds -> Account]
    BY EntryFacts DEF LifecycleInv
  <1>1. ts[seed] = a /\ \A s \in Seeds \ {seed} : ts[s] = tstake[v][s]
    BY <1>0
  <1> HIDE DEF ts
  <1>2. ASSUME SmallPrefunds, NEW s \in Seeds, ts[s].kind = "stake"
        PROVE  /\ s = e.seed /\ e.transient > 0
               /\ e.last_update = epoch => ts[s].stake < e.transient + StakeMinimum
    <2>1. CASE s = seed
      BY <1>1, <1>2, <2>1
    <2>2. CASE s # seed
      <3>1. tstake[v][s].kind = "stake"
        BY <1>1, <1>2, <2>2
      <3>2. s = list[v].seed /\ list[v].transient > 0
        BY <1>2, <3>1, RowFacts DEF Tracked
      <3> QED BY <2>2, <3>2
    <2> QED BY <2>1, <2>2
  <1>3. Tracked(e, ts, epoch)
    BY <1>2 DEF Tracked
  <1> QED BY <1>3 DEF ts

\* The accounts of a row of transient accounts keep their shape when one changes.
LEMMA ShapesStep ==
  ASSUME LifecycleInv, NEW v \in Validators, NEW seed \in Seeds, NEW a, Shape(a)
  PROVE  \A s \in Seeds : Shape([tstake[v] EXCEPT ![seed] = a][s])
  <1>0. tstake[v] \in [Seeds -> Account]
    BY EntryFacts DEF LifecycleInv
  <1>1. \A s \in Seeds : Shape(tstake[v][s])
    BY RowFacts
  <1> QED BY <1>0, <1>1

\* AddValidatorToPool.
LEMMA AddLife ==
  ASSUME LifecycleInv, NEW v \in Validators, AddValidatorToPool(v)
  PROVE  LifeInv'
  <1> DEFINE required == MinimumStakeLamports
             lamports == vstake[v].lamports + required
             e == [NotListed EXCEPT !.active = required, !.last_update = epoch,
                                    !.status = "Active"]
             vs == Delegated(lamports, lamports - Rent, epoch)
  <1>0. PoolInv /\ epoch \in Nat /\ vstake[v].lamports \in Nat /\ vstake[v].kind = "none"
    BY EntryFacts DEF LifecycleInv, AddValidatorToPool
  <1>1. /\ e.active = required /\ e.transient = 0 /\ e.status = "Active"
    BY <1>0, NotListedType, Constants DEF Entry, NotListed, Statuses
  <1>2. /\ vs.kind = "stake" /\ vs.mine = TRUE /\ vs.lamports = lamports
        /\ vs.stake = lamports - Rent
    BY DEF Delegated
  <1> HIDE DEF e, vs
  <1>3. Shape(vs)
    <2>1. vs.stake + Rent <= vs.lamports
      BY <1>0, <1>2, Constants
    <2> QED BY <1>2, <2>1, StakeShape
  <1>4. Absorbable(e, vs) /\ Alive(e, vs)
    BY <1>1, <1>2 DEF Absorbable, Alive
  <1>5. Exact(e, vs, epoch)
    <2>1. "prefund" \notin Events => vstake[v].lamports = 0
      BY <1>0, RowFacts DEF Shape
    <2> QED BY <1>0, <1>1, <1>2, <2>1, Constants DEF Exact
  <1>6. Tracked(e, tstake[v], epoch)
    <2>1. list[v].transient = 0
      BY <1>0, EntryFacts DEF AddValidatorToPool, Listed, RecordOK
    <2>2. ~(list[v].transient > 0)
      BY <2>1
    <2> QED BY <2>2, RowFacts DEF Tracked
  <1>7. Row(e, vs, tstake[v], epoch)
    BY <1>3, <1>4, <1>5, <1>6, RowFacts DEF Row
  <1>8. LifeOK([list EXCEPT ![v] = e], [vstake EXCEPT ![v] = vs],
               [tstake EXCEPT ![v] = tstake[v]], epoch, {})
    BY <1>7, RowStep
  <1>9. /\ list' = [list EXCEPT ![v] = e] /\ vstake' = [vstake EXCEPT ![v] = vs]
        /\ tstake' = [tstake EXCEPT ![v] = tstake[v]] /\ epoch' = epoch /\ drained' = {}
    BY <1>0 DEF AddValidatorToPool, feeVars, PoolInv, StakeInv, StakeOK, e, vs
  <1> QED BY <1>8, <1>9 DEF LifeInv

\* RemoveValidatorFromPool.
LEMMA RemoveLife ==
  ASSUME LifecycleInv, NEW v \in Validators, RemoveValidatorFromPool(v)
  PROVE  LifeInv'
  <1> DEFINE s == list[v].seed
             has_transient == list[v].transient > 0
             status == IF has_transient THEN "DeactivatingAll" ELSE "DeactivatingValidator"
             e == [list[v] EXCEPT !.status = status]
             vs == DeactivatedIfNeeded(vstake[v], epoch)
             a == IF has_transient /\ Transient(v).mine
                    THEN DeactivatedIfNeeded(tstake[v][s], epoch) ELSE tstake[v][s]
             ts == [tstake[v] EXCEPT ![s] = a]
  <1>0. PoolInv /\ epoch \in Nat /\ s \in Seeds /\ vstake[v] \in Account
        /\ tstake[v] \in [Seeds -> Account] /\ tstake[v][s] \in Account
        /\ list[v].transient \in Nat
    BY EntryFacts DEF LifecycleInv
  <1>1. /\ e.active = list[v].active /\ e.transient = list[v].transient
        /\ e.seed = s /\ e.status = status /\ e.last_update = list[v].last_update
    BY <1>0, EntryFacts DEF Entry, Statuses
  <1>2. /\ vs.lamports = vstake[v].lamports /\ vs.mine = vstake[v].mine
        /\ vs.kind = vstake[v].kind
    BY <1>0, DeactivatedKeeps
  <1>3. a.kind = tstake[v][s].kind /\ a.stake = tstake[v][s].stake
    BY <1>0, DeactivatedKeeps
  <1>4. Shape(vs) /\ Shape(a)
    BY <1>0, RowFacts, DeactivatedShape
  <1>5. list' = [list EXCEPT ![v] = e] /\ vstake' = [vstake EXCEPT ![v] = vs]
    BY <1>0 DEF RemoveValidatorFromPool, PoolInv, StakeInv, StakeOK
  <1>6. tstake' = [tstake EXCEPT ![v] = ts]
    BY <1>0, RowChanges DEF RemoveValidatorFromPool, Transient, PoolInv, StakeInv, StakeOK
  <1>7. status \in {"DeactivatingAll", "DeactivatingValidator"}
    OBVIOUS
  <1>8. list[v].status = "Active"
    BY DEF RemoveValidatorFromPool, IsActive
  <1> HIDE DEF e, vs, a, status
  <1>9. Absorbable(e, vs) /\ Alive(e, vs)
    BY <1>1, <1>7 DEF Absorbable, Alive
  <1>10. Exact(e, vs, epoch)
    BY <1>1, <1>2, <1>8, RowFacts DEF Exact
  <1>11. Tracked(e, ts, epoch)
    <2>1. ts[s] = a /\ \A z \in Seeds \ {s} : ts[z] = tstake[v][z]
      BY <1>0
    <2> HIDE DEF ts
    <2>2. \A z \in Seeds : ts[z].kind = tstake[v][z].kind /\ ts[z].stake = tstake[v][z].stake
      BY <1>3, <2>1
    <2> QED BY <1>1, <2>2, RowFacts DEF Tracked
  <1>12. \A z \in Seeds : Shape(ts[z])
    BY <1>0, <1>4, ShapesStep
  <1>13. Row(e, vs, ts, epoch)
    BY <1>4, <1>9, <1>10, <1>11, <1>12 DEF Row
  <1>14. LifeOK([list EXCEPT ![v] = e], [vstake EXCEPT ![v] = vs],
                [tstake EXCEPT ![v] = ts], epoch, {})
    BY <1>13, RowStep
  <1> QED BY <1>5, <1>6, <1>14 DEF LifeInv, RemoveValidatorFromPool, feeVars

\* All decreases: the transient account is recorded with all it holds.
LEMMA DecreaseLife ==
  ASSUME LifecycleInv, NEW v \in Validators, NEW lamports \in Nat, NEW seed \in Seeds,
         NEW source \in Account, NEW target \in Account, NEW lent,
         IsActive(v), lamports <= list[v].active,
         list[v].transient > 0 => seed = list[v].seed,
         source.lamports = vstake[v].lamports - lamports, source.kind = "stake", Shape(source),
         target.kind = "stake", Shape(target),
         RecordDecrease(v, lamports, seed, source, target, lent)
  PROVE  LifeInv'
  <1> DEFINE e == [list[v] EXCEPT !.active = @ - lamports, !.transient = target.lamports,
                                  !.seed = seed]
             ts == [tstake[v] EXCEPT ![seed] = target]
  <1>0. /\ PoolInv /\ target.lamports \in Nat /\ target.stake \in Nat
        /\ vstake[v].lamports \in Nat /\ list[v].active \in Nat
    BY EntryFacts DEF LifecycleInv, Account
  <1>1. /\ e.active = list[v].active - lamports /\ e.last_update = list[v].last_update
        /\ e.transient = target.lamports /\ e.seed = seed /\ e.status = "Active"
    BY <1>0, EntryFacts DEF Entry, IsActive
  <1>2. list' = [list EXCEPT ![v] = e] /\ tstake' = [tstake EXCEPT ![v] = ts]
    BY <1>0, RowChanges DEF RecordDecrease, PoolInv, StakeInv, StakeOK
  <1> HIDE DEF e
  <1>3. target.stake + Rent <= target.lamports
    BY ShapeFacts
  <1>4. Absorbable(e, source) /\ Alive(e, source)
    BY <1>1 DEF Absorbable, Alive
  <1>5. Exact(e, source, epoch)
    <2>1. list[v].active = vstake[v].lamports => e.active = source.lamports
      BY <1>0, <1>1
    <2> QED BY <1>1, <2>1, RowFacts DEF Exact, IsActive
  <1>6. e.transient > 0 /\ target.stake < e.transient + StakeMinimum
    BY <1>0, <1>1, <1>3, Constants
  <1>7. Tracked(e, ts, epoch)
    BY <1>1, <1>6, TrackedStep
  <1>8. \A z \in Seeds : Shape(ts[z])
    BY ShapesStep
  <1>9. Row(e, source, ts, epoch)
    BY <1>4, <1>5, <1>7, <1>8 DEF Row
  <1>10. LifeOK([list EXCEPT ![v] = e], [vstake EXCEPT ![v] = source],
                [tstake EXCEPT ![v] = ts], epoch, {})
    BY <1>9, RowStep
  <1> QED BY <1>2, <1>10 DEF LifeInv, RecordDecrease, feeVars

\* DecreaseValidatorStake and DecreaseValidatorStakeWithReserve.
LEMMA DecreaseValidatorLife ==
  ASSUME LifecycleInv, NEW v \in Validators, NEW lamports \in Nat, NEW seed \in Seeds,
         NEW fund \in BOOLEAN, DecreaseValidatorStake(v, lamports, seed, fund)
  PROVE  LifeInv'
  <1> DEFINE funded == tstake[v][seed].lamports
             lent == IF fund THEN RentFor(funded) ELSE 0
             split == SplitTarget(vstake[v], funded + lent, lamports)
             source == SplitSource(vstake[v], lamports)
             target == DeactivatedIfNeeded(split, epoch)
  <1>0. PoolInv /\ epoch \in Nat /\ vstake[v] \in Account /\ Shape(vstake[v])
    BY EntryFacts, RowFacts DEF LifecycleInv
  <1>1. funded \in Nat
    BY <1>0, EntryFacts DEF Account
  <1>2. lent \in Nat
    BY <1>1, Constants DEF RentFor, Minus
  <1>3. CanSplit(vstake[v], funded + lent, lamports, epoch)
        /\ CanDecrease(v, lamports, seed, FALSE)
        /\ RecordDecrease(v, lamports, seed, source, target, lent)
    BY DEF DecreaseValidatorStake
  <1> HIDE DEF funded, lent
  <1> DEFINE n == funded + lent
  <1>4. n \in Nat /\ CanSplit(vstake[v], n, lamports, epoch)
    BY <1>1, <1>2, <1>3
  <1>5. lamports < vstake[v].lamports /\ IsActive(v) /\ lamports <= list[v].active
        /\ ~(list[v].transient > 0)
    BY <1>0, <1>3, EntryFacts, Constants DEF CanDecrease, TransientReady
  <1> HIDE DEF n
  <1>6. /\ source \in Account /\ source.lamports = vstake[v].lamports - lamports
        /\ source.kind = "stake" /\ Shape(source)
    BY <1>0, <1>4, <1>5, SplitSourceAccount, SplitShape
  <1>7. SplitTarget(vstake[v], n, lamports) \in Account
        /\ SplitTarget(vstake[v], n, lamports).kind = "stake"
        /\ Shape(SplitTarget(vstake[v], n, lamports))
    BY <1>0, <1>4, SplitTargetAccount, SplitShape
  <1>8. split \in Account /\ split.kind = "stake" /\ Shape(split)
    BY <1>7 DEF n
  <1> HIDE DEF split, source
  <1>9. target \in Account /\ target.kind = "stake" /\ Shape(target)
    BY <1>0, <1>8, AccountTypes, DeactivatedKeeps, DeactivatedShape
  <1> HIDE DEF target
  <1> QED BY <1>3, <1>5, <1>6, <1>9, DecreaseLife

\* DecreaseAdditionalValidatorStake.
LEMMA DecreaseAdditionalLife ==
  ASSUME LifecycleInv, NEW v \in Validators, NEW lamports \in Nat, NEW seed \in Seeds,
         DecreaseAdditionalValidatorStake(v, lamports, seed)
  PROVE  LifeInv'
  <1> DEFINE split == SplitTarget(vstake[v], Rent, lamports)
             ephemeral == Deactivated(split, epoch)
             t == tstake[v][seed]
             merge == list[v].transient > 0
             source == SplitSource(vstake[v], lamports)
             target == IF merge THEN Merged(t, ephemeral, epoch)
                       ELSE SplitTarget(ephemeral, t.lamports, ephemeral.lamports)
  <1>0. PoolInv /\ epoch \in Nat /\ vstake[v] \in Account /\ Shape(vstake[v])
    BY EntryFacts, RowFacts DEF LifecycleInv
  <1>1. t \in Account /\ t.lamports \in Nat /\ Shape(t)
    BY <1>0, EntryFacts, RowFacts DEF Account
  <1>2. /\ CanSplit(vstake[v], Rent, lamports, epoch)
        /\ CanDecrease(v, lamports, seed, TRUE)
        /\ RecordDecrease(v, lamports, seed, source, target, Rent)
        /\ merge => CanMerge(t, ephemeral, epoch)
        /\ ~merge => CanSplit(ephemeral, t.lamports, ephemeral.lamports, epoch)
    BY DEF DecreaseAdditionalValidatorStake
  <1>3. /\ lamports < vstake[v].lamports /\ IsActive(v) /\ lamports <= list[v].active
        /\ merge => seed = list[v].seed /\ DeactivatingNow(t)
    BY <1>0, <1>2, EntryFacts, Constants DEF CanDecrease, TransientReady, Transient
  <1>4. /\ source \in Account /\ source.lamports = vstake[v].lamports - lamports
        /\ source.kind = "stake" /\ Shape(source)
    BY <1>0, <1>2, <1>3, Constants, SplitSourceAccount, SplitShape
  <1>5. split \in Account /\ split.kind = "stake" /\ Shape(split)
    BY <1>0, <1>2, Constants, SplitTargetAccount, SplitShape
  <1> HIDE DEF split, source
  <1>6. ephemeral \in Account /\ ephemeral.kind = "stake" /\ Shape(ephemeral)
        /\ ephemeral.lamports \in Nat
    <2>1. ephemeral \in Account /\ Shape(ephemeral)
      BY <1>0, <1>5, AccountTypes, DeactivatedShape
    <2>2. ephemeral.kind = split.kind
      BY <1>5 DEF Deactivated, Account
    <2> QED BY <1>5, <2>1, <2>2 DEF Account
  <1>7. ephemeral.mine = TRUE
    BY <1>6, ShapeFacts
  <1> HIDE DEF ephemeral, t
  <1>8. target \in Account /\ target.kind = "stake" /\ Shape(target)
    <2>1. CASE merge
      <3>1. target = Merged(t, ephemeral, epoch)
        BY <2>1
      <3>2. t.kind = "stake"
        BY <1>3, <2>1 DEF DeactivatingNow
      <3>3. CanMerge(t, ephemeral, epoch)
        BY <1>2, <2>1
      <3>4. Merged(t, ephemeral, epoch) \in Account /\ Merged(t, ephemeral, epoch).kind = t.kind
        BY ONLY <1>0, <1>1, <1>6, MergedAccount
      <3>5. Shape(Merged(t, ephemeral, epoch))
        BY ONLY <1>0, <1>1, <1>6, <1>7, <3>2, <3>3, MergedShape
      <3> HIDE DEF target
      <3> QED BY <3>1, <3>2, <3>4, <3>5
    <2>2. CASE ~merge
      <3>1. target = SplitTarget(ephemeral, t.lamports, ephemeral.lamports)
        BY <2>2
      <3>2. CanSplit(ephemeral, t.lamports, ephemeral.lamports, epoch)
        BY <1>2, <2>2
      <3> QED BY <1>1, <1>6, <3>1, <3>2, SplitTargetAccount, SplitShape
    <2> QED BY <2>1, <2>2
  <1> HIDE DEF target
  <1> QED BY <1>2, <1>3, <1>4, <1>8, DecreaseLife

\* IncreaseValidatorStake and IncreaseAdditionalValidatorStake: lamports that
\* were sent to the address before are delegated and not recorded.
LEMMA IncreaseLife ==
  ASSUME LifecycleInv, NEW v \in Validators, NEW lamports \in Nat, NEW seed \in Seeds,
         NEW ephemeral \in BOOLEAN, IncreaseValidatorStake(v, lamports, seed, ephemeral)
  PROVE  LifeInv'
  <1> DEFINE moved == lamports + Rent
             added == Delegated(moved, lamports, epoch)
             t == tstake[v][seed]
             target == IncreasedTransient(v, added, seed, ephemeral)
             e == [list[v] EXCEPT !.transient = @ + moved, !.seed = seed]
             ts == [tstake[v] EXCEPT ![seed] = target]
  <1>0. PoolInv /\ epoch \in Nat /\ list[v].transient \in Nat
    BY EntryFacts DEF LifecycleInv
  <1>1. /\ moved \in Nat /\ moved > 0 /\ t \in Account /\ t.lamports \in Nat /\ t.stake \in Nat
        /\ Shape(t)
    <2>1. Shape(t)
      BY RowFacts
    <2>2. t \in Account /\ t.lamports \in Nat /\ t.stake \in Nat
      BY <1>0, EntryFacts DEF Account
    <2>3. moved \in Nat /\ moved > 0
      BY Constants
    <2> QED BY <2>1, <2>2, <2>3
  <1>2. /\ added \in Account /\ added.lamports = moved /\ added.stake = lamports
        /\ added.mine = TRUE /\ added.kind = "stake"
    BY <1>0, <1>1, AccountTypes DEF Delegated
  <1>3. /\ CanIncrease(v, lamports, seed, ephemeral)
        /\ list[v].transient > 0 => CanMerge(t, added, epoch)
    BY DEF IncreaseValidatorStake
  <1>4. /\ list[v].status = "Active" /\ UpToDate /\ vstake[v].kind = "stake"
        /\ list[v].transient > 0 => seed = list[v].seed /\ t.kind = "stake"
        /\ ~(list[v].transient > 0) => t.kind = "none"
    BY <1>3 DEF CanIncrease, TransientReady, Transient, IsActive, ActivatingNow
  <1>5. list' = [list EXCEPT ![v] = e] /\ tstake' = [tstake EXCEPT ![v] = ts]
    BY <1>0, RowChanges DEF IncreaseValidatorStake, PoolInv, StakeInv, StakeOK
  <1>6. added.stake + Rent <= added.lamports /\ Shape(added)
    <2>1. added.stake + Rent <= added.lamports
      BY <1>2, Constants
    <2> QED BY <1>2, <2>1, StakeShape
  <1>7. /\ e.active = list[v].active /\ e.last_update = list[v].last_update
        /\ e.transient = list[v].transient + moved /\ e.seed = seed /\ e.status = "Active"
    <2> DEFINE n == list[v].transient + moved
    <2>1. n \in Nat
      BY <1>0, <1>1
    <2>2. e = [list[v] EXCEPT !.transient = n, !.seed = seed]
      BY <1>0, EntryFacts DEF Entry
    <2> HIDE DEF n, e
    <2>3. /\ e.active = list[v].active /\ e.last_update = list[v].last_update
          /\ e.transient = n /\ e.seed = seed /\ e.status = list[v].status
      BY <1>0, <2>1, <2>2, EntryFacts DEF Entry
    <2> QED BY <1>4, <2>3 DEF n
  <1> HIDE DEF moved, added, t, e
  <1>8. Listed(v) /\ list[v].last_update = epoch
    BY <1>4, RowFacts DEF Listed
  <1>9. /\ target.kind = "stake" /\ Shape(target)
        /\ SmallPrefunds => target.stake < e.transient + StakeMinimum
    <2>1. CASE list[v].transient > 0
      <3>1. target = Merged(t, added, epoch)
        BY <2>1 DEF IncreasedTransient, t
      <3>2. t.kind = "stake" /\ CanMerge(t, added, epoch)
        BY <1>3, <1>4, <2>1
      <3>3. /\ Merged(t, added, epoch).kind = t.kind
            /\ Merged(t, added, epoch).stake = MergedStake(t, added, epoch)
            /\ MergedStake(t, added, epoch) \in Nat
        BY ONLY <1>0, <1>1, <1>2, MergedAccount
      <3>4. Shape(Merged(t, added, epoch))
        BY ONLY <1>0, <1>1, <1>2, <1>6, <3>2, MergedShape
      <3>5. MergedStake(t, added, epoch) <= t.stake + added.lamports
        BY ONLY <1>0, <1>1, <1>2, <1>6, <3>2, MergedStakeBound
      <3>6. SmallPrefunds => t.stake < list[v].transient + StakeMinimum
        BY <1>4, <1>8, <2>1, <3>2, RowFacts DEF Tracked, t
      <3> HIDE DEF target
      <3>7. SmallPrefunds => target.stake < e.transient + StakeMinimum
        BY <1>0, <1>1, <1>2, <1>7, <3>1, <3>3, <3>5, <3>6, Constants
      <3> QED BY <3>1, <3>2, <3>3, <3>4, <3>7
    <2>2. CASE ~(list[v].transient > 0) /\ ephemeral
      <3> DEFINE k == SplitStake(added, t.lamports, added.lamports)
                 n == t.lamports + moved
      <3>1. k \in Nat /\ n \in Nat /\ k = lamports
        BY <1>1, <1>2, Constants DEF SplitStake, moved
      <3>2. target = [added EXCEPT !.lamports = n, !.stake = k]
        BY <1>2, <2>2 DEF IncreasedTransient, SplitTarget, t
      <3>3. k + Rent <= n /\ k < e.transient + StakeMinimum
        BY <1>0, <1>1, <1>7, <3>1, Constants DEF moved
      <3> HIDE DEF k, n, target
      <3>4. /\ target.mine = TRUE /\ target.kind = "stake" /\ target.lamports = n
            /\ target.stake = k
        BY <1>2, <3>1, <3>2 DEF Account
      <3> QED BY <3>3, <3>4, StakeShape
    <2>3. CASE ~(list[v].transient > 0) /\ ~ephemeral
      <3> DEFINE k == t.lamports + added.stake
                 n == t.lamports + moved
      <3>1. k \in Nat /\ n \in Nat /\ k + Rent <= n
        BY <1>1, <1>2, Constants DEF moved
      <3>2. target = Delegated(n, k, epoch)
        BY <1>2, <2>3 DEF IncreasedTransient, t
      <3>3. SmallPrefunds => t.lamports < Rent + StakeMinimum
        BY <1>1, <1>4, <2>3 DEF Shape
      <3>4. SmallPrefunds => k < e.transient + StakeMinimum
        BY <1>0, <1>1, <1>2, <1>7, <3>3, Constants DEF moved
      <3> HIDE DEF k, n, target
      <3>5. /\ target.mine = TRUE /\ target.kind = "stake" /\ target.lamports = n
            /\ target.stake = k
        BY <3>2 DEF Delegated
      <3> QED BY <3>1, <3>4, <3>5, StakeShape
    <2> QED BY <2>1, <2>2, <2>3
  <1> HIDE DEF target
  <1>10. Absorbable(e, vstake[v]) /\ Alive(e, vstake[v]) /\ Exact(e, vstake[v], epoch)
    BY <1>4, <1>7, RowFacts DEF Absorbable, Alive, Exact
  <1>11. e.transient > 0
    BY <1>0, <1>1, <1>7
  <1>12. Tracked(e, ts, epoch)
    <2>1. CASE SmallPrefunds
      BY <1>4, <1>7, <1>9, <1>11, <2>1, TrackedStep
    <2>2. CASE ~SmallPrefunds
      BY <2>2 DEF Tracked
    <2> QED BY <2>1, <2>2
  <1>13. \A z \in Seeds : Shape(ts[z])
    BY <1>9, ShapesStep
  <1>14. Row(e, vstake[v], ts, epoch)
    BY <1>10, <1>12, <1>13, RowFacts DEF Row
  <1>15. LifeOK([list EXCEPT ![v] = e], [vstake EXCEPT ![v] = vstake[v]],
                [tstake EXCEPT ![v] = ts], epoch, {})
    BY <1>14, RowStep
  <1>16. vstake' = [vstake EXCEPT ![v] = vstake[v]]
    BY <1>0, RowChanges DEF IncreaseValidatorStake
  <1> QED BY <1>5, <1>15, <1>16 DEF LifeInv, IncreaseValidatorStake, feeVars
----------------------------------------------------------------------------
\* WithdrawStake from the validator stake account: account and record lose the
\* same.
LEMMA WithdrawActiveLife ==
  ASSUME LifecycleInv, NEW v \in Validators, NEW h, NEW amount \in Nat,
         WithdrawActiveStake(v, h, amount)
  PROVE  LifeInv'
  <1> DEFINE lamports == WithdrawLamports("stake_withdrawal", h, amount)
             e == [list[v] EXCEPT !.active = @ - lamports]
             vs == SplitSource(vstake[v], lamports)
  <1>0. /\ PoolInv /\ epoch \in Nat /\ vstake[v] \in Account /\ Shape(vstake[v])
        /\ vstake[v].lamports \in Nat /\ list[v].active \in Nat
    BY EntryFacts, RowFacts DEF LifecycleInv
  <1>1. lamports \in Nat
    BY <1>0, WithdrawLamportsType DEF WithdrawalFees
  <1>2. /\ list[v].status = "Active" /\ lamports <= list[v].active
        /\ vstake[v].lamports - lamports >= MinimumStakeLamports
        /\ CanSplit(vstake[v], Rent, lamports, epoch)
        /\ vstake' = [vstake EXCEPT ![v] = SplitSource(@, lamports)]
        /\ list' = [list EXCEPT ![v].active = @ - lamports] /\ tstake' = tstake
        /\ drained' = {} /\ epoch' = epoch
    BY DEF WithdrawActiveStake, IsActive, feeVars
  <1> HIDE DEF lamports
  <1>3. /\ e.active = list[v].active - lamports /\ e.transient = list[v].transient
        /\ e.seed = list[v].seed /\ e.status = "Active" /\ e.last_update = list[v].last_update
    BY <1>0, <1>2, EntryFacts DEF Entry
  <1>4. vs.lamports = vstake[v].lamports - lamports /\ vs.kind = "stake" /\ Shape(vs)
    <2>1. lamports < vstake[v].lamports
      BY <1>0, <1>1, <1>2, Constants
    <2> QED BY <1>0, <1>1, <1>2, <2>1, Constants, SplitSourceAccount, SplitShape
  <1>5. /\ list' = [list EXCEPT ![v] = e] /\ vstake' = [vstake EXCEPT ![v] = vs]
        /\ tstake' = [tstake EXCEPT ![v] = tstake[v]]
    BY <1>0, <1>2 DEF PoolInv, StakeInv, StakeOK
  <1> HIDE DEF e, vs
  <1>6. Absorbable(e, vs) /\ Alive(e, vs) /\ Tracked(e, tstake[v], epoch)
    BY <1>3, <1>4, RowFacts DEF Absorbable, Alive, Tracked
  <1>7. Exact(e, vs, epoch)
    <2>1. list[v].active = vstake[v].lamports => e.active = vs.lamports
      BY <1>0, <1>1, <1>3, <1>4
    <2> QED BY <1>2, <1>3, <2>1, RowFacts DEF Exact
  <1>8. Row(e, vs, tstake[v], epoch)
    BY <1>4, <1>6, <1>7, RowFacts DEF Row
  <1>9. LifeOK([list EXCEPT ![v] = e], [vstake EXCEPT ![v] = vs],
               [tstake EXCEPT ![v] = tstake[v]], epoch, {})
    BY <1>8, RowStep
  <1> QED BY <1>2, <1>5, <1>9 DEF LifeInv

\* WithdrawStake from the transient account: the stake program keeps a minimum
\* of stake in it, which the record exceeds, so that something stays recorded.
LEMMA WithdrawTransientLife ==
  ASSUME LifecycleInv, NEW v \in Validators, NEW h, NEW amount \in Nat,
         WithdrawTransientStake(v, h, amount)
  PROVE  LifeInv'
  <1> DEFINE lamports == WithdrawLamports("stake_withdrawal", h, amount)
             e == [list[v] EXCEPT !.transient = @ - lamports]
             s == list[v].seed
             t == tstake[v][s]
             a == SplitSource(t, lamports)
             ts == [tstake[v] EXCEPT ![s] = a]
  <1>0. /\ PoolInv /\ epoch \in Nat /\ t \in Account /\ Shape(t) /\ t.stake \in Nat
        /\ t.lamports \in Nat /\ list[v].transient \in Nat /\ s \in Seeds
    <2>1. PoolInv /\ epoch \in Nat /\ list[v].transient \in Nat /\ s \in Seeds
      BY EntryFacts DEF LifecycleInv
    <2>2. t \in Account /\ t.stake \in Nat /\ t.lamports \in Nat
      BY <2>1, EntryFacts DEF Account
    <2> QED BY <2>1, <2>2, RowFacts
  <1>1. lamports \in Nat
    BY <1>0, WithdrawLamportsType DEF WithdrawalFees
  <1>2. /\ list[v].status = "Active" /\ lamports <= list[v].transient /\ UpToDate
        /\ t.lamports - lamports >= MinimumStakeLamports
        /\ CanSplit(t, Rent, lamports, epoch)
        /\ tstake' = [tstake EXCEPT ![v][list[v].seed] = SplitSource(@, lamports)]
        /\ list' = [list EXCEPT ![v].transient = @ - lamports] /\ vstake' = vstake
        /\ drained' = {} /\ epoch' = epoch
    BY DEF WithdrawTransientStake, CanWithdrawStake, IsActive, feeVars, Transient
  <1> HIDE DEF lamports
  <1>3. /\ e.active = list[v].active /\ e.transient = list[v].transient - lamports
        /\ e.seed = s /\ e.status = "Active" /\ e.last_update = list[v].last_update
    BY <1>0, <1>2, EntryFacts DEF Entry
  <1>4. /\ a.stake = t.stake - lamports /\ a.kind = "stake" /\ Shape(a)
        /\ t.stake - lamports >= StakeMinimum /\ t.kind = "stake"
    <2>1. lamports < t.lamports
      BY <1>0, <1>1, <1>2, Constants
    <2> HIDE DEF t, s
    <2> QED BY <1>0, <1>1, <1>2, <2>1, Constants, SplitSourceAccount, SplitShape DEF CanSplit
  <1>5. /\ list' = [list EXCEPT ![v] = e] /\ tstake' = [tstake EXCEPT ![v] = ts]
        /\ vstake' = [vstake EXCEPT ![v] = vstake[v]]
    BY <1>0, <1>2, RowChanges DEF PoolInv, StakeInv, StakeOK
  <1> HIDE DEF e, a
  <1>6. Absorbable(e, vstake[v]) /\ Alive(e, vstake[v]) /\ Exact(e, vstake[v], epoch)
    BY <1>2, <1>3, RowFacts DEF Absorbable, Alive, Exact
  <1>7. Tracked(e, ts, epoch)
    <2>1. CASE SmallPrefunds
      <3>1. t.stake < list[v].transient + StakeMinimum
        BY <1>0, <1>2, <1>4, <2>1, RowFacts DEF Tracked, Listed
      <3>2. e.transient > 0 /\ a.stake < e.transient + StakeMinimum
        BY <1>0, <1>1, <1>3, <1>4, <3>1, Constants
      <3> QED BY <1>0, <1>3, <3>2, TrackedStep
    <2>2. CASE ~SmallPrefunds
      BY <2>2 DEF Tracked
    <2> QED BY <2>1, <2>2
  <1>8. \A z \in Seeds : Shape(ts[z])
    BY <1>0, <1>4, ShapesStep
  <1>9. Row(e, vstake[v], ts, epoch)
    BY <1>6, <1>7, <1>8, RowFacts DEF Row
  <1>10. LifeOK([list EXCEPT ![v] = e], [vstake EXCEPT ![v] = vstake[v]],
               [tstake EXCEPT ![v] = ts], epoch, {})
    BY <1>9, RowStep
  <1> QED BY <1>2, <1>5, <1>10 DEF LifeInv

\* WithdrawStake of a whole validator stake account.
LEMMA WithdrawWholeLife ==
  ASSUME LifecycleInv, NEW v \in Validators, NEW h, NEW amount,
         WithdrawWholeValidator(v, h, amount)
  PROVE  LifeInv'
  <1> DEFINE e == [list[v] EXCEPT !.active = 0, !.status = "ReadyForRemoval"]
             vs == Unallocated(0)
             d == Drain({<<v, NoValidator>>})
  <1>0. PoolInv
    BY DEF LifecycleInv
  <1>1. /\ e.active = 0 /\ e.transient = list[v].transient /\ e.seed = list[v].seed
        /\ e.status = "ReadyForRemoval" /\ e.last_update = list[v].last_update
    BY <1>0, EntryFacts DEF Entry, Statuses
  <1>2. vs.kind = "none" /\ Shape(vs) /\ vs.lamports = 0
    BY EmptyShape
  <1>3. /\ list' = [list EXCEPT ![v] = e] /\ vstake' = [vstake EXCEPT ![v] = vs]
        /\ tstake' = [tstake EXCEPT ![v] = tstake[v]] /\ drained' = d /\ epoch' = epoch
    BY <1>0 DEF WithdrawWholeValidator, feeVars, PoolInv, StakeInv, StakeOK
  <1>4. \A w \in Validators \ {v} : <<w, NoValidator>> \notin d
    BY DEF Drain
  <1> HIDE DEF e, vs, d
  <1>5. Absorbable(e, vs) /\ Alive(e, vs) /\ Exact(e, vs, epoch) /\ Tracked(e, tstake[v], epoch)
    BY <1>1, <1>2, RowFacts DEF Absorbable, Alive, Exact, Tracked
  <1>6. Row(e, vs, tstake[v], epoch)
    BY <1>2, <1>5, RowFacts DEF Row
  <1>7. LifeOK([list EXCEPT ![v] = e], [vstake EXCEPT ![v] = vs],
               [tstake EXCEPT ![v] = tstake[v]], epoch, d)
    BY <1>2, <1>4, <1>6, RowStep
  <1> QED BY <1>3, <1>7 DEF LifeInv

\* DepositStake: the record becomes what the account holds.
LEMMA DepositStakeLife ==
  ASSUME LifecycleInv, NEW v \in Validators, NEW u \in UserStakes, DepositStake(v, u)
  PROVE  LifeInv'
  <1> DEFINE merged == Merged(vstake[v], u, epoch)
             sol == (merged.lamports - vstake[v].lamports) - (merged.stake - vstake[v].stake)
             kept == merged.lamports - sol
             e == [list[v] EXCEPT !.active = kept]
             vs == [merged EXCEPT !.lamports = kept]
  <1>0. /\ PoolInv /\ epoch \in Nat /\ vstake[v] \in Account /\ Shape(vstake[v])
        /\ vstake[v].lamports \in Nat /\ vstake[v].stake \in Nat
    BY EntryFacts, RowFacts DEF LifecycleInv
  <1>1. /\ list[v].status = "Active" /\ vstake[v].kind = "stake"
        /\ CanMerge(vstake[v], u, epoch)
        /\ list' = [list EXCEPT ![v].active = merged.lamports - sol]
        /\ vstake' = [vstake EXCEPT ![v] = [merged EXCEPT !.lamports = @ - sol]]
        /\ tstake' = tstake /\ drained' = {} /\ epoch' = epoch
    BY DEF DepositStake, IsActive, feeVars
  <1>2. u \in Account /\ u.lamports \in Nat
    BY <1>0, <1>1, UserStakeFacts DEF Account
  <1>3. /\ merged \in Account /\ merged.lamports = vstake[v].lamports + u.lamports
        /\ merged.mine = vstake[v].mine /\ merged.kind = vstake[v].kind /\ merged.stake \in Nat
        /\ merged.stake >= vstake[v].stake
    BY ONLY <1>0, <1>2, MergedAccount
  <1>4. vstake[v].mine = TRUE /\ vstake[v].stake + Rent <= vstake[v].lamports
    BY <1>0, <1>1, ShapeFacts
  <1> HIDE DEF merged
  <1>5. kept \in Nat /\ kept = vstake[v].lamports + (merged.stake - vstake[v].stake)
    BY <1>0, <1>2, <1>3
  <1>6. merged.stake + Rent <= kept
    BY <1>0, <1>3, <1>4, <1>5, Constants
  <1>7. list' = [list EXCEPT ![v] = e] /\ tstake' = [tstake EXCEPT ![v] = tstake[v]]
    BY <1>0, <1>1 DEF PoolInv, StakeInv, StakeOK
  <1>8. vstake' = [vstake EXCEPT ![v] = vs]
    BY <1>1
  <1> HIDE DEF kept, sol
  <1>9. /\ e.active = kept /\ e.transient = list[v].transient
        /\ e.seed = list[v].seed /\ e.status = "Active" /\ e.last_update = list[v].last_update
    BY <1>0, <1>1, EntryFacts DEF Entry
  <1>10. vs.lamports = kept /\ vs.mine = TRUE /\ vs.kind = "stake" /\ vs.stake = merged.stake
    BY <1>1, <1>3, <1>4 DEF Account
  <1> HIDE DEF e, vs
  <1>11. Shape(vs)
    BY <1>6, <1>10, StakeShape
  <1>12. Absorbable(e, vs) /\ Alive(e, vs) /\ Exact(e, vs, epoch) /\ Tracked(e, tstake[v], epoch)
    BY <1>9, <1>10, RowFacts DEF Absorbable, Alive, Exact, Tracked
  <1>13. Row(e, vs, tstake[v], epoch)
    BY <1>11, <1>12, RowFacts DEF Row
  <1>14. LifeOK([list EXCEPT ![v] = e], [vstake EXCEPT ![v] = vs],
                [tstake EXCEPT ![v] = tstake[v]], epoch, {})
    BY <1>13, RowStep
  <1> QED BY <1>1, <1>7, <1>8, <1>14 DEF LifeInv
----------------------------------------------------------------------------
\* UpdateValidatorListBalance: what both of its halves leave behind. A transient
\* account that is still delegated has been counted with all it holds.
Counted(u) == SmallPrefunds /\ u.t.kind = "stake" => u.found > 0 /\ u.t.stake + Rent <= u.found
HalfLife(v, u) ==
  /\ Shape(u.t) /\ Shape(u.vs)
  /\ Absorbable(u, u.vs) /\ Alive(u, u.vs) /\ Counted(u)
  /\ u.status \in {list[v].status, RemoveTransientStake(list[v].status)}

\* RemoveTransientStake keeps Active and the statuses that wait for the
\* validator stake account.
LEMMA StatusAfterTransient ==
  ASSUME NEW status \in Statuses \cup {"NotListed"}
  PROVE  LET new == RemoveTransientStake(status)
         IN /\ new = "Active" <=> status = "Active"
            /\ status \in {"Active", "DeactivatingValidator", "DeactivatingAll"}
                 => new \in {"Active", "DeactivatingValidator", "DeactivatingAll"}
  BY DEF RemoveTransientStake, Statuses

\* The first half.
LEMMA TransientHalfLife ==
  ASSUME LifecycleInv, NEW v \in Validators, NEW no_merge \in BOOLEAN,
         UpdateTransient(v, no_merge).ok
  PROVE  HalfLife(v, UpdateTransient(v, no_merge))
  <1> DEFINE u == Begin(v)
             w == UpdateTransient(v, no_merge)
             y == [u EXCEPT !.t = DeactivatedIfNeeded(@, epoch)]
  <1>0. PoolInv /\ epoch \in Nat /\ list[v].status \in Statuses \cup {"NotListed"}
    BY EntryFacts DEF LifecycleInv, Entry
  <1>1. /\ u \in Work /\ u.status = list[v].status
        /\ u.t = Transient(v) /\ u.vs = vstake[v] /\ u.found = 0
    BY <1>0, BeginWork
  <1>2. /\ Transient(v) \in Account /\ vstake[v] \in Account
        /\ Transient(v).lamports \in Nat /\ Transient(v).stake \in Nat
    <2>1. Transient(v) \in Account /\ vstake[v] \in Account
      BY <1>0, EntryFacts
    <2> QED BY <2>1 DEF Account
  <1>3. /\ Shape(Transient(v)) /\ Shape(vstake[v])
        /\ Absorbable(list[v], vstake[v]) /\ Alive(list[v], vstake[v])
    BY <1>0, EntryFacts, RowFacts DEF Transient
  <1>4. SmallPrefunds /\ Transient(v).kind = "stake" => list[v].transient > 0
    BY <1>0, EntryFacts, RowFacts DEF Tracked, Transient
  <1>5. Transient(v).kind = "stake" =>
          Transient(v).mine = TRUE /\ Transient(v).stake + Rent <= Transient(v).lamports
    BY <1>3, ShapeFacts
  <1>6. /\ y \in Work /\ y.status = list[v].status /\ y.vs = vstake[v]
        /\ y.t = DeactivatedIfNeeded(Transient(v), epoch)
    <2>1. DeactivatedIfNeeded(u.t, epoch) \in Account
      BY <1>0, <1>1, <1>2, AccountTypes
    <2> HIDE DEF u
    <2> QED BY <1>1, <2>1 DEF Work
  <1>7. /\ y.t.kind = Transient(v).kind /\ y.t.lamports = Transient(v).lamports
        /\ y.t.stake = Transient(v).stake /\ Shape(y.t)
    BY <1>0, <1>2, <1>3, <1>6, DeactivatedKeeps, DeactivatedShape
  <1>8. /\ \A x \in {list[v].status, RemoveTransientStake(list[v].status)} :
             (x = "Active" <=> list[v].status = "Active")
        /\ list[v].status \in {"Active", "DeactivatingValidator", "DeactivatingAll"} =>
             RemoveTransientStake(list[v].status) \in
               {"Active", "DeactivatingValidator", "DeactivatingAll"}
    BY <1>0, StatusAfterTransient
  <1> HIDE DEF u, y, w
  <1>9. CASE w = u /\ (list[v].transient = 0 \/ ~UsableByPool(u.t))
    <2>1. ~(SmallPrefunds /\ u.t.kind = "stake")
      BY <1>1, <1>4, <1>5, <1>9 DEF UsableByPool
    <2> QED BY <1>1, <1>3, <1>9, <2>1 DEF HalfLife, Counted, Absorbable, Alive, w
  <1>10. ASSUME NEW x \in Work, x.status = list[v].status, x.vs = vstake[v],
                x.t.kind = Transient(v).kind, x.t.lamports = Transient(v).lamports,
                x.t.stake = Transient(v).stake, Shape(x.t)
         PROVE  HalfLife(v, CountTransient(x))
    <2> DEFINE z == CountTransient(x)
    <2>1. z.found = x.t.lamports /\ z.status = x.status /\ z.t = x.t /\ z.vs = x.vs
      BY <1>10, CountTransientWork
    <2> HIDE DEF z
    <2>2. Counted(z)
      <3>1. Transient(v).kind = "stake" => Transient(v).lamports > 0
        BY <1>2, <1>5, Constants
      <3> QED BY <1>5, <1>10, <2>1, <3>1 DEF Counted
    <2>3. HalfLife(v, z)
      BY <1>3, <1>10, <2>1, <2>2 DEF HalfLife, Absorbable, Alive
    <2> QED BY <2>3 DEF z
  <1>11. CASE w = CountTransient(u)
    BY <1>1, <1>3, <1>10, <1>11 DEF w
  <1>12. CASE w = CountTransient(y)
    BY <1>6, <1>7, <1>10, <1>12 DEF w
  <1>13. CASE w = TransientIntoReserve(u)
    <2>1. w.t = Unallocated(0) /\ w.vs = u.vs /\ w.status = RemoveTransientStake(u.status)
      BY <1>1, <1>13, TransientIntoReserveWork
    <2> QED BY <1>1, <1>3, <1>8, <2>1, EmptyShape DEF HalfLife, Counted, Absorbable, Alive, w
  <1>14. CASE w = TransientIntoValidator(u) /\ UsableByPool(u.t) /\ ReadyForValidator(u)
    <2>1. /\ w.vs = Merged(u.vs, u.t, epoch) /\ w.t = Unallocated(0) /\ w.status = u.status
          /\ w.ok = CanMerge(u.vs, u.t, epoch)
      BY <1>0, <1>1, <1>14, TransientIntoValidatorWork
    <2>2. CanMerge(u.vs, u.t, epoch)
      BY <2>1 DEF w
    <2>3. u.vs.kind = "stake" /\ u.t.mine = TRUE
      <3>1. u.t.mine \in BOOLEAN /\ u.t.mine
        BY <1>1, <1>2, <1>14, Zenon DEF UsableByPool, Account
      <3> QED BY <1>14, <3>1 DEF ReadyForValidator
    <2>4. Merged(u.vs, u.t, epoch).kind = "stake" /\ Shape(Merged(u.vs, u.t, epoch))
      <3>1. u.vs \in Account /\ u.t \in Account /\ epoch \in Nat /\ Shape(u.vs) /\ Shape(u.t)
        BY <1>0, <1>1, <1>2, <1>3
      <3>2. Merged(u.vs, u.t, epoch).kind = u.vs.kind
        BY ONLY <3>1, MergedAccount
      <3>3. Shape(Merged(u.vs, u.t, epoch))
        BY ONLY <2>2, <2>3, <3>1, MergedShape
      <3> QED BY <2>3, <3>2, <3>3
    <2> QED BY <1>1, <1>3, <2>1, <2>3, <2>4, EmptyShape
            DEF HalfLife, Counted, Absorbable, Alive, w
  <1>15. \/ w = u /\ (list[v].transient = 0 \/ ~UsableByPool(u.t))
         \/ w \in {CountTransient(u), CountTransient(y), TransientIntoReserve(u)}
         \/ w = TransientIntoValidator(u) /\ UsableByPool(u.t) /\ ReadyForValidator(u)
    BY DEF UpdateTransient, u, w, y
  <1> QED BY <1>9, <1>11, <1>12, <1>13, <1>14, <1>15 DEF w

\* Sweeping leaves stake and rent in the account.
LEMMA SweepShape ==
  ASSUME NEW u \in Work, Shape(u.vs), u.vs.kind = "stake"
  PROVE  Shape(SweepExtra(u).vs)
  <1> DEFINE x == ExtraLamports(u.vs)
             k == u.vs.lamports - x
             a == SweepExtra(u).vs
  <1>1. u.vs \in Account /\ u.vs.lamports \in Nat /\ u.vs.stake \in Nat
    BY WorkFields
  <1>2. u.vs.mine = TRUE /\ u.vs.stake + Rent <= u.vs.lamports
    BY ShapeFacts
  <1>3. k \in Nat /\ u.vs.stake + Rent <= k
    BY <1>1, <1>2, Constants DEF ExtraLamports
  <1>4. a = [u.vs EXCEPT !.lamports = k]
    BY <1>1 DEF SweepExtra, Work
  <1> HIDE DEF k, a
  <1>5. a.kind = "stake" /\ a.mine = TRUE /\ a.stake = u.vs.stake /\ a.lamports = k
    BY <1>1, <1>2, <1>3, <1>4 DEF Account
  <1>6. Shape(a)
    BY <1>3, <1>5, StakeShape
  <1> QED BY <1>6 DEF a

\* The steps of a status towards its removal.
Advances(old, new) ==
  old # new =>
    IF old = "NotListed" THEN new = "Active"
    ELSE Stage(old) < Stage(new) /\ (new = "NotListed" => old = "ReadyForRemoval")

\* What the whole update leaves behind.
DoneLife(v, w) ==
  /\ Shape(w.t) /\ Shape(w.vs)
  /\ Absorbable(w, w.vs) /\ Alive(w, w.vs) /\ Counted(w)
  /\ Events \cap {"donate", "prefund", "hijack"} = {} => w.active = w.vs.lamports
  /\ Advances(list[v].status, w.status)
  /\ list[v].status = "Active" /\ w.status # "Active" => "destake" \in Events

\* The second half.
LEMMA ValidatorHalfLife ==
  ASSUME LifecycleInv, NEW v \in Validators, NEW u, HalfDone(v, u), HalfLife(v, u), Listed(v),
         NEW no_merge \in BOOLEAN
  PROVE  DoneLife(v, UpdateValidator(u, no_merge))
  <1> DEFINE s == SweepExtra(u)
             w == UpdateValidator(u, no_merge)
             d == DestakedStatus(u.found)
             r == RemoveValidatorStake(u.status)
  <1>0. /\ u \in Work /\ u.status \in Statuses \cup {"NotListed"} /\ u.active = 0
        /\ u.vs \in Account /\ list[v].status \in Statuses /\ u.status # "NotListed"
        /\ u.found \in Nat
    <2>1. list[v].status \in Statuses
      BY EntryFacts DEF LifecycleInv, Entry, Listed
    <2> QED BY <2>1, WorkFields DEF HalfDone
  <1>1. /\ Shape(u.t) /\ Shape(u.vs) /\ Absorbable(u, u.vs) /\ Alive(u, u.vs) /\ Counted(u)
        /\ u.status \in {list[v].status, RemoveTransientStake(list[v].status)}
    BY DEF HalfLife
  <1>2. /\ u.status \in {"DeactivatingValidator", "ReadyForRemoval"} => u.found = 0
        /\ u.status \in {"DeactivatingTransient", "DeactivatingAll"} => u.found > 0
    BY DEF HalfDone
  <1>3. /\ Advances(list[v].status, u.status) /\ Advances(list[v].status, d)
        /\ Advances(list[v].status, r)
    <2>1. list[v].status \in {"Active", "DeactivatingTransient", "ReadyForRemoval",
                              "DeactivatingValidator", "DeactivatingAll"}
      BY <1>0 DEF Statuses
    <2>2. \/ u.status = list[v].status
          \/ list[v].status = "DeactivatingAll" /\ u.status = "DeactivatingValidator"
          \/ list[v].status = "DeactivatingTransient" /\ u.status = "ReadyForRemoval"
      BY <1>1, <2>1 DEF RemoveTransientStake
    <2> QED BY <1>0, <1>2, <2>1, <2>2 DEF Advances, Stage, DestakedStatus, RemoveValidatorStake
  <1>4. list[v].status = "Active" <=> u.status = "Active"
    BY <1>0, <1>1, StatusAfterTransient
  <1>5. d \in Statuses \ {"Active"} /\ (u.status # "Active" => r \in Statuses \ {"Active"})
    BY <1>0 DEF DestakedStatus, RemoveValidatorStake, Statuses
  <1>6. /\ s \in Work /\ s.vs.mine = u.vs.mine /\ s.vs.kind = u.vs.kind
        /\ s.status = u.status /\ s.t = u.t /\ s.found = u.found /\ s.active = u.active
    BY <1>0, SweepExtraWork
  <1>7. u.vs.mine \in BOOLEAN
    BY <1>0, Zenon DEF Account
  <1>8. UsableByPool(u.vs) /\ u.vs.kind # "initialized" => u.vs.kind = "stake"
    <2>1. u.vs.kind = "none" => u.vs.mine = FALSE
      BY <1>1 DEF Shape
    <2>2. u.vs.kind \in {"none", "initialized", "stake"}
      BY <1>0 DEF Account
    <2> QED BY <2>1, <2>2, Zenon DEF UsableByPool
  <1>9. u.vs.kind = "stake" => Shape(s.vs)
    BY <1>0, <1>1, SweepShape
  <1> HIDE DEF s, d, r, w
  <1>10. CASE w = u /\ ~UsableByPool(u.vs)
    <2>1. Events \cap {"donate", "prefund", "hijack"} = {} => u.vs.lamports = 0
      <3>1. u.vs.kind \in {"none", "initialized", "stake"}
        BY <1>0 DEF Account
      <3>2. u.vs.mine = FALSE
        BY <1>7, <1>10, Zenon DEF UsableByPool
      <3> QED BY <1>1, <3>1, <3>2 DEF Shape
    <2>2. DoneLife(v, u)
      BY <1>0, <1>1, <1>3, <1>4, <2>1 DEF DoneLife
    <2> QED BY <1>10, <2>2 DEF w
  <1>11. CASE w = ValidatorIntoReserve(u, d) /\ u.vs.kind = "initialized"
    <2>1. /\ w.vs = Unallocated(0) /\ w.status = d /\ w.t = u.t /\ w.found = u.found
          /\ w.active = u.active
      BY <1>0, <1>5, <1>11, ValidatorIntoReserveWork
    <2>2. list[v].status = "Active" => "destake" \in Events
      BY <1>1, <1>4, <1>11 DEF Alive
    <2> QED BY <1>0, <1>1, <1>3, <1>5, <2>1, <2>2, EmptyShape
            DEF DoneLife, Absorbable, Alive, Counted, w
  <1>12. CASE /\ w = s /\ u.status \in {"DeactivatingTransient", "ReadyForRemoval"}
              /\ UsableByPool(u.vs) /\ u.vs.kind # "initialized"
    BY <1>1, <1>8, <1>12 DEF Absorbable
  <1>13. CASE w = ValidatorIntoReserve(s, r) /\ u.status # "Active"
    <2>1. /\ w.vs = Unallocated(0) /\ w.status = r /\ w.t = u.t /\ w.found = u.found
          /\ w.active = u.active
      BY <1>5, <1>6, <1>13, ValidatorIntoReserveWork
    <2> QED BY <1>0, <1>1, <1>3, <1>4, <1>5, <1>13, <2>1, EmptyShape
            DEF DoneLife, Absorbable, Alive, Counted, w
  <1>14. CASE w = CountValidator(s) /\ UsableByPool(u.vs) /\ u.vs.kind # "initialized"
    <2>1. /\ w.active = s.vs.lamports /\ w.status = u.status /\ w.t = u.t /\ w.vs = s.vs
          /\ w.found = u.found
      BY <1>6, <1>14, CountValidatorWork
    <2> QED BY <1>1, <1>3, <1>4, <1>6, <1>8, <1>9, <1>14, <2>1
            DEF DoneLife, Absorbable, Alive, Counted, w
  <1>15. \/ w = u /\ ~UsableByPool(u.vs)
         \/ w = ValidatorIntoReserve(u, d) /\ u.vs.kind = "initialized"
         \/ /\ w = s /\ u.status \in {"DeactivatingTransient", "ReadyForRemoval"}
            /\ UsableByPool(u.vs) /\ u.vs.kind # "initialized"
         \/ w = ValidatorIntoReserve(s, r) /\ u.status # "Active"
         \/ w = CountValidator(s) /\ UsableByPool(u.vs) /\ u.vs.kind # "initialized"
    BY DEF UpdateValidator, s, w, d, r
  <1> QED BY <1>10, <1>11, <1>12, <1>13, <1>14, <1>15 DEF w

\* Both halves of an update that succeeds.
LEMMA UpdateLifeDone ==
  ASSUME LifecycleInv, NEW v \in Validators, NEW no_merge \in BOOLEAN, Listed(v),
         UpdateEntry(v, no_merge).ok
  PROVE  Done(v, UpdateEntry(v, no_merge)) /\ DoneLife(v, UpdateEntry(v, no_merge))
  <1> DEFINE u == UpdateTransient(v, no_merge)
  <1>0. PoolInv
    BY DEF LifecycleInv
  <1>1. u.ok
    BY <1>0, TransientWork, UpdateOkWork DEF UpdateEntry
  <1>2. HalfDone(v, u) /\ Done(v, UpdateEntry(v, no_merge))
    BY <1>0, UpdateDone
  <1>3. HalfLife(v, u)
    BY <1>1, TransientHalfLife
  <1> HIDE DEF u
  <1>4. DoneLife(v, UpdateValidator(u, no_merge))
    BY <1>2, <1>3, ValidatorHalfLife
  <1> QED BY <1>2, <1>4 DEF UpdateEntry, u

\* UpdateValidatorListBalance: afterwards the entry is up to date and exact.
LEMMA UpdateLife ==
  ASSUME LifecycleInv, NEW v \in Validators, NEW no_merge \in BOOLEAN,
         UpdateValidatorListBalance(v, no_merge)
  PROVE  LifeInv'
  <1> DEFINE u == UpdateEntry(v, no_merge)
             s == list[v].seed
             e == [list[v] EXCEPT !.status = u.status, !.active = u.active,
                                  !.transient = u.found, !.last_update = epoch]
             ts == [tstake[v] EXCEPT ![s] = u.t]
             d == Drain(Emptied(v, u))
  <1>0. PoolInv /\ s \in Seeds /\ s # NoValidator /\ tstake[v] \in [Seeds -> Account]
    BY EntryFacts, PoolAssumption DEF LifecycleInv
  <1>1. Done(v, u) /\ DoneLife(v, u)
    BY UpdateLifeDone DEF UpdateValidatorListBalance
  <1>2. /\ list' = [list EXCEPT ![v] = e] /\ vstake' = [vstake EXCEPT ![v] = u.vs]
        /\ tstake' = [tstake EXCEPT ![v] = ts] /\ drained' = d /\ epoch' = epoch
    BY <1>0, RowChanges DEF UpdateValidatorListBalance, feeVars, PoolInv, StakeInv, StakeOK
  <1> HIDE DEF u
  <1>3. u \in Work /\ u.t.stake \in Nat /\ u.found \in Nat
    BY <1>1, WorkFields DEF Done, Account
  <1>4. /\ e.active = u.active /\ e.transient = u.found /\ e.seed = s /\ e.last_update = epoch
        /\ e.status = u.status
    BY <1>0, EntryFacts DEF Entry
  <1>5. /\ \A w \in Validators \ {v} : <<w, NoValidator>> \notin d
        /\ <<v, NoValidator>> \in d => u.vs.kind = "none"
    BY <1>0 DEF Drain, Emptied
  <1> HIDE DEF e, d
  <1>6. Absorbable(e, u.vs) /\ Alive(e, u.vs) /\ Exact(e, u.vs, epoch)
    BY <1>1, <1>4 DEF DoneLife, Absorbable, Alive, Exact
  <1>7. Tracked(e, ts, epoch)
    <2>1. CASE SmallPrefunds
      <3>1. u.t.kind = "stake" => u.found > 0 /\ u.t.stake < u.found + StakeMinimum
        BY <1>1, <1>3, <2>1, Constants DEF DoneLife, Counted
      <3> QED BY <1>0, <1>4, <3>1, TrackedStep
    <2>2. CASE ~SmallPrefunds
      BY <2>2 DEF Tracked
    <2> QED BY <2>1, <2>2
  <1>8. \A z \in Seeds : Shape(ts[z])
    BY <1>0, <1>1, ShapesStep DEF DoneLife
  <1>9. Row(e, u.vs, ts, epoch)
    BY <1>1, <1>6, <1>7, <1>8 DEF Row, DoneLife
  <1>10. LifeOK([list EXCEPT ![v] = e], [vstake EXCEPT ![v] = u.vs],
                [tstake EXCEPT ![v] = ts], epoch, d)
    BY <1>5, <1>9, RowStep
  <1> QED BY <1>2, <1>10 DEF LifeInv
----------------------------------------------------------------------------
\* CleanupRemovedValidatorEntries: an entry that is ready for removal has no
\* stake left to forget.
LEMMA CleanupLife ==
  ASSUME LifecycleInv, NEW writable, CleanupRemovedValidatorEntries(writable)
  PROVE  LifeInv'
  <1> DEFINE l1 == [v \in Validators |-> IF IsRemoved(list[v]) THEN NotListed ELSE list[v]]
  <1>1. list' = l1 /\ UNCHANGED <<vstake, tstake, epoch>> /\ drained' = {}
    BY DEF CleanupRemovedValidatorEntries, feeVars
  <1>2. NotListed.status = "NotListed"
    BY DEF NotListed
  <1>3. ASSUME NEW v \in Validators PROVE Row(l1[v], vstake[v], tstake[v], epoch)
    <2>1. CASE IsRemoved(list[v])
      <3>1. l1[v] = NotListed /\ list[v].status = "ReadyForRemoval" /\ list[v].transient = 0
        BY <2>1 DEF IsRemoved
      <3>2. ~(list[v].transient > 0)
        BY <3>1
      <3>3. vstake[v].kind # "stake"
        BY <3>1, RowFacts DEF Absorbable
      <3>4. SmallPrefunds => \A s \in Seeds : tstake[v][s].kind # "stake"
        BY <3>2, RowFacts DEF Tracked
      <3> QED BY <1>2, <3>1, <3>3, <3>4, RowFacts DEF Row, Absorbable, Alive, Tracked, Exact
    <2>2. CASE ~IsRemoved(list[v])
      BY <2>2, RowFacts DEF Row
    <2> QED BY <2>1, <2>2
  <1> HIDE DEF l1
  <1>4. LifeOK(l1, vstake, tstake, epoch, {})
    BY <1>3 DEF LifeOK
  <1> QED BY <1>1, <1>4 DEF LifeInv

\* Steps that touch neither the list nor the stake accounts.
LEMMA QuietLife ==
  ASSUME LifecycleInv, UNCHANGED <<stakeVars, epoch>>, drained' \subseteq drained
  PROVE  LifeInv'
  BY DEF LifecycleInv, LifeInv, LifeOK, stakeVars

\* A third party changes a validator stake account.
LEMMA ValidatorAccountLife ==
  ASSUME LifecycleInv, NEW v \in Validators, NEW vs, Shape(vs),
         Absorbable(list[v], vs), Alive(list[v], vs), Exact(list[v], vs, epoch),
         <<v, NoValidator>> \in drained' => vs.kind = "none",
         vstake' = [vstake EXCEPT ![v] = vs], UNCHANGED <<list, tstake, epoch>>,
         drained' \subseteq drained
  PROVE  LifeInv'
  <1>1. Row(list[v], vs, tstake[v], epoch)
    BY RowFacts DEF Row
  <1>2. LifeOK([list EXCEPT ![v] = list[v]], [vstake EXCEPT ![v] = vs],
               [tstake EXCEPT ![v] = tstake[v]], epoch, drained')
    BY <1>1, RowStep
  <1>3. [list EXCEPT ![v] = list[v]] = list /\ [tstake EXCEPT ![v] = tstake[v]] = tstake
    BY DEF LifecycleInv, PoolInv, StakeInv, StakeOK
  <1> QED BY <1>2, <1>3 DEF LifeInv

\* A third party changes a transient account, and delegates nothing.
LEMMA TransientAccountLife ==
  ASSUME LifecycleInv, NEW v \in Validators, NEW s \in Seeds, NEW a, Shape(a),
         a.kind = "stake" => tstake[v][s].kind = "stake" /\ a.stake = tstake[v][s].stake,
         tstake' = [tstake EXCEPT ![v][s] = a], UNCHANGED <<list, vstake, epoch>>,
         drained' \subseteq drained
  PROVE  LifeInv'
  <1> DEFINE ts == [tstake[v] EXCEPT ![s] = a]
  <1>0. PoolInv /\ tstake[v] \in [Seeds -> Account]
    BY EntryFacts DEF LifecycleInv
  <1>1. \A z \in Seeds : Shape(ts[z])
    BY ShapesStep
  <1>2. ts[s] = a /\ \A z \in Seeds \ {s} : ts[z] = tstake[v][z]
    BY <1>0
  <1>3. tstake' = [tstake EXCEPT ![v] = ts]
    BY <1>0, RowChanges
  <1> HIDE DEF ts
  <1>4. \A z \in Seeds : ts[z].kind = "stake" =>
          tstake[v][z].kind = "stake" /\ ts[z].stake = tstake[v][z].stake
    BY <1>2
  <1>5. Tracked(list[v], ts, epoch)
    BY <1>4, RowFacts DEF Tracked
  <1>6. Row(list[v], vstake[v], ts, epoch)
    BY <1>1, <1>5, RowFacts DEF Row
  <1>7. LifeOK([list EXCEPT ![v] = list[v]], [vstake EXCEPT ![v] = vstake[v]],
               [tstake EXCEPT ![v] = ts], epoch, drained')
    BY <1>6, RowFacts, RowStep
  <1>8. [list EXCEPT ![v] = list[v]] = list /\ [vstake EXCEPT ![v] = vstake[v]] = vstake
    BY <1>0, RowChanges
  <1> QED BY <1>3, <1>7, <1>8 DEF LifeInv

\* Lamports that arrive change nothing else of an account of the pool.
LEMMA DonatedShape ==
  ASSUME NEW a \in Account, NEW d \in Nat, Shape(a), a.mine
  PROVE  LET b == [a EXCEPT !.lamports = @ + d]
         IN Shape(b) /\ b.kind = a.kind /\ b.stake = a.stake
  <1> DEFINE n == a.lamports + d
             b == [a EXCEPT !.lamports = n]
  <1>1. n \in Nat /\ a.lamports \in Nat /\ a.stake \in Nat /\ n >= a.lamports
    BY DEF Account
  <1>2. a.kind = "stake" => a.stake + Rent <= n
    BY <1>1, Constants DEF Shape
  <1>3. a.mine = TRUE
    BY Zenon DEF Account
  <1> HIDE DEF n
  <1>4. b.kind = a.kind /\ b.stake = a.stake /\ b.mine = a.mine /\ b.lamports = n
    BY <1>1 DEF Account
  <1> HIDE DEF b
  <1>5. Shape(b)
    BY <1>2, <1>3, <1>4 DEF Shape
  <1> QED BY <1>4, <1>5 DEF b, n

\* A cluster restart takes the delegation away.
LEMMA DestakedShape ==
  ASSUME NEW a \in Account, Shape(a), "destake" \in Events
  PROVE  Shape(Destaked(a)) /\ Destaked(a).kind # "stake"
  <1>1. CASE a.kind = "stake"
    <2> DEFINE l == a.lamports
    <2>1. a.mine = TRUE
      BY <1>1, ShapeFacts
    <2>2. Destaked(a) = Initialized(l, TRUE)
      BY <1>1, <2>1 DEF Destaked
    <2>3. Initialized(l, TRUE).kind = "initialized" /\ Initialized(l, TRUE).mine = TRUE
      BY DEF Initialized, Unallocated
    <2> QED BY <2>2, <2>3 DEF Shape
  <1>2. CASE a.kind # "stake"
    BY <1>2 DEF Destaked
  <1> QED BY <1>1, <1>2

\* Prefunding, and taking over an emptied address.
LEMMA OutsideShapes ==
  /\ "prefund" \in Events => \A d \in Prefunds : Shape(Unallocated(d))
  /\ "hijack" \in Events => \A mine \in BOOLEAN :
       Shape(Initialized(Rent, mine)) /\ Initialized(Rent, mine).kind = "initialized"
  <1>1. ASSUME NEW d \in Prefunds
        PROVE  /\ Unallocated(d).kind = "none" /\ Unallocated(d).mine = FALSE
               /\ SmallPrefunds => Unallocated(d).lamports < Rent + StakeMinimum
    BY <1>1 DEF Unallocated, SmallPrefunds
  <1>2. ASSUME NEW mine \in BOOLEAN PROVE Initialized(Rent, mine).kind = "initialized"
    BY DEF Initialized, Unallocated
  <1> QED BY <1>1, <1>2 DEF Shape

\* Whatever third parties and cluster restarts do to the accounts.
LEMMA OutsidersLife ==
  ASSUME LifecycleInv, Outsiders
  PROVE  LifeInv'
  <1> USE DEF Environment, feeVars
  <1>0. PoolInv /\ epoch \in Nat
    BY DEF LifecycleInv, PoolInv, FeeInv, FeeTypeOK
  <1>1. CASE \/ \E d \in Donations : DonateToReserve(d)
             \/ \E h \in Holders, a \in WithdrawAmounts : BurnTokens(h, a)
    BY <1>1, QuietLife DEF DonateToReserve, BurnTokens, stakeVars
  <1>2. ASSUME NEW v \in Validators, NEW d \in Donations, DonateToValidator(v, d)
        PROVE  LifeInv'
    <2> DEFINE a == [vstake[v] EXCEPT !.lamports = @ + d]
    <2>1. d \in Nat /\ vstake[v] \in Account /\ vstake[v].mine
      BY <1>0, <1>2, EntryFacts, PoolAssumption DEF DonateToValidator
    <2>2. Shape(a) /\ a.kind = vstake[v].kind
      BY <2>1, RowFacts, DonatedShape
    <2>3. vstake' = [vstake EXCEPT ![v] = a] /\ UNCHANGED <<list, tstake, epoch>>
          /\ drained' = {} /\ "donate" \in Events
      BY <1>2 DEF DonateToValidator
    <2> HIDE DEF a
    <2>4. Absorbable(list[v], a) /\ Alive(list[v], a) /\ Exact(list[v], a, epoch)
      BY <2>2, <2>3, RowFacts DEF Absorbable, Alive, Exact
    <2> QED BY <2>2, <2>3, <2>4, ValidatorAccountLife
  <1>3. ASSUME NEW v \in Validators, NEW d \in Donations, DonateToTransient(v, d)
        PROVE  LifeInv'
    <2> DEFINE s == list[v].seed
               a == [tstake[v][s] EXCEPT !.lamports = @ + d]
    <2>0. s \in Seeds /\ tstake[v][s] \in Account
      BY <1>0, EntryFacts
    <2>1. d \in Nat /\ tstake[v][s].mine
      BY <1>3, PoolAssumption DEF DonateToTransient, Transient
    <2>2. Shape(a) /\ a.kind = tstake[v][s].kind /\ a.stake = tstake[v][s].stake
      BY <2>0, <2>1, RowFacts, DonatedShape
    <2>3. tstake' = [tstake EXCEPT ![v][s] = a] /\ UNCHANGED <<list, vstake, epoch>>
          /\ drained' = {}
      BY <1>3 DEF DonateToTransient
    <2> HIDE DEF a
    <2> QED BY <2>0, <2>2, <2>3, TransientAccountLife
  <1>4. ASSUME NEW v \in Validators, DeactivateDelinquent(v) PROVE LifeInv'
    <2> DEFINE a == Deactivated(vstake[v], epoch)
    <2>1. vstake[v] \in Account /\ Shape(a)
      BY <1>0, EntryFacts, RowFacts, DeactivatedShape
    <2>2. a.kind = vstake[v].kind /\ a.lamports = vstake[v].lamports
      BY <2>1 DEF Deactivated, Account
    <2>3. vstake' = [vstake EXCEPT ![v] = a] /\ UNCHANGED <<list, tstake, epoch>>
          /\ drained' = {}
      BY <1>4 DEF DeactivateDelinquent
    <2> HIDE DEF a
    <2>4. Absorbable(list[v], a) /\ Alive(list[v], a) /\ Exact(list[v], a, epoch)
      BY <2>2, RowFacts DEF Absorbable, Alive, Exact
    <2> QED BY <2>1, <2>3, <2>4, ValidatorAccountLife
  <1>5. ASSUME NEW v \in Validators, DeactivateDelinquentTransient(v) PROVE LifeInv'
    <2> DEFINE s == list[v].seed
               a == Deactivated(tstake[v][s], epoch)
    <2>0. s \in Seeds /\ tstake[v][s] \in Account
      BY <1>0, EntryFacts
    <2>1. Shape(a)
      BY <1>0, <2>0, RowFacts, DeactivatedShape
    <2>2. a.kind = tstake[v][s].kind /\ a.stake = tstake[v][s].stake
      BY <2>0 DEF Deactivated, Account
    <2>3. tstake' = [tstake EXCEPT ![v][s] = a] /\ UNCHANGED <<list, vstake, epoch>>
          /\ drained' = {}
      BY <1>5 DEF DeactivateDelinquentTransient
    <2> HIDE DEF a
    <2> QED BY <2>0, <2>1, <2>2, <2>3, TransientAccountLife
  <1>6. ASSUME NEW v \in Validators, ForceDestake(v) PROVE LifeInv'
    <2> DEFINE a == Destaked(vstake[v])
               ts == [s \in Seeds |-> Destaked(tstake[v][s])]
    <2>0. /\ vstake[v] \in Account /\ tstake[v] \in [Seeds -> Account]
          /\ "destake" \in Events
      BY <1>0, <1>6, EntryFacts DEF ForceDestake
    <2>1. Shape(a) /\ a.kind # "stake"
      BY <2>0, RowFacts, DestakedShape
    <2>2. \A s \in Seeds : Shape(ts[s]) /\ ts[s].kind # "stake"
      BY <2>0, RowFacts, DestakedShape
    <2>3. a.lamports = vstake[v].lamports
      BY DEF Destaked, Initialized, Unallocated
    <2>4. /\ tstake' = [tstake EXCEPT ![v] = ts] /\ vstake' = [vstake EXCEPT ![v] = a]
          /\ list' = list /\ epoch' = epoch /\ drained' = {} /\ "destake" \in Events
      BY <1>0, <1>6 DEF ForceDestake, PoolInv, StakeInv, StakeOK
    <2> HIDE DEF a, ts
    <2>5. Row(list[v], a, ts, epoch)
      <3>1. Absorbable(list[v], a) /\ Alive(list[v], a) /\ Tracked(list[v], ts, epoch)
        BY <2>1, <2>2, <2>4 DEF Absorbable, Alive, Tracked
      <3>2. Exact(list[v], a, epoch)
        BY <2>3, RowFacts DEF Exact
      <3> QED BY <2>1, <2>2, <3>1, <3>2 DEF Row
    <2>6. LifeOK([list EXCEPT ![v] = list[v]], [vstake EXCEPT ![v] = a],
                 [tstake EXCEPT ![v] = ts], epoch, {})
      BY <2>5, RowStep
    <2>7. [list EXCEPT ![v] = list[v]] = list
      BY <1>0 DEF PoolInv, StakeInv, StakeOK
    <2> QED BY <2>4, <2>6, <2>7 DEF LifeInv
  <1>7. ASSUME NEW v \in Validators, NEW d \in Prefunds, PrefundValidator(v, d)
        PROVE  LifeInv'
    <2> DEFINE a == Unallocated(d)
    <2>1. /\ vstake[v].kind = "none" /\ "prefund" \in Events /\ drained' = {}
          /\ vstake' = [vstake EXCEPT ![v] = a] /\ UNCHANGED <<list, tstake, epoch>>
      BY <1>7 DEF PrefundValidator, Unallocated
    <2>2. Shape(a)
      BY <2>1, OutsideShapes
    <2>3. a.kind = "none"
      BY DEF Unallocated
    <2> HIDE DEF a
    <2>4. Absorbable(list[v], a) /\ Alive(list[v], a) /\ Exact(list[v], a, epoch)
      BY <2>1, <2>3, RowFacts DEF Absorbable, Alive, Exact
    <2> QED BY <2>1, <2>2, <2>4, ValidatorAccountLife
  <1>8. ASSUME NEW v \in Validators, NEW s \in Seeds, NEW d \in Prefunds, Prefund(v, s, d)
        PROVE  LifeInv'
    <2> DEFINE a == Unallocated(d)
    <2>1. /\ "prefund" \in Events /\ drained' = {}
          /\ tstake' = [tstake EXCEPT ![v][s] = a] /\ UNCHANGED <<list, vstake, epoch>>
      BY <1>8 DEF Prefund
    <2>2. Shape(a) /\ a.kind = "none"
      BY <2>1, OutsideShapes DEF Unallocated
    <2> HIDE DEF a
    <2> QED BY <2>1, <2>2, TransientAccountLife
  <1>9. ASSUME NEW v \in Validators, NEW mine \in BOOLEAN, HijackValidator(v, mine)
        PROVE  LifeInv'
    <2> DEFINE a == Initialized(Rent, mine)
    <2>1. /\ "hijack" \in Events /\ <<v, NoValidator>> \in drained
          /\ drained' = drained \ {<<v, NoValidator>>}
          /\ vstake' = [vstake EXCEPT ![v] = a] /\ UNCHANGED <<list, tstake, epoch>>
      BY <1>9 DEF HijackValidator
    <2>2. vstake[v].kind = "none"
      BY <2>1, RowFacts
    <2>3. Shape(a) /\ a.kind = "initialized"
      BY <2>1, OutsideShapes
    <2> HIDE DEF a
    <2>4. Absorbable(list[v], a) /\ Alive(list[v], a) /\ Exact(list[v], a, epoch)
      BY <2>1, <2>2, <2>3, RowFacts DEF Absorbable, Alive, Exact
    <2> QED BY <2>1, <2>3, <2>4, ValidatorAccountLife
  <1>10. ASSUME NEW v \in Validators, NEW s \in Seeds, NEW mine \in BOOLEAN,
                HijackTransient(v, s, mine)
         PROVE  LifeInv'
    <2> DEFINE a == Initialized(Rent, mine)
    <2>1. /\ "hijack" \in Events /\ drained' \subseteq drained
          /\ tstake' = [tstake EXCEPT ![v][s] = a] /\ UNCHANGED <<list, vstake, epoch>>
      BY <1>10 DEF HijackTransient
    <2>2. Shape(a) /\ a.kind = "initialized"
      BY <2>1, OutsideShapes
    <2> HIDE DEF a
    <2> QED BY <2>1, <2>2, TransientAccountLife
  <1> QED BY <1>1, <1>2, <1>3, <1>4, <1>5, <1>6, <1>7, <1>8, <1>9, <1>10 DEF Outsiders

\* DistributeRewards: no entry is up to date while rewards are paid out, so no
\* record is wrong afterwards that claims to be exact.
LEMMA RewardsLife ==
  ASSUME LifecycleInv, NEW W \in SUBSET Validators, NEW r \in Nat, DistributeRewards(W, r)
  PROVE  LifeInv'
  <1> DEFINE v1 == [v \in Validators |-> IF v \in W THEN Earned(vstake[v], r) ELSE vstake[v]]
             t1 == [v \in Validators |-> [s \in Seeds |->
                      IF v \in W THEN Earned(tstake[v][s], r) ELSE tstake[v][s]]]
  <1>1. ASSUME NEW a \in Account, Shape(a)
        PROVE  Shape(Earned(a, r)) /\ Earned(a, r).kind = a.kind
    <2> DEFINE n == a.lamports + r
               k == a.stake + r
               b == [a EXCEPT !.lamports = n, !.stake = k]
    <2>1. CASE Earned(a, r) = a
      BY <1>1, <2>1
    <2>2. CASE Earned(a, r) = b /\ a.kind = "stake"
      <3>1. a.stake + Rent <= a.lamports /\ a.mine = TRUE
        BY <1>1, <2>2, ShapeFacts
      <3>2. n \in Nat /\ k \in Nat /\ k + Rent <= n
        BY <3>1, Constants DEF Account
      <3> HIDE DEF n, k
      <3>3. b.kind = "stake" /\ b.mine = TRUE /\ b.stake = k /\ b.lamports = n
        BY <2>2, <3>1, <3>2 DEF Account
      <3> QED BY <2>2, <3>2, <3>3, StakeShape
    <2> QED BY <2>1, <2>2 DEF Earned, Effective
  <1>2. /\ vstake' = v1 /\ tstake' = t1 /\ list' = list /\ epoch' = epoch /\ drained' = {}
        /\ rewards_active
    BY DEF DistributeRewards, feeVars
  <1>3. ASSUME NEW v \in Validators PROVE Row(list[v], v1[v], t1[v], epoch)
    <2>1. PoolInv /\ vstake[v] \in Account /\ tstake[v] \in [Seeds -> Account]
      BY EntryFacts DEF LifecycleInv
    <2>2. Shape(v1[v]) /\ v1[v].kind = vstake[v].kind
      BY <1>1, <2>1, RowFacts
    <2>3. \A s \in Seeds : Shape(t1[v][s]) /\ t1[v][s].kind = tstake[v][s].kind
      BY <1>1, <2>1, RowFacts
    <2> HIDE DEF v1, t1
    <2>4. Listed(v) => list[v].last_update # epoch
      <3>1. Listed(v) => list[v].last_update < epoch
        BY <1>2 DEF LifecycleInv, ClockInv
      <3> QED BY <3>1, <2>1, EntryFacts, RowFacts
    <2>5. list[v].transient > 0 => Listed(v)
      BY <2>1, EntryFacts DEF RecordOK, Listed
    <2>6. Tracked(list[v], t1[v], epoch)
      BY <2>3, <2>4, <2>5, RowFacts DEF Tracked
    <2>7. Absorbable(list[v], v1[v]) /\ Alive(list[v], v1[v])
      BY <2>2, RowFacts DEF Absorbable, Alive
    <2>8. Exact(list[v], v1[v], epoch)
      BY <2>4 DEF Exact, Listed
    <2> QED BY <2>2, <2>3, <2>6, <2>7, <2>8 DEF Row
  <1> HIDE DEF v1, t1
  <1>4. LifeOK(list, v1, t1, epoch, {})
    BY <1>3 DEF LifeOK
  <1> QED BY <1>2, <1>4 DEF LifeInv

\* NewEpoch: no entry is up to date any more.
LEMMA NewEpochLife ==
  ASSUME LifecycleInv, NewEpoch
  PROVE  LifeInv'
  <1>1. epoch' = epoch + 1 /\ UNCHANGED <<list, vstake, tstake>> /\ drained' = {}
    BY DEF NewEpoch, AdvanceClock, stakeVars
  <1>2. ASSUME NEW v \in Validators PROVE Row(list[v], vstake[v], tstake[v], epoch + 1)
    <2>1. epoch \in Nat
      BY EntryFacts DEF LifecycleInv
    <2>2. list[v].last_update # epoch + 1
      <3>1. list[v].last_update \in Nat /\ list[v].last_update <= epoch
        BY RowFacts
      <3> QED BY <2>1, <3>1
    <2>3. Tracked(list[v], tstake[v], epoch + 1) /\ Exact(list[v], vstake[v], epoch + 1)
      BY <2>2, RowFacts DEF Tracked, Exact
    <2> QED BY <2>3, RowFacts DEF Row
  <1>3. LifeOK(list, vstake, tstake, epoch + 1, {})
    BY <1>2 DEF LifeOK
  <1> QED BY <1>1, <1>3 DEF LifeInv

\* Every step preserves LifeInv.
LEMMA LifeStep ==
  ASSUME LifecycleInv, [Next]_vars
  PROVE  LifeInv'
  <1>0. MoveAmounts \subseteq Nat /\ WithdrawAmounts \subseteq Nat /\ Rewards \subseteq Nat
    BY PoolAssumption
  <1>1. ASSUME NEW v \in Validators, Staker(v) PROVE LifeInv'
    <2>1. CASE \E o \in Options : SetPreferredValidator(o, v)
      BY <2>1, QuietLife DEF SetPreferredValidator, feeVars
    <2> QED BY <1>0, <1>1, <2>1, AddLife, RemoveLife, DecreaseValidatorLife,
               DecreaseAdditionalLife, IncreaseLife
            DEF Staker
  <1>2. CASE \E o \in Options : SetPreferredValidator(o, NoValidator)
    BY <1>2, QuietLife DEF SetPreferredValidator, feeVars
  <1>3. CASE User
    <2>1. ASSUME NEW l, DepositSol(l) PROVE LifeInv'
      BY <2>1, QuietLife DEF DepositSol, feeVars
    <2>2. ASSUME NEW h, NEW a, WithdrawSol(h, a) \/ WithdrawStakeFromReserve(h, a)
          PROVE  LifeInv'
      BY <2>2, QuietLife DEF WithdrawSol, WithdrawStakeFromReserve, feeVars
    <2> QED BY <1>0, <1>3, <2>1, <2>2, DepositStakeLife, WithdrawActiveLife,
               WithdrawTransientLife, WithdrawWholeLife
            DEF User
  <1>4. CASE Manager
    BY <1>4, QuietLife DEF Manager, ChangeFees, SetFee, SetReferralFee, SetMaxValidatorStake,
       CloseFeeAccount, ReplaceFeeAccount, feeVars
  <1>5. CASE Crank
    <2>1. CASE UpdateStakePoolBalance
      BY <2>1, QuietLife DEF UpdateStakePoolBalance, AdvanceFees
    <2> QED BY <1>5, <2>1, UpdateLife, CleanupLife DEF Crank
  <1>6. CASE Cluster
    BY <1>0, <1>6, NewEpochLife, RewardsLife DEF Cluster
  <1>7. CASE UNCHANGED vars
    BY <1>7, QuietLife DEF vars, feeVars
  <1> QED BY <1>1, <1>2, <1>3, <1>4, <1>5, <1>6, <1>7, OutsidersLife DEF Next
----------------------------------------------------------------------------
\* A step that changes neither the status nor the time of any entry.
Calm ==
  /\ \A v \in Validators :
       /\ list'[v].status = list[v].status
       /\ list'[v].last_update = list[v].last_update
  /\ \/ UNCHANGED preferred
     \/ \E o \in Options, p \in Validators \cup {NoValidator} : SetPreferredValidator(o, p)
  /\ \/ NewEpoch \/ UpdateStakePoolBalance
     \/ UNCHANGED <<epoch, last_update_epoch>> /\ rewards_active' \in {rewards_active, FALSE}

\* Statuses and times are changed by five instructions only.
LEMMA ListChanges ==
  ASSUME PoolInv, [Next]_vars
  PROVE  \/ \E v \in Validators :
              \/ AddValidatorToPool(v) \/ RemoveValidatorFromPool(v)
              \/ \E h \in Holders, a \in WithdrawAmounts : WithdrawWholeValidator(v, h, a)
              \/ \E no_merge \in BOOLEAN : UpdateValidatorListBalance(v, no_merge)
         \/ \E writable \in BOOLEAN : CleanupRemovedValidatorEntries(writable)
         \/ Calm
  <1>0. list \in [Validators -> Entry]
    BY DEF PoolInv, StakeInv, StakeOK
  <1>1. ASSUME UNCHANGED <<feeVars, list, preferred>>, rewards_active' \in {rewards_active, FALSE}
        PROVE  Calm
    BY <1>1 DEF Calm, feeVars
  <1>2. ASSUME NEW v \in Validators, NEW e, e.last_update = list[v].last_update,
               e.status = list[v].status, list' = [list EXCEPT ![v] = e],
               UNCHANGED <<feeVars, configVars, rewards_active>>
        PROVE  Calm
    <2>1. \A w \in Validators : list'[w].last_update = list[w].last_update
                                /\ list'[w].status = list[w].status
      BY <1>0, <1>2
    <2> QED BY <1>2, <2>1 DEF Calm, feeVars, configVars
  <1>3. ASSUME NEW o \in Options, NEW p \in Validators \cup {NoValidator},
               SetPreferredValidator(o, p)
        PROVE  Calm
    <2>1. UNCHANGED <<epoch, last_update_epoch, list, rewards_active>>
      BY <1>3 DEF SetPreferredValidator, stakeVars, feeVars
    <2> QED BY <1>3, <2>1 DEF Calm
  <1>4. ASSUME NEW v \in Validators, Staker(v)
        PROVE  AddValidatorToPool(v) \/ RemoveValidatorFromPool(v) \/ Calm
    <2>1. ASSUME NEW l, NEW s, NEW source, NEW target, NEW lent,
                 RecordDecrease(v, l, s, source, target, lent)
          PROVE  Calm
      <3> DEFINE n == list[v].active - l
                 e == [list[v] EXCEPT !.active = n, !.transient = target.lamports, !.seed = s]
      <3>1. list' = [list EXCEPT ![v] = e]
        BY <1>0, <2>1 DEF RecordDecrease
      <3> HIDE DEF n
      <3>2. e.last_update = list[v].last_update /\ e.status = list[v].status
        BY <1>0 DEF Entry
      <3> HIDE DEF e
      <3> QED BY <1>2, <2>1, <3>1, <3>2 DEF RecordDecrease
    <2>2. ASSUME NEW l, NEW s, NEW fund, DecreaseValidatorStake(v, l, s, fund) PROVE Calm
      BY <2>1, <2>2 DEF DecreaseValidatorStake
    <2>3. ASSUME NEW l, NEW s, DecreaseAdditionalValidatorStake(v, l, s) PROVE Calm
      BY <2>1, <2>3 DEF DecreaseAdditionalValidatorStake
    <2>4. ASSUME NEW l, NEW s, NEW ephemeral, IncreaseValidatorStake(v, l, s, ephemeral)
          PROVE  Calm
      <3> DEFINE n == list[v].transient + (l + Rent)
                 e == [list[v] EXCEPT !.transient = n, !.seed = s]
      <3>1. list' = [list EXCEPT ![v] = e]
        BY <1>0, <2>4 DEF IncreaseValidatorStake
      <3> HIDE DEF n
      <3>2. e.last_update = list[v].last_update /\ e.status = list[v].status
        BY <1>0 DEF Entry
      <3> QED BY <1>2, <2>4, <3>1, <3>2 DEF IncreaseValidatorStake
    <2> QED BY <1>3, <1>4, <2>2, <2>3, <2>4 DEF Staker
  <1>5. CASE User
    <2>1. ASSUME NEW v \in Validators, NEW n, list' = [list EXCEPT ![v].active = n],
                 UNCHANGED <<feeVars, configVars, rewards_active>>
          PROVE  Calm
      <3> DEFINE e == [list[v] EXCEPT !.active = n]
      <3>1. e.last_update = list[v].last_update /\ e.status = list[v].status
        BY <1>0 DEF Entry
      <3>2. list' = [list EXCEPT ![v] = e]
        BY <1>0, <2>1
      <3> QED BY <1>2, <2>1, <3>1, <3>2
    <2>2. ASSUME NEW l, DepositSol(l) PROVE Calm
      BY <1>1, <2>2 DEF DepositSol, stakeVars, configVars
    <2>3. ASSUME NEW h, NEW a, WithdrawSol(h, a) \/ WithdrawStakeFromReserve(h, a) PROVE Calm
      BY <1>1, <2>3 DEF WithdrawSol, WithdrawStakeFromReserve, stakeVars, configVars
    <2>4. ASSUME NEW v \in Validators, NEW u, DepositStake(v, u) PROVE Calm
      BY <2>1, <2>4 DEF DepositStake
    <2>5. ASSUME NEW v \in Validators, NEW h, NEW a, WithdrawActiveStake(v, h, a) PROVE Calm
      <3> DEFINE n == list[v].active - WithdrawLamports("stake_withdrawal", h, a)
      <3>1. list' = [list EXCEPT ![v].active = n]
        BY <1>0, <2>5 DEF WithdrawActiveStake
      <3> QED BY <2>1, <2>5, <3>1 DEF WithdrawActiveStake
    <2>6. ASSUME NEW v \in Validators, NEW h, NEW a, WithdrawTransientStake(v, h, a) PROVE Calm
      <3> DEFINE n == list[v].transient - WithdrawLamports("stake_withdrawal", h, a)
                 e == [list[v] EXCEPT !.transient = n]
      <3>1. list' = [list EXCEPT ![v] = e]
        BY <1>0, <2>6 DEF WithdrawTransientStake
      <3> HIDE DEF n
      <3>2. e.last_update = list[v].last_update /\ e.status = list[v].status
        BY <1>0 DEF Entry
      <3> QED BY <1>2, <2>6, <3>1, <3>2 DEF WithdrawTransientStake
    <2> QED BY <1>5, <2>2, <2>3, <2>4, <2>5, <2>6 DEF User
  <1>6. CASE Manager
    <2>1. UNCHANGED <<epoch, last_update_epoch, list, preferred, rewards_active>>
      BY <1>6 DEF Manager, ChangeFees, SetFee, SetReferralFee, SetMaxValidatorStake,
         CloseFeeAccount, ReplaceFeeAccount, feeVars, stakeVars, configVars
    <2> QED BY <2>1 DEF Calm
  <1>7. CASE UpdateStakePoolBalance \/ NewEpoch
    <2>1. UNCHANGED <<list, preferred>>
      BY <1>7 DEF UpdateStakePoolBalance, NewEpoch, stakeVars, configVars
    <2> QED BY <1>7, <2>1 DEF Calm
  <1>8. ASSUME NEW W, NEW r, DistributeRewards(W, r) PROVE Calm
    BY <1>1, <1>8 DEF DistributeRewards, configVars
  <1>9. CASE Outsiders
    BY <1>1, <1>9
       DEF Outsiders, DonateToReserve, DonateToValidator, DonateToTransient,
       PrefundValidator, Prefund, DeactivateDelinquent, DeactivateDelinquentTransient,
       ForceDestake, HijackValidator, HijackTransient, BurnTokens, Environment, stakeVars,
       configVars
  <1>10. CASE UNCHANGED vars
    BY <1>1, <1>10 DEF vars, stakeVars, configVars
  <1> QED BY <1>3, <1>4, <1>5, <1>6, <1>7, <1>8, <1>9, <1>10 DEF Next, Cluster, Crank

\* Steps that leave the clock and the times of the entries alone.
LEMMA QuietClock ==
  ASSUME LifecycleInv, UNCHANGED <<epoch, last_update_epoch>>,
         rewards_active' \in {rewards_active, FALSE},
         \A v \in Validators :
           /\ list'[v].last_update = list[v].last_update
           /\ list'[v].status # "NotListed" => list[v].status # "NotListed"
  PROVE  ClockInv'
  <1>1. rewards_active' => rewards_active
    BY Zenon
  <1>2. ClockInv
    BY DEF LifecycleInv
  <1>3. ASSUME NEW v \in Validators
        PROVE  /\ list'[v].last_update <= epoch
               /\ Listed(v)' /\ rewards_active' => list'[v].last_update < epoch
               /\ Listed(v)' /\ UpToDate => list'[v].last_update = epoch
    <2>1. /\ list[v].last_update <= epoch
          /\ Listed(v) /\ rewards_active => list[v].last_update < epoch
          /\ Listed(v) /\ UpToDate => list[v].last_update = epoch
      BY <1>2 DEF ClockInv
    <2>2. list'[v].last_update = list[v].last_update /\ (Listed(v)' => Listed(v))
      BY DEF Listed
    <2> QED BY <1>1, <2>1, <2>2, Zenon
  <1>4. epoch <= MaxEpoch /\ last_update_epoch <= epoch
    BY <1>2 DEF ClockInv
  <1>5. (UpToDate' <=> UpToDate) /\ epoch' = epoch /\ last_update_epoch' = last_update_epoch
    BY DEF UpToDate
  <1> QED BY <1>3, <1>4, <1>5, Zenon DEF ClockInv

\* Steps that bring the entry of v up to date.
LEMMA FreshClock ==
  ASSUME LifecycleInv, NEW v \in Validators, NEW e, e.last_update = epoch, ~rewards_active,
         list' = [list EXCEPT ![v] = e], UNCHANGED <<feeVars, rewards_active>>
  PROVE  ClockInv'
  <1>0. epoch \in Nat /\ list \in [Validators -> Entry]
    BY DEF LifecycleInv, PoolInv, FeeInv, FeeTypeOK, StakeInv, StakeOK
  <1>1. list'[v] = e /\ \A w \in Validators \ {v} : list'[w] = list[w]
    BY <1>0
  <1>2. epoch' = epoch /\ last_update_epoch' = last_update_epoch
    BY DEF feeVars
  <1>3. ASSUME NEW w \in Validators
        PROVE  /\ list'[w].last_update <= epoch
               /\ Listed(w)' /\ UpToDate => list'[w].last_update = epoch
    <2>1. CASE w = v
      BY <1>0, <1>1, <2>1
    <2>2. CASE w # v
      BY <1>1, <2>2 DEF LifecycleInv, ClockInv, Listed
    <2> QED BY <2>1, <2>2
  <1> QED BY <1>2, <1>3 DEF LifecycleInv, ClockInv, UpToDate

\* Every step preserves ClockInv.
LEMMA ClockStep ==
  ASSUME LifecycleInv, [Next]_vars
  PROVE  ClockInv'
  <1>0. /\ PoolInv /\ list \in [Validators -> Entry]
        /\ epoch \in Nat /\ last_update_epoch \in Nat
    BY DEF LifecycleInv, PoolInv, FeeInv, FeeTypeOK, StakeInv, StakeOK
  <1>1. \A v \in Validators : list[v].last_update \in Nat /\ list[v].last_update <= epoch
    BY RowFacts
  <1>2. ASSUME NEW v \in Validators, AddValidatorToPool(v) PROVE ClockInv'
    <2> DEFINE e == [NotListed EXCEPT !.active = MinimumStakeLamports, !.last_update = epoch,
                                      !.status = "Active"]
    <2>1. e.last_update = epoch
      BY DEF NotListed
    <2> QED BY <1>2, <2>1, FreshClock DEF AddValidatorToPool, StakeProgramOpen
  <1>3. ASSUME NEW v \in Validators, NEW no_merge \in BOOLEAN,
               UpdateValidatorListBalance(v, no_merge)
        PROVE  ClockInv'
    <2> DEFINE u == UpdateEntry(v, no_merge)
               e == [list[v] EXCEPT !.status = u.status, !.active = u.active,
                                    !.transient = u.found, !.last_update = epoch]
    <2>1. list' = [list EXCEPT ![v] = e]
      BY <1>0, <1>3 DEF UpdateValidatorListBalance
    <2> HIDE DEF u
    <2>2. e.last_update = epoch
      BY <1>0 DEF Entry
    <2> QED BY <1>3, <2>1, <2>2, FreshClock
            DEF UpdateValidatorListBalance, RewardsPaidOut, StakeProgramOpen
  <1>4. ASSUME NEW v \in Validators, NEW e, e.last_update = list[v].last_update, IsActive(v),
               list' = [list EXCEPT ![v] = e], UNCHANGED <<feeVars, rewards_active>>
        PROVE  ClockInv'
    <2>1. \A w \in Validators :
            /\ list'[w].last_update = list[w].last_update
            /\ list'[w].status # "NotListed" => list[w].status # "NotListed"
      BY <1>0, <1>4 DEF IsActive
    <2> QED BY <1>4, <2>1, QuietClock DEF feeVars
  <1>5. ASSUME NEW v \in Validators, RemoveValidatorFromPool(v) PROVE ClockInv'
    <2> DEFINE status == IF list[v].transient > 0 THEN "DeactivatingAll" ELSE "DeactivatingValidator"
               e == [list[v] EXCEPT !.status = status]
    <2>1. e.last_update = list[v].last_update
      BY <1>0 DEF Entry
    <2>2. list' = [list EXCEPT ![v] = e]
      BY <1>0, <1>5 DEF RemoveValidatorFromPool
    <2> QED BY <1>4, <1>5, <2>1, <2>2 DEF RemoveValidatorFromPool
  <1>6. ASSUME NEW v \in Validators, NEW h, NEW a, WithdrawWholeValidator(v, h, a)
        PROVE  ClockInv'
    <2> DEFINE e == [list[v] EXCEPT !.active = 0, !.status = "ReadyForRemoval"]
    <2>1. list' = [list EXCEPT ![v] = e]
      BY <1>0, <1>6 DEF WithdrawWholeValidator
    <2>2. e.last_update = list[v].last_update
      BY <1>0 DEF Entry
    <2> QED BY <1>4, <1>6, <2>1, <2>2 DEF WithdrawWholeValidator
  <1>7. ASSUME NEW writable, CleanupRemovedValidatorEntries(writable) PROVE ClockInv'
    <2>1. \A v \in Validators : list'[v] = list[v] \/ list'[v] = NotListed
      BY <1>7 DEF CleanupRemovedValidatorEntries
    <2>2. NotListed.status = "NotListed" /\ NotListed.last_update = 0
      BY DEF NotListed
    <2>3. UNCHANGED <<epoch, last_update_epoch, rewards_active>>
      BY <1>7 DEF CleanupRemovedValidatorEntries, feeVars
    <2> QED BY <1>0, <2>1, <2>2, <2>3 DEF LifecycleInv, ClockInv, Listed, UpToDate
  <1>8. CASE UpdateStakePoolBalance
    <2>1. /\ UNCHANGED <<epoch, list, rewards_active>>
          /\ last_update_epoch' \in {last_update_epoch, epoch}
      BY <1>8 DEF UpdateStakePoolBalance, AdvanceFees, stakeVars
    <2>2. \A v \in Validators : Listed(v) => list[v].last_update >= epoch
      BY <1>8 DEF UpdateStakePoolBalance, AllFresh
    <2>3. \A v \in Validators : Listed(v) => list[v].last_update = epoch
      BY <1>0, <1>1, <2>2
    <2> QED BY <1>0, <2>1, <2>3 DEF LifecycleInv, ClockInv, Listed
  <1>9. CASE NewEpoch
    <2>1. /\ epoch' = epoch + 1 /\ epoch < MaxEpoch
          /\ UNCHANGED <<last_update_epoch, list>>
      BY <1>9 DEF NewEpoch, AdvanceClock, stakeVars
    <2>2. epoch + 1 <= MaxEpoch /\ last_update_epoch < epoch + 1
      BY <1>0, <2>1, FeeAssumption DEF LifecycleInv, ClockInv
    <2>3. \A v \in Validators : list[v].last_update < epoch + 1
      BY <1>0, <1>1
    <2> QED BY <1>0, <1>1, <2>1, <2>2, <2>3 DEF ClockInv, Listed, UpToDate
  <1>10. CASE Calm
    BY <1>8, <1>9, <1>10, QuietClock DEF Calm
  <1> QED BY <1>0, <1>2, <1>3, <1>5, <1>6, <1>7, <1>10, ListChanges

\* LifecycleInv is inductive.
LEMMA LifecycleInit == Init => LifecycleInv
  <1> SUFFICES ASSUME Init PROVE LifecycleInv
    OBVIOUS
  <1>1. NotListed.status = "NotListed" /\ NotListed.last_update = 0
    BY DEF NotListed
  <1>2. Row(NotListed, Unallocated(0), [s \in Seeds |-> Unallocated(0)], epoch)
    BY <1>1, EmptyShape DEF Row, Absorbable, Alive, Tracked, Exact
  <1>3. LifeInv
    BY <1>2, EmptyShape DEF Init, LifeInv, LifeOK
  <1>4. ClockInv
    BY <1>1, FeeAssumption DEF Init, FeeInit, ClockInv, Listed
  <1> QED BY <1>3, <1>4, PoolInvInit DEF LifecycleInv

\* Every step preserves it.
LEMMA LifecycleStep == LifecycleInv /\ [Next]_vars => LifecycleInv'
  <1> SUFFICES ASSUME LifecycleInv, [Next]_vars PROVE LifecycleInv'
    OBVIOUS
  <1>1. PoolInv'
    BY PoolInvStep DEF LifecycleInv
  <1> QED BY <1>1, LifeStep, ClockStep DEF LifecycleInv

\* LifecycleInv holds in every state.
LEMMA LifecycleHolds == Spec => []LifecycleInv
  BY LifecycleInit, LifecycleStep, PTL DEF Spec

\* Stake that the pool delegated is never forgotten.
THEOREM StakeNeverOrphaned == Spec => []NoOrphanedStake
  <1>1. LifecycleInv => NoOrphanedStake
    BY RowFacts DEF NoOrphanedStake, Absorbable, Tracked
  <1> QED BY <1>1, LifecycleHolds, PTL

\* An entry that is up to date records its validator stake account exactly,
\* unless lamports arrive unannounced.
THEOREM FreshIsExact == Spec => []FreshRecordsExact
  <1>1. LifecycleInv => FreshRecordsExact
    BY RowFacts DEF FreshRecordsExact, Exact, Listed
  <1> QED BY <1>1, LifecycleHolds, PTL
----------------------------------------------------------------------------
\* What a step may do to the status of v: move it towards the removal, take it
\* off the list once nothing is recorded, and make it inactive only if nobody
\* prefers v afterwards.
StatusMoves(v) ==
  /\ Advances(list[v].status, list'[v].status)
  /\ Listed(v) /\ list'[v].status = "NotListed" => StakeLamports(v) = 0
  /\ "destake" \notin Events /\ IsActive(v) /\ list'[v].status # "Active"
       => \A o \in Options : preferred'[o] # v

\* Every step does no more than that.
LEMMA StatusStep ==
  ASSUME LifecycleInv, [Next]_vars, NEW v \in Validators
  PROVE  StatusMoves(v)
  <1>0. PoolInv /\ list \in [Validators -> Entry] /\ list[v].status \in Statuses \cup {"NotListed"}
    BY DEF LifecycleInv, PoolInv, StakeInv, StakeOK, Entry
  <1>1. ASSUME list'[v].status = list[v].status PROVE StatusMoves(v)
    BY <1>1 DEF StatusMoves, Advances, Listed, IsActive
  <1>2. ASSUME NEW w \in Validators, NEW e, list' = [list EXCEPT ![w] = e],
               w = v => StatusMoves(v)
        PROVE  StatusMoves(v)
    <2>1. CASE w = v
      BY <1>2, <2>1
    <2>2. CASE w # v
      BY <1>0, <1>1, <1>2, <2>2
    <2> QED BY <2>1, <2>2
  <1>3. ASSUME NEW w \in Validators, AddValidatorToPool(w) PROVE StatusMoves(v)
    <2> DEFINE e == [NotListed EXCEPT !.active = MinimumStakeLamports, !.last_update = epoch,
                                      !.status = "Active"]
    <2>1. list' = [list EXCEPT ![w] = e] /\ list[w].status = "NotListed"
      BY <1>3 DEF AddValidatorToPool, Listed
    <2>2. e.status = "Active"
      BY DEF NotListed
    <2> HIDE DEF e
    <2>3. ASSUME w = v PROVE StatusMoves(v)
      <3>1. list'[v].status = "Active" /\ list[v].status = "NotListed"
        BY <1>0, <2>1, <2>2, <2>3
      <3> QED BY <3>1 DEF StatusMoves, Advances, Listed
    <2> QED BY <1>2, <2>1, <2>3
  <1>4. ASSUME NEW w \in Validators, NEW e, list' = [list EXCEPT ![w] = e], IsActive(w),
               e.status \in {"DeactivatingAll", "DeactivatingValidator", "ReadyForRemoval"},
               preferred' = PreferredWithout(w)
        PROVE  StatusMoves(v)
    <2>1. ASSUME w = v PROVE StatusMoves(v)
      <3>1. /\ list[v].status = "Active"
            /\ list'[v].status \in {"DeactivatingAll", "DeactivatingValidator", "ReadyForRemoval"}
        BY <1>0, <1>4, <2>1 DEF IsActive
      <3>2. \A o \in Options : preferred'[o] # v
        BY <1>4, <2>1, PoolAssumption DEF PreferredWithout
      <3> QED BY <3>1, <3>2 DEF StatusMoves, Advances, Stage
    <2> QED BY <1>2, <1>4, <2>1
  <1>5. ASSUME NEW w \in Validators, RemoveValidatorFromPool(w) PROVE StatusMoves(v)
    <2> DEFINE status == IF list[w].transient > 0 THEN "DeactivatingAll" ELSE "DeactivatingValidator"
               e == [list[w] EXCEPT !.status = status]
    <2>1. status \in {"DeactivatingAll", "DeactivatingValidator"}
      OBVIOUS
    <2>2. list' = [list EXCEPT ![w] = e]
      BY <1>0, <1>5 DEF RemoveValidatorFromPool
    <2> HIDE DEF status
    <2>3. e.status = status
      BY <1>0 DEF Entry
    <2> QED BY <1>4, <1>5, <2>1, <2>2, <2>3 DEF RemoveValidatorFromPool
  <1>6. ASSUME NEW w \in Validators, NEW h, NEW a, WithdrawWholeValidator(w, h, a)
        PROVE  StatusMoves(v)
    <2> DEFINE e == [list[w] EXCEPT !.active = 0, !.status = "ReadyForRemoval"]
    <2>1. list' = [list EXCEPT ![w] = e]
      BY <1>0, <1>6 DEF WithdrawWholeValidator
    <2>2. e.status = "ReadyForRemoval"
      BY <1>0 DEF Entry
    <2> QED BY <1>4, <1>6, <2>1, <2>2 DEF WithdrawWholeValidator
  <1>7. ASSUME NEW w \in Validators, NEW no_merge \in BOOLEAN,
               UpdateValidatorListBalance(w, no_merge)
        PROVE  StatusMoves(v)
    <2> DEFINE u == UpdateEntry(w, no_merge)
               e == [list[w] EXCEPT !.status = u.status, !.active = u.active,
                                    !.transient = u.found, !.last_update = epoch]
    <2>1. list' = [list EXCEPT ![w] = e] /\ Listed(w)
      BY <1>0, <1>7 DEF UpdateValidatorListBalance
    <2>2. Done(w, u) /\ DoneLife(w, u)
      BY <1>7, UpdateLifeDone DEF UpdateValidatorListBalance
    <2> HIDE DEF u
    <2>3. e.status = u.status
      BY <1>0 DEF Entry
    <2>4. ASSUME w = v PROVE StatusMoves(v)
      <3>1. list'[v].status = u.status
        BY <1>0, <2>1, <2>3, <2>4
      <3>2. list[v].status = "ReadyForRemoval" => StakeLamports(v) = 0
        BY <1>0, EntryFacts DEF RecordOK, StakeLamports
      <3> QED BY <2>1, <2>2, <2>4, <3>1, <3>2
              DEF StatusMoves, DoneLife, Advances, IsActive, Listed
    <2> QED BY <1>2, <2>1, <2>4
  <1>8. ASSUME NEW writable, CleanupRemovedValidatorEntries(writable) PROVE StatusMoves(v)
    <2>1. list'[v] = IF IsRemoved(list[v]) THEN NotListed ELSE list[v]
      BY <1>8 DEF CleanupRemovedValidatorEntries
    <2>2. CASE IsRemoved(list[v])
      <3>1. /\ list'[v].status = "NotListed" /\ list[v].status = "ReadyForRemoval"
            /\ list[v].active = 0 /\ list[v].transient = 0
        BY <2>1, <2>2 DEF IsRemoved, NotListed
      <3> QED BY <3>1 DEF StatusMoves, Advances, Stage, StakeLamports, IsActive
    <2>3. CASE ~IsRemoved(list[v])
      BY <1>1, <2>1, <2>3
    <2> QED BY <2>2, <2>3
  <1>9. CASE Calm
    BY <1>1, <1>9 DEF Calm
  <1> QED BY <1>0, <1>3, <1>5, <1>6, <1>7, <1>8, <1>9, ListChanges

\* An entry only moves towards its removal, and leaves the list with nothing.
THEOREM RemovalAdvances == Spec => RemovalOnlyAdvances
  <1> DEFINE Moves(v) ==
        LET old == list[v].status
            new == list'[v].status
        IN old # new =>
             IF old = "NotListed" THEN new = "Active"
             ELSE /\ Stage(old) < Stage(new)
                  /\ new = "NotListed" => old = "ReadyForRemoval" /\ StakeLamports(v) = 0
  <1>1. LifecycleInv /\ [Next]_vars => [\A v \in Validators : Moves(v)]_vars
    BY StatusStep DEF StatusMoves, Advances, Listed
  <1> QED BY <1>1, LifecycleHolds, PTL DEF Spec, RemovalOnlyAdvances

\* A preferred validator is an active one, unless a cluster restart destakes it.
THEOREM PreferredStaysActive == Spec => []PreferredIsActive
  <1>1. Init => PreferredIsActive
    BY DEF Init, PreferredIsActive
  <1>2. ASSUME LifecycleInv, PreferredIsActive, [Next]_vars PROVE PreferredIsActive'
    <2>0. PoolInv /\ preferred \in [Options -> Validators \cup {NoValidator}]
      BY <1>2 DEF LifecycleInv, PoolInv, ConfigTypes
    <2>1. ASSUME "destake" \notin Events, NEW o \in Options, preferred'[o] # NoValidator,
                 preferred'[o] = preferred[o]
          PROVE  IsActive(preferred[o])'
      <3> DEFINE p == preferred[o]
      <3>1. p \in Validators /\ IsActive(p)
        BY <1>2, <2>0, <2>1 DEF PreferredIsActive
      <3>2. StatusMoves(p)
        BY <1>2, <3>1, StatusStep
      <3> QED BY <2>1, <3>1, <3>2 DEF StatusMoves, IsActive
    <2>2. ASSUME \A o \in Options : preferred'[o] \in {preferred[o], NoValidator}
          PROVE  PreferredIsActive'
      BY <2>1, <2>2 DEF PreferredIsActive
    <2>3. ASSUME NEW o \in Options, NEW p \in Validators \cup {NoValidator},
                 SetPreferredValidator(o, p)
          PROVE  PreferredIsActive'
      BY <1>2, <2>0, <2>3 DEF SetPreferredValidator, PreferredIsActive, IsActive, stakeVars
    <2>4. ASSUME NEW v, AddValidatorToPool(v) PROVE UNCHANGED preferred
      BY <2>4 DEF AddValidatorToPool, configVars
    <2>5. ASSUME NEW v, NEW no_merge, UpdateValidatorListBalance(v, no_merge)
          PROVE  UNCHANGED preferred
      BY <2>5 DEF UpdateValidatorListBalance, configVars
    <2>6. ASSUME NEW v, NEW h, NEW a,
                 RemoveValidatorFromPool(v) \/ WithdrawWholeValidator(v, h, a)
          PROVE  PreferredIsActive'
      BY <2>2, <2>6 DEF RemoveValidatorFromPool, WithdrawWholeValidator, PreferredWithout
    <2>7. ASSUME NEW writable, CleanupRemovedValidatorEntries(writable) PROVE PreferredIsActive'
      BY <2>2, <2>7 DEF CleanupRemovedValidatorEntries
    <2>8. CASE Calm
      BY <2>2, <2>3, <2>8 DEF Calm
    <2> QED BY <1>2, <2>0, <2>2, <2>4, <2>5, <2>6, <2>7, <2>8, ListChanges
  <1> QED BY <1>1, <1>2, LifecycleHolds, PTL DEF Spec
----------------------------------------------------------------------------
\* A stake that looks inactive without the history, and that Merge refuses, is
\* still cooling down.
LEMMA CoolingDown ==
  ASSUME NEW a \in Account, epoch \in Nat, a.mine, Shape(a),
         a.kind = "initialized" \/ InactiveWithoutHistory(a), ~CanMergeIntoReserve(a)
  PROVE  PartlyEffective(a)
  <1>1. a.kind # "none"
    <2>1. a.mine = TRUE
      BY Zenon DEF Account
    <2> QED BY <2>1 DEF Shape
  <1>2. MergeKind(a, epoch) # "inactive"
    BY DEF CanMergeIntoReserve
  <1>3. a.kind = "stake" /\ ~FullyInactive(a, epoch)
    BY <1>1, <1>2 DEF MergeKind, Account
  <1>4. a.activation \in Nat /\ a.deactivation \in Nat
    BY DEF Account
  <1> QED BY <1>3, <1>4, Constants
          DEF PartlyEffective, FullyInactive, NeverEffective, InactiveWithoutHistory

\* A stake of an earlier epoch that nobody deactivated is fully active or still
\* warming up.
LEMMA WarmingUp ==
  ASSUME NEW a \in Account, epoch \in Nat, epoch < EpochMax, a.kind = "stake",
         a.activation < epoch, a.deactivation = EpochMax, ~PartlyEffective(a)
  PROVE  MergeKind(a, epoch) = "active"
  <1>1. a.activation \in Nat /\ a.deactivation \in Nat
    BY DEF Account
  <1>2. FullyActive(a, epoch) /\ ~FullyInactive(a, epoch) /\ ~Activating(a, epoch)
    BY <1>1, Constants
       DEF PartlyEffective, FullyActive, FullyInactive, NeverEffective, Activating
  <1> QED BY <1>2 DEF MergeKind

\* The first half of a merging update fails only in the foreseen cases.
LEMMA TransientHalfFails ==
  ASSUME LifecycleInv, NEW v \in Validators, ~UpdateTransient(v, FALSE).ok
  PROVE  \/ \E a \in {Transient(v), vstake[v]} : PartlyEffective(a)
         \/ IsActive(v) /\ {Transient(v).deactivation, vstake[v].deactivation} # {EpochMax}
  <1> DEFINE u == Begin(v)
             w == UpdateTransient(v, FALSE)
             t == Transient(v)
             vs == vstake[v]
             y == [u EXCEPT !.t = DeactivatedIfNeeded(@, epoch)]
  <1>0. PoolInv /\ epoch \in Nat /\ t \in Account /\ vs \in Account
    BY EntryFacts DEF LifecycleInv
  <1>1. Shape(t) /\ Shape(vs)
    BY <1>0, EntryFacts, RowFacts DEF Transient
  <1>2. epoch < EpochMax
    <2>1. epoch <= MaxEpoch /\ MaxEpoch < EpochMax /\ MaxEpoch \in Nat
      BY PoolAssumption, FeeAssumption DEF LifecycleInv, ClockInv
    <2> QED BY <1>0, <2>1, Constants
  <1>3. /\ u \in Work /\ u.ok = TRUE /\ u.status = list[v].status /\ u.t = t /\ u.vs = vs
    BY <1>0, BeginWork
  <1>4. y \in Work /\ y.ok = TRUE
    <2>1. DeactivatedIfNeeded(u.t, epoch) \in Account
      BY <1>0, <1>3, AccountTypes
    <2> HIDE DEF u
    <2> QED BY <1>3, <2>1 DEF Work
  <1> HIDE DEF u, t, vs, y
  <1>5. \/ w = u \/ w = CountTransient(u) \/ w = CountTransient(y)
        \/ /\ w = TransientIntoReserve(u) /\ UsableByPool(u.t)
           /\ u.t.kind = "initialized" \/ InactiveWithoutHistory(u.t)
        \/ /\ w = TransientIntoValidator(u) /\ UsableByPool(u.t)
           /\ u.t.kind # "initialized" /\ ReadyForValidator(u)
    BY DEF UpdateTransient, u, y
  <1> HIDE DEF w
  <1>6. w # u /\ w # CountTransient(u) /\ w # CountTransient(y)
    <2>1. CountTransient(u).ok = TRUE /\ CountTransient(y).ok = TRUE
      BY <1>3, <1>4, CountTransientWork
    <2> QED BY <1>3, <2>1 DEF w
  <1>7. CASE /\ w = TransientIntoReserve(u) /\ UsableByPool(u.t)
             /\ u.t.kind = "initialized" \/ InactiveWithoutHistory(u.t)
    <2>1. w.ok = CanMergeIntoReserve(u.t)
      BY <1>3, <1>7, TransientIntoReserveWork
    <2>2. ~CanMergeIntoReserve(t) /\ t.mine
      BY <1>3, <1>7, <2>1, Zenon DEF UsableByPool, w
    <2>3. PartlyEffective(t)
      BY <1>0, <1>1, <1>3, <1>7, <2>2, CoolingDown
    <2> QED BY <2>3 DEF t
  <1>8. CASE /\ w = TransientIntoValidator(u) /\ UsableByPool(u.t)
             /\ u.t.kind # "initialized" /\ ReadyForValidator(u)
    <2>1. w.ok = CanMerge(u.vs, u.t, epoch)
      BY <1>0, <1>3, <1>8, TransientIntoValidatorWork
    <2>2. ~CanMerge(vs, t, epoch) /\ t.mine
      BY <1>3, <1>8, <2>1, Zenon DEF UsableByPool, w
    <2>3. /\ list[v].status = "Active" /\ t.activation < epoch /\ vs.activation < epoch
          /\ vs.kind = "stake"
      BY <1>3, <1>8 DEF ReadyForValidator
    <2>4. t.kind = "stake"
      <3>1. t.mine = TRUE
        BY <1>0, <2>2, Zenon DEF Account
      <3> QED BY <1>0, <1>1, <1>3, <1>8, <3>1 DEF Shape, Account
    <2>5. vs.mine
      BY <1>1, <2>3, ShapeFacts
    <2>6. ASSUME t.deactivation = EpochMax, vs.deactivation = EpochMax,
                 ~PartlyEffective(t), ~PartlyEffective(vs)
          PROVE  FALSE
      <3>1. MergeKind(t, epoch) = "active" /\ MergeKind(vs, epoch) = "active"
        BY <1>0, <1>2, <2>3, <2>4, <2>6, WarmingUp
      <3>2. CanMerge(vs, t, epoch)
        BY <2>2, <2>5, <3>1, Zenon DEF CanMerge, MergeablePairs
      <3> QED BY <2>2, <3>2
    <2>7. IsActive(v)
      BY <2>3 DEF IsActive
    <2> QED BY <2>6, <2>7 DEF t, vs
  <1> QED BY <1>5, <1>6, <1>7, <1>8

\* The second half fails only on a validator stake account that is cooling down.
LEMMA ValidatorHalfFails ==
  ASSUME LifecycleInv, NEW v \in Validators, NEW u, HalfDone(v, u), HalfLife(v, u), u.ok,
         ~UpdateValidator(u, FALSE).ok
  PROVE  PartlyEffective(vstake[v])
  <1> DEFINE s == SweepExtra(u)
             w == UpdateValidator(u, FALSE)
             d == DestakedStatus(u.found)
             r == RemoveValidatorStake(u.status)
  <1>0. PoolInv /\ epoch \in Nat
    BY EntryFacts DEF LifecycleInv
  <1>1. u \in Work /\ u.vs \in Account /\ Shape(u.vs) /\ u.ok = TRUE /\ u.ok \in BOOLEAN
    <2>1. u \in Work /\ u.vs \in Account /\ Shape(u.vs) /\ u.ok \in BOOLEAN
      BY WorkFields DEF HalfDone, HalfLife
    <2> QED BY <2>1, Zenon
  <1>2. /\ s \in Work /\ s.ok = TRUE /\ CountValidator(s).ok = TRUE
    <2>1. s \in Work /\ s.ok = u.ok
      BY <1>1, SweepExtraWork
    <2> HIDE DEF s
    <2> QED BY <1>1, <2>1, CountValidatorWork
  <1>3. /\ s.vs.mine = u.vs.mine /\ s.vs.kind = u.vs.kind
        /\ s.vs.activation = u.vs.activation /\ s.vs.deactivation = u.vs.deactivation
    <2> DEFINE k == u.vs.lamports - ExtraLamports(u.vs)
    <2>1. s.vs = [u.vs EXCEPT !.lamports = k]
      BY <1>1 DEF SweepExtra, Work
    <2> HIDE DEF k, s
    <2> QED BY <1>1, <2>1 DEF Account
  <1>4. \A x \in Work : \A st \in Statuses \cup {"NotListed"} :
          ValidatorIntoReserve(x, st).ok = (x.ok /\ CanMergeIntoReserve(x.vs))
    BY DEF ValidatorIntoReserve, Work
  <1>5. d \in Statuses \cup {"NotListed"} /\ r \in Statuses \cup {"NotListed"}
    BY <1>1, WorkFields, StatusWork DEF DestakedStatus, Statuses
  <1>6. \/ w \in {u, s, CountValidator(s)}
        \/ w = ValidatorIntoReserve(u, d) /\ u.vs.kind = "initialized" /\ UsableByPool(u.vs)
        \/ /\ w = ValidatorIntoReserve(s, r) /\ u.status # "Active"
           /\ UsableByPool(u.vs) /\ InactiveWithoutHistory(u.vs)
    BY DEF UpdateValidator, s, w, d, r
  <1> HIDE DEF s, d, r, w
  <1>7. w \notin {u, s, CountValidator(s)}
    BY <1>1, <1>2 DEF w
  <1>8. CASE w = ValidatorIntoReserve(u, d) /\ u.vs.kind = "initialized" /\ UsableByPool(u.vs)
    <2>1. CanMergeIntoReserve(u.vs)
      BY <1>8 DEF CanMergeIntoReserve, MergeKind, UsableByPool
    <2>2. w.ok
      BY <1>1, <1>4, <1>5, <1>8, <2>1, Zenon
    <2> QED BY <2>2 DEF w
  <1>9. CASE /\ w = ValidatorIntoReserve(s, r) /\ u.status # "Active"
             /\ UsableByPool(u.vs) /\ InactiveWithoutHistory(u.vs)
    <2>1. ~CanMergeIntoReserve(s.vs)
      BY <1>2, <1>4, <1>5, <1>9, Zenon DEF w
    <2>2. CanMergeIntoReserve(u.vs) => CanMergeIntoReserve(s.vs)
      BY <1>3 DEF CanMergeIntoReserve, MergeKind, FullyInactive, NeverEffective, Activating,
         FullyActive
    <2>3. PartlyEffective(u.vs)
      BY <1>0, <1>1, <1>9, <2>1, <2>2, CoolingDown DEF UsableByPool
    <2>4. u.vs = vstake[v]
      BY <1>9 DEF HalfDone
    <2> QED BY <2>3, <2>4
  <1> QED BY <1>6, <1>7, <1>8, <1>9

\* A merging update fails on no entry that is being removed, but for stake that
\* takes several epochs to move.
THEOREM RemovalUnblocked == Spec => []RemovalNeverBlocked
  <1>1. ASSUME LifecycleInv, NEW v \in Validators, Listed(v), ~UpdateEntry(v, FALSE).ok
        PROVE  \/ \E a \in {Transient(v), vstake[v]} : PartlyEffective(a)
               \/ /\ IsActive(v)
                  /\ {Transient(v).deactivation, vstake[v].deactivation} # {EpochMax}
    <2> DEFINE u == UpdateTransient(v, FALSE)
    <2>1. CASE ~u.ok
      BY <1>1, <2>1, TransientHalfFails
    <2>2. CASE u.ok
      <3>1. HalfDone(v, u) /\ HalfLife(v, u)
        BY <1>1, <2>2, TransientHalf, TransientHalfLife DEF LifecycleInv
      <3>2. ~UpdateValidator(u, FALSE).ok
        BY <1>1 DEF UpdateEntry
      <3> HIDE DEF u
      <3>3. PartlyEffective(vstake[v])
        BY <1>1, <2>2, <3>1, <3>2, ValidatorHalfFails
      <3> QED BY <3>3
    <2> QED BY <2>1, <2>2
  <1>2. LifecycleInv => RemovalNeverBlocked
    BY <1>1 DEF RemovalNeverBlocked
  <1> QED BY <1>2, LifecycleHolds, PTL
=============================================================================
