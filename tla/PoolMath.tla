------------------------------ MODULE PoolMath ------------------------------
(***************************************************************************)
(* The conversions between lamports and pool tokens (state.rs, impl        *)
(* StakePool and impl Fee). T is total_lamports and S pool_token_supply.   *)
(* The u64/u128 results that the code turns into CalculationFailure when   *)
(* they do not fit are plain naturals here; the instructions that use them *)
(* keep the checks that the properties can tell apart.                     *)
(***************************************************************************)
EXTENDS Integers

\* Fee::apply: the fee on amt, rounded up.
Apply(fee, amt) ==
  IF fee.denominator = 0 THEN 0
  ELSE (amt * fee.numerator + fee.denominator - 1) \div fee.denominator

\* Mutants of the two conversions below: rounded up.
PoolTokensRoundedUp(T, S, lamports) ==
  IF T = 0 \/ S = 0 THEN lamports ELSE (lamports * S + T - 1) \div T
LamportsRoundedUp(T, S, tokens) ==
  IF S = 0 THEN 0 ELSE (tokens * T + S - 1) \div S

\* StakePool::calc_pool_tokens_for_deposit: rounded down.
PoolTokensForDeposit(T, S, lamports) ==
  IF T = 0 \/ S = 0 THEN lamports ELSE (lamports * S) \div T

\* StakePool::calc_lamports_withdraw_amount: rounded down.
LamportsForWithdrawal(T, S, tokens) ==
  IF S = 0 \/ tokens * T < S THEN 0 ELSE (tokens * T) \div S

\* StakePool::calc_epoch_fee_amount: the tokens minted to the manager for a
\* reward that is not yet part of T.
EpochFeeTokens(T, S, fee, reward) ==
  LET fee_lamports == Apply(fee, reward)
      total == T + reward
  IN IF reward = 0 THEN 0
     ELSE IF total = fee_lamports \/ S = 0 THEN reward
     ELSE (S * fee_lamports) \div (total - fee_lamports)

\* StakePool::get_lamports_per_pool_token: rounded up, defined for S > 0.
LamportsPerPoolToken(T, S) == (T + S - 1) \div S

\* calc_pool_tokens_{stake,sol}_referral_fee.
ReferralFee(percent, fee_tokens) == (fee_tokens * percent) \div 100

\* Mutant of DepositShares: the referrer is paid on top of the fee.
ReferrerPaidTwice(fees, referral, from_stake, from_sol) ==
  LET fee == Apply(fees["stake_deposit"], from_stake)
               + Apply(fees["sol_deposit"], from_sol)
  IN [user |-> from_stake + from_sol - fee,
      referrer |-> ReferralFee(referral, fee),
      manager |-> fee]
\* How the tokens minted for a deposit are shared: from_stake of them stand
\* for delegated lamports, the others for lamports that go to the reserve.
DepositShares(fees, referral, from_stake, from_sol) ==
  LET fee == Apply(fees["stake_deposit"], from_stake)
               + Apply(fees["sol_deposit"], from_sol)
      referrer == ReferralFee(referral, fee)
  IN [user |-> from_stake + from_sol - fee,
      referrer |-> referrer,
      manager |-> fee - referrer]
============================================================================
