---------------------------- MODULE MCStakePool ----------------------------
(***************************************************************************)
(* Instances of StakePool for TLC. Amounts are a few lamports: rent is 1   *)
(* lamport and the minimum delegation 1, so that the smallest stake        *)
(* account holds 2.                                                        *)
(***************************************************************************)
EXTENDS StakePool, TLC

Ratio(n, d) == [numerator |-> n, denominator |-> d]
Zero == Ratio(0, 0)

MCMaxIncrease == Ratio(3, 2)
MCBaseline == Ratio(1, 10)
NoFees == [k \in FeeTypes |-> Zero]
NoReferrals == [k \in ReferralTypes |-> 0]

\* Fees that leave a rounding remainder on amounts of a few lamports.
SomeFees == [k \in FeeTypes |-> Ratio(1, 3)]
SomeReferrals == [k \in ReferralTypes |-> 100]
MCFeeChoices == {Zero, Ratio(1, 2)}

Symmetry == Permutations(Validators)
============================================================================
