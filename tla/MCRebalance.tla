---------------------------- MODULE MCRebalance ----------------------------
(***************************************************************************)
(* An instance of Rebalance.                                               *)
(***************************************************************************)
EXTENDS Rebalance, TLC

Ratio(n, d) == [numerator |-> n, denominator |-> d]
MCMaxIncrease == Ratio(3, 2)
MCBaseline == Ratio(1, 10)
NoFees == [k \in FeeTypes |-> Ratio(0, 0)]
NoReferrals == [k \in ReferralTypes |-> 0]
Symmetry == Permutations(Validators)
============================================================================
