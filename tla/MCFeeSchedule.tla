--------------------------- MODULE MCFeeSchedule ---------------------------
(***************************************************************************)
(* An instance of FeeSchedule for TLC, with a u128 that the products of    *)
(* check_withdrawal can overflow.                                          *)
(***************************************************************************)
EXTENDS FeeSchedule

Ratio(n, d) == [numerator |-> n, denominator |-> d]

MCMaxIncrease == Ratio(3, 2)
MCInitFees == [k \in FeeTypes |->
                 IF k \in WithdrawalFees THEN Ratio(2, 10) ELSE Ratio(0, 0)]
MCInitReferrals == [k \in ReferralTypes |-> 0]

\* Fees on both sides of every limit, zero included; with u128 values up to
\* 100, the products for 8/10 overflow and those for 4/10 do not.
MCBaseline == Ratio(1, 10)
MCFeeChoices == {Ratio(0, 0), Ratio(3, 20), Ratio(3, 10), Ratio(4, 10),
                 Ratio(8, 10), Ratio(2, 1)}
MCReferrals == {100, 101}
============================================================================
