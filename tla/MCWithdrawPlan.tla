--------------------------- MODULE MCWithdrawPlan ---------------------------
(***************************************************************************)
(* Instances of WithdrawPlan.                                              *)
(***************************************************************************)
EXTENDS WithdrawPlan, TLC

CONSTANTS
  Active,      \* recorded lamports of the validator stake accounts
  Transient,   \* and of the transient accounts
  Amounts      \* pool tokens to withdraw

Entry ==
  [active : Active, transient : Transient, status : {"Active", "DeactivatingValidator"},
   suffixed : {FALSE}]
    \cup [active : {5}, transient : Transient, status : {"Active"}, suffixed : {TRUE}]
UpToTwo == {<<>>} \cup [1..1 -> Entry] \cup [1..2 -> Entry]
Fee(numerator, denominator) == [numerator |-> numerator, denominator |-> denominator]
SomeFees == {Fee(0, 3), Fee(1, 3), Fee(3, 3)}
OldAndNew == {<<1, 1>>, <<3, 2>>, <<2, 3>>}
\* Searches and withdrawals from the reserve; validators named by the user, by
\* the receiver or by both, where vote account 2 is not in a list of one; and
\* receivers that are no stake accounts.
Asking(reserve, votes, receivers, no_stake, skip_fee) ==
  [library : Libraries, amount : Amounts, skip_fee : skip_fee, use_reserve : reserve,
   vote : votes, receiver : receivers, no_stake : {no_stake}]
ManyRequests ==
  Asking(BOOLEAN, {None}, {None}, FALSE, BOOLEAN)
    \cup Asking({FALSE}, {None, 1, 2}, {None, 1, 2}, FALSE, {FALSE})
    \cup Asking(BOOLEAN, {None, 1}, {None}, TRUE, {FALSE})
\* The JavaScript library assumes a larger minimum than the program has.
Minima == [library \in Libraries |-> IF library = "js" THEN 2 ELSE 1]
============================================================================
