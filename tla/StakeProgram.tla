---------------------------- MODULE StakeProgram ----------------------------
(***************************************************************************)
(* The native stake program, as far as the pool uses it (external code:    *)
(* its rules are those the processor's CPI wrappers and tests rely on).    *)
(* An account is a record; an operation is a pair of operators, one that   *)
(* says when the program accepts the call and one that gives the result.   *)
(*                                                                         *)
(* Stake warms up and cools down in WarmupEpochs epochs.                   *)
(***************************************************************************)
EXTENDS Integers

CONSTANTS
  Rent,            \* rent-exempt reserve of a stake account
  StakeMinimum,    \* get_minimum_delegation()
  WarmupEpochs,    \* epochs a stake takes to become fully (in)active
  EpochMax         \* Epoch::MAX

ASSUME StakeAssumption ==
  /\ Rent \in Nat \ {0} /\ StakeMinimum \in Nat \ {0}
  /\ WarmupEpochs \in Nat \ {0} /\ EpochMax \in Nat

\* mine: staker and withdrawer are the pool's withdraw authority, and the
\* lockup is the pool's (stake_is_usable_by_pool).
Account == [kind : {"none", "initialized", "stake"}, lamports : Nat, stake : Nat,
            activation : Nat, deactivation : Nat, mine : BOOLEAN]

\* An address the stake program does not own; it may hold lamports.
Unallocated(lamports) ==
  [kind |-> "none", lamports |-> lamports, stake |-> 0,
   activation |-> 0, deactivation |-> EpochMax, mine |-> FALSE]

Initialized(lamports, mine) ==
  [Unallocated(lamports) EXCEPT !.kind = "initialized", !.mine = mine]

Delegated(lamports, stake, now) ==
  [kind |-> "stake", lamports |-> lamports, stake |-> stake,
   activation |-> now, deactivation |-> EpochMax, mine |-> TRUE]
----------------------------------------------------------------------------
\* The activation status of a stake account in epoch now.
NeverEffective(a) == a.activation = a.deactivation
Activating(a, now) == ~NeverEffective(a) /\ now = a.activation
FullyActive(a, now) == a.activation + WarmupEpochs <= now /\ now < a.deactivation
FullyInactive(a, now) == NeverEffective(a) \/ a.deactivation + WarmupEpochs <= now
\* Some of the stake is effective: it earns, and cannot be withdrawn.
Effective(a, now) == a.kind = "stake" /\ ~Activating(a, now) /\ ~FullyInactive(a, now)

\* MergeKind::get_if_mergeable; "transient" stands for its error.
MergeKind(a, now) ==
  IF a.kind = "initialized" THEN "inactive"
  ELSE IF a.kind = "none" THEN "transient"
  ELSE IF FullyInactive(a, now) THEN "inactive"
  ELSE IF Activating(a, now) THEN "activating"
  ELSE IF FullyActive(a, now) THEN "active"
  ELSE "transient"

\* The pairs of merge kinds, destination first, that Merge accepts.
MergeablePairs ==
  {<<"inactive", "inactive">>, <<"inactive", "activating">>,
   <<"activating", "inactive">>, <<"activating", "activating">>,
   <<"active", "active">>}

CanMerge(dst, src, now) ==
  /\ dst.mine /\ src.mine
  /\ <<MergeKind(dst, now), MergeKind(src, now)>> \in MergeablePairs

\* Two activating stakes also merge the source's rent; two active ones do
\* not, so that rent becomes unstaked lamports of the destination.
MergedStake(dst, src, now) ==
  LET kinds == <<MergeKind(dst, now), MergeKind(src, now)>>
  IN CASE kinds = <<"activating", "inactive">> -> dst.stake + src.lamports
       [] kinds = <<"activating", "activating">> -> dst.stake + src.stake + Rent
       [] kinds = <<"active", "active">> -> dst.stake + src.stake
       [] OTHER -> dst.stake

Merged(dst, src, now) ==
  [dst EXCEPT !.lamports = @ + src.lamports, !.stake = MergedStake(dst, src, now)]
----------------------------------------------------------------------------
\* Split of amount lamports into a new account that already holds funded. A
\* part that stays behind keeps its rent and minimum delegation, and the new
\* account of an effective stake must be rent-exempt beforehand.
SplitStake(src, funded, amount) ==
  IF amount = src.lamports THEN amount - Rent
  ELSE amount - (IF funded < Rent THEN Rent - funded ELSE 0)

CanSplit(src, funded, amount, now) ==
  /\ src.kind = "stake" /\ src.mine
  /\ amount <= src.lamports
  /\ SplitStake(src, funded, amount) >= StakeMinimum
  /\ \/ /\ amount = src.lamports
        /\ amount - Rent <= src.stake
     \/ /\ amount < src.lamports
        /\ src.lamports - amount >= Rent + StakeMinimum
        /\ src.stake - amount >= StakeMinimum
        /\ Effective(src, now) => funded >= Rent

SplitSource(src, amount) == [src EXCEPT !.lamports = @ - amount, !.stake = @ - amount]

SplitTarget(src, funded, amount) ==
  [src EXCEPT !.lamports = funded + amount, !.stake = SplitStake(src, funded, amount)]

\* Deactivate fails on a stake that is already deactivated.
CanDeactivate(a) == a.kind = "stake" /\ a.deactivation = EpochMax
Deactivated(a, now) == [a EXCEPT !.deactivation = now]
DeactivatedIfNeeded(a, now) == IF CanDeactivate(a) THEN Deactivated(a, now) ELSE a

\* Withdrawable lamports of a stake account: what is neither stake nor rent.
ExtraLamports(a) ==
  IF a.lamports > a.stake + Rent THEN a.lamports - a.stake - Rent ELSE 0
============================================================================
