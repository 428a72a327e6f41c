----------------------------- MODULE Rebalance -----------------------------
(***************************************************************************)
(* The rebalancing bot of the Python client (bot/rebalance.py) driving the *)
(* pool of StakePool, while users, validators, the cluster and everybody   *)
(* else go on using it.                                                    *)
(*                                                                         *)
(* A round of the bot reads the pool account, then the validator list,     *)
(* plans at most one move per validator, and runs all the moves at once    *)
(* (asyncio.gather): each of them reads the list again for a seed, and     *)
(* sends one transaction. The first one that fails ends the round; the     *)
(* others are cancelled, but a transaction already sent may still land.    *)
(***************************************************************************)
EXTENDS StakePool

CONSTANTS
  Retained,     \* retained_reserve_lamports
  BotMinimum,   \* MINIMUM_ACTIVE_STAKE of the Python client
  MaxQuiet,     \* bound: rounds that are counted
  MaxInterference \* bound: steps of others, and transactions that outlive their round

ASSUME BotAssumption ==
  /\ Retained \in Nat /\ BotMinimum \in Nat /\ BotMinimum >= MinimumDelegation
  /\ MaxQuiet \in Nat
  /\ MaxInterference \in Nat
  /\ IsFiniteSet(Seeds) /\ Seeds = 0..(Cardinality(Seeds) - 1)
  /\ Events \subseteq {"preferred"} /\ Prefunds = {}  \* outsiders take no steps here

VARIABLES
  phase,       \* where the bot is: "idle", "planning" or "moving"
  read_total,  \* total_lamports, as the bot read it
  moves,       \* the moves of this round that are not over
  late,        \* transactions sent by rounds that have ended
  quiet,       \* history: epochs in which a round was completed, since anybody interfered
  clean,       \* history: neither interference nor a new epoch since the round began
  level,       \* history: no validator had more than its share when the plan was made
  due,         \* history: no round has been counted in this epoch
  interference \* history: what MaxInterference bounds

roundVars == <<phase, read_total, moves, late>>
historyVars == <<quiet, clean, level, due, interference>>
botVars == <<roundVars, historyVars>>

\* A move is sent once its seed has been chosen.
Kinds == {"increase", "decrease"}
Move == [v : Validators, kind : Kinds, lamports : Nat, seed : Seeds, sent : BOOLEAN]

BotInit ==
  /\ Init
  /\ phase = "idle" /\ read_total = 0 /\ moves = {} /\ late = {}
  /\ quiet = 0 /\ clean = FALSE /\ level = FALSE /\ due = TRUE /\ interference = 0
----------------------------------------------------------------------------
(* The plan. All entries of the list count, whatever their status.         *)

Entries == {v \in Validators : Listed(v)}
\* lamports_per_validator, before and after the rent of increases is set aside.
EvenShare(total) == (total - Retained) \div Cardinality(Entries)
Below(total) == {v \in Entries : list[v].transient = 0 /\ list[v].active < EvenShare(total)}
\* Mutant of TotalUsable: the rent of the new transient accounts is forgotten.
TotalWithoutRent(total) == total - Retained
TotalUsable(total) == total - Retained - Cardinality(Below(total)) * Rent
Share(total) == TotalUsable(total) \div Cardinality(Entries)

ToMove(kind, v, lamports) ==
  [v |-> v, kind |-> kind, lamports |-> lamports, seed |-> list[v].seed, sent |-> FALSE]

\* Validators with a transient account are skipped.
CanBePlanned == {v \in Entries : list[v].transient = 0}

\* Mutant of Decreases: they are held to the minimum of increases too.
DecreasesAboveMinimum(total) ==
  {ToMove("decrease", v, list[v].active - Share(total)) :
     v \in {w \in CanBePlanned : list[w].active - Share(total) > Rent + BotMinimum}}
\* Decreases that only move rent, and increases below the minimum, are skipped.
Decreases(total) ==
  {ToMove("decrease", v, list[v].active - Share(total)) :
     v \in {w \in CanBePlanned : list[w].active - Share(total) > Rent}}
Increases(total) ==
  {ToMove("increase", v, Share(total) - list[v].active) :
     v \in {w \in CanBePlanned : /\ list[w].active < Share(total)
                                 /\ Share(total) - list[w].active >= BotMinimum}}
Plan(total) == Decreases(total) \cup Increases(total)
----------------------------------------------------------------------------
(* A round.                                                                *)

\* update_stake_pool has been run when the pool is out of date; its
\* instructions are those of Crank.
ReadPool ==
  /\ phase = "idle"
  /\ last_update_epoch = epoch
  /\ phase' = "planning" /\ read_total' = total_lamports
  /\ clean' = TRUE
  /\ UNCHANGED <<vars, moves, late, quiet, level, due, interference>>

\* Without entries the division fails, and the bot with it.
ReadList ==
  /\ phase = "planning"
  /\ Entries # {}
  /\ phase' = "moving" /\ moves' = Plan(read_total)
  /\ level' = \A v \in Entries : IsActive(v) /\ StakeLamports(v) <= Share(read_total)
  /\ UNCHANGED <<vars, read_total, late, quiet, clean, due, interference>>

\* "bump up by one to avoid reuse"; the instance has few seeds.
NextSeed(v) == (list[v].seed + 1) % Cardinality(Seeds)

Send(m) ==
  /\ phase = "moving" /\ ~m.sent
  /\ Listed(m.v)
  /\ moves' = (moves \ {m}) \cup {[m EXCEPT !.sent = TRUE, !.seed = NextSeed(m.v)]}
  /\ UNCHANGED <<vars, phase, read_total, late, historyVars>>

\* The instruction of a move: IncreaseValidatorStake, or
\* DecreaseValidatorStakeWithReserve.
Execute(m) ==
  \/ m.kind = "increase" /\ IncreaseValidatorStake(m.v, m.lamports, m.seed, FALSE)
  \/ m.kind = "decrease" /\ DecreaseValidatorStake(m.v, m.lamports, m.seed, TRUE)

Land(m) ==
  /\ m.sent
  /\ Execute(m)
  /\ moves' = moves \ {m}
  /\ UNCHANGED <<phase, read_total, late, historyVars>>

\* The bot fails: a read, a rejected, lost or unconfirmed transaction, or
\* the process itself. Of the transactions that were sent, some may land yet.
Fail ==
  /\ phase # "idle"
  /\ phase' = "idle" /\ read_total' = 0 /\ moves' = {}
  /\ \E kept \in SUBSET {m \in moves : m.sent} :
       /\ late' = late \cup kept
       /\ interference' = interference + Cardinality(kept)
  /\ interference' <= MaxInterference
  /\ clean' = FALSE /\ level' = FALSE
  /\ UNCHANGED <<vars, quiet, due>>

\* A transaction of an ended round lands, or its blockhash expires.
Disturbed == quiet' = 0 /\ clean' = FALSE
LandLate(m) ==
  /\ Execute(m)
  /\ late' = late \ {m}
  /\ Disturbed
  /\ UNCHANGED <<phase, read_total, moves, level, due, interference>>
Expire(m) ==
  /\ late' = late \ {m}
  /\ UNCHANGED <<vars, phase, read_total, moves, historyVars>>

\* gather returns.
Finish ==
  /\ phase = "moving" /\ moves = {}
  /\ phase' = "idle" /\ read_total' = 0
  /\ quiet' = IF clean /\ due /\ quiet < MaxQuiet THEN quiet + 1 ELSE quiet
  /\ due' = (due /\ ~clean)
  /\ clean' = FALSE /\ level' = FALSE
  /\ UNCHANGED <<vars, moves, late, interference>>

Bot ==
  \/ ReadPool \/ ReadList \/ Fail \/ Finish
  \/ \E m \in moves : Send(m) \/ Land(m)
  \/ \E m \in late : LandLate(m) \/ Expire(m)
----------------------------------------------------------------------------
\* What goes on while nobody interferes: updates that merge, and epochs
\* without rewards.
BotEpoch ==
  /\ NewEpoch
  /\ clean' = FALSE /\ due' = TRUE
  /\ UNCHANGED <<roundVars, quiet, level, interference>>

Routine ==
  \/ DistributeRewards({}, 0)
  \/ \E v \in Validators : UpdateValidatorListBalance(v, FALSE)
  \/ UpdateStakePoolBalance
  \/ CleanupRemovedValidatorEntries(TRUE) /\ list' = list

\* The staker adds and removes validators, users deposit and withdraw,
\* somebody updates without merging, and validators earn rewards.
Others ==
  \/ \E v \in Validators : Staker(v) \/ UpdateValidatorListBalance(v, TRUE)
  \/ User
  \/ \E W \in SUBSET Validators \ {{}}, r \in Rewards : DistributeRewards(W, r)

Interfere ==
  /\ interference < MaxInterference
  /\ Others
  /\ interference' = interference + 1
  /\ Disturbed
  /\ UNCHANGED <<roundVars, level, due>>

\* The end of an update takes a removed validator off the list.
Shrink ==
  /\ CleanupRemovedValidatorEntries(TRUE) /\ list' # list
  /\ Disturbed
  /\ UNCHANGED <<roundVars, level, due, interference>>

BotNext ==
  \/ Bot
  \/ BotEpoch
  \/ Routine /\ UNCHANGED botVars
  \/ Interfere \/ Shrink

BotSpec == BotInit /\ [][BotNext]_<<vars, botVars>>
----------------------------------------------------------------------------
\* The bot makes the stake uniform, "while also maintaining some SOL in the
\* reserve": once it has completed rounds in MaxQuiet epochs of its own, all
\* stakes have arrived, no two validators differ by more than what the bot
\* does not care to move, and the reserve has what was to be retained, up to
\* the excess rents left with the validators. It holds whatever was going on
\* before: stale readings, rounds that failed half way, transactions that
\* landed late, deposits, rewards, removals and updates without merging.
BalanceReached ==
  quiet = MaxQuiet /\ UpToDate =>
    /\ \A v, w \in Entries :
         /\ list[v].transient = 0
         /\ list[v].active - list[w].active <= Rent + BotMinimum - 1
    /\ reserve - Rent >= Retained - Cardinality(Entries) * Rent

\* While nobody interferes with a round whose plan finds no validator above
\* its share, the reserve can pay for all the increases still to come, the
\* rent of their accounts included, and keeps the lamports to be retained;
\* and the program accepts each of them, in whatever order they arrive.
IncreasesFit ==
  phase = "moving" /\ clean /\ level =>
    /\ reserve - Rent - MapThenSumSet(LAMBDA m : m.lamports + Rent, moves) >= Retained
    /\ \A m \in moves : m.sent => CanIncrease(m.v, m.lamports, m.seed, FALSE)
============================================================================
