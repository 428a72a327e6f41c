-------------------------- MODULE RebalanceProofs --------------------------
(***************************************************************************)
(* The rebalancing bot plans what the reserve can pay for, for any number  *)
(* of validators, any stakes, rents and minima, and whatever goes on in    *)
(* the pool before the round (IncreasesFit).                               *)
(*                                                                         *)
(* BotInv adds to the invariant of the pool what the bot knows at each     *)
(* stage of a round that nobody has interfered with: while it plans, that  *)
(* the total it has read is still covered by reserve and records; while it *)
(* moves, that every move left is an increase of an active validator that  *)
(* has no transient stake, and that the reserve can pay for all of them.   *)
(* The updates that go on meanwhile only raise the reserve and never lower *)
(* what reserve and records hold together.                                 *)
(***************************************************************************)
EXTENDS Rebalance, StakePoolProofs

\* What the moves cost, as a total over them.
Cost == [m \in Move |-> m.lamports + Rent]
CostOf(ms) == Total(Cost, ms)

\* While the bot plans: the total it has read is covered.
PlanningOK(total, l, r) == total <= r - Rent + ListTotal(l)

\* While it moves: each move can still be made, at most one per validator, and
\* the reserve pays for all of them.
Movable(m, l) ==
  /\ m.kind = "increase" /\ m.lamports >= BotMinimum
  /\ l[m.v].status = "Active" /\ l[m.v].transient = 0
MovingOK(ms, l, r) ==
  /\ \A m \in ms : Movable(m, l)
  /\ \A m, n \in ms : m.v = n.v => m = n
  /\ r - Rent - CostOf(ms) >= Retained

BotTypes ==
  /\ phase \in {"idle", "planning", "moving"}
  /\ read_total \in Nat
  /\ moves \subseteq Move /\ IsFiniteSet(moves)
  /\ late \subseteq Move
  /\ phase # "moving" => moves = {}
  /\ max_validator_stake = NoLimit

\* What the bot relies on.
RoundOK ==
  clean /\ phase # "idle" =>
    /\ UpToDate
    /\ phase = "planning" => PlanningOK(read_total, list, reserve)
    /\ phase = "moving" /\ level => MovingOK(moves, list, reserve)

BotInv == LifecycleInv /\ BotTypes /\ RoundOK
----------------------------------------------------------------------------
\* What the proofs use of the constants.
LEMMA BotConstants ==
  /\ Retained \in Nat /\ BotMinimum \in Nat /\ BotMinimum >= MinimumDelegation
  /\ Events \subseteq {"preferred"} /\ SmallPrefunds
  /\ Rent \in Nat \ {0} /\ MinimumDelegation \in Nat \ {0}
  BY BotAssumption, Constants DEF SmallPrefunds

\* The next seed is a seed.
LEMMA NextSeedIn ==
  ASSUME PoolInv, NEW v \in Validators PROVE NextSeed(v) \in Seeds
  <1> DEFINE n == Cardinality(Seeds)
  <1>1. n \in Nat /\ Seeds = 0..(n - 1) /\ Seeds # {}
    BY BotAssumption, PoolAssumption, FS_CardinalityType
  <1>2. list[v].seed \in Seeds
    BY EntryFacts
  <1> HIDE DEF n
  <1>3. n \in Nat \ {0} /\ list[v].seed \in Nat
    BY <1>1, <1>2
  <1>4. (list[v].seed + 1) % n \in 0..(n - 1)
    BY <1>3
  <1> QED BY <1>1, <1>4 DEF NextSeed, n

\* What the moves of a round cost is a natural number.
LEMMA CostType ==
  ASSUME NEW ms, ms \subseteq Move, IsFiniteSet(ms)
  PROVE  CostOf(ms) \in Nat /\ \A m \in ms : Cost[m] \in Nat /\ Cost[m] = m.lamports + Rent
  <1>1. \A m \in ms : Cost[m] \in Nat /\ Cost[m] = m.lamports + Rent
    BY Constants DEF Cost, Move
  <1> QED BY <1>1, TotalType DEF CostOf

\* The sum of IncreasesFit is that total.
LEMMA CostIsSum ==
  ASSUME NEW ms, ms \subseteq Move, IsFiniteSet(ms)
  PROVE  MapThenSumSet(LAMBDA m : m.lamports + Rent, ms) = CostOf(ms)
  <1>1. PICK g : IsSum(g, Cost, ms) /\ Total(Cost, ms) = g[ms]
    BY TotalIsSum
  <1> DEFINE F(h) == [s \in SUBSET ms |->
                  IF s = {} THEN 0 ELSE (Pick(s).lamports + Rent) + h[s \ {Pick(s)}]]
  <1>2. ASSUME NEW h PROVE IsSum(h, Cost, ms) <=> h = F(h)
    <2>1. ASSUME NEW s \in SUBSET ms, s # {}
          PROVE  Cost[Pick(s)] = Pick(s).lamports + Rent
      BY <2>1, PickIn, CostType
    <2> QED BY <2>1 DEF IsSum
  <1>3. \E h : h = F(h) /\ MapThenSumSet(LAMBDA m : m.lamports + Rent, ms) = h[ms]
    <2>1. g = F(g)
      BY <1>1, <1>2
    <2> QED BY <2>1 DEF MapThenSumSet, MapThenFoldSet, Pick
  <1>4. PICK h : h = F(h) /\ MapThenSumSet(LAMBDA m : m.lamports + Rent, ms) = h[ms]
    BY <1>3
  <1>5. IsSum(h, Cost, ms)
    BY <1>2, <1>4
  <1>6. \A s \in SUBSET ms : h[s] = g[s]
    BY <1>1, <1>5, SumUnique
  <1> QED BY <1>1, <1>4, <1>6 DEF CostOf

\* Each move is paid for on its own, and leaves the cost of the others.
LEMMA CostRemove ==
  ASSUME NEW ms, ms \subseteq Move, IsFiniteSet(ms), NEW m \in ms
  PROVE  /\ IsFiniteSet(ms \ {m}) /\ CostOf(ms \ {m}) \in Nat /\ m.lamports \in Nat
         /\ CostOf(ms) = m.lamports + Rent + CostOf(ms \ {m})
  <1>1. IsFiniteSet(ms \ {m})
    BY FS_Subset
  <1>2. CostOf(ms \ {m}) \in Nat
    BY <1>1, CostType
  <1>3. \A n \in ms : Cost[n] \in Nat /\ Cost[n] = n.lamports + Rent
    BY CostType
  <1>4. Total(Cost, ms) = Cost[m] + Total(Cost, ms \ {m})
    BY <1>3, TotalRemove
  <1>5. m.lamports \in Nat
    BY DEF Move
  <1> QED BY <1>1, <1>2, <1>3, <1>4, <1>5, Constants DEF CostOf
----------------------------------------------------------------------------
(* The plan.                                                               *)

\* A quotient that is not negative is one of natural numbers.
LEMMA ShareOf ==
  ASSUME NEW a \in Int, NEW n \in Nat \ {0}, a \div n >= 0
  PROVE  a \in Nat /\ a \div n \in Nat /\ n * (a \div n) <= a
  <1>1. a \div n \in Int
    OBVIOUS
  <1>2. a >= 0
    <2> SUFFICES ASSUME a < 0 PROVE FALSE
      OBVIOUS
    <2> DEFINE q == a \div n
    <2>1. q * n <= a
      OBVIOUS
    <2>2. q * n >= 0
      BY <1>1 DEF q
    <2> HIDE DEF q
    <2> QED BY <1>1, <2>1, <2>2
  <1>3. (a \div n) * n <= a /\ a \div n \in Nat
    BY <1>2, DivFacts
  <1> QED BY <1>2, <1>3, MulFacts

\* The image of a finite set is finite.
LEMMA ImageFinite ==
  ASSUME NEW S, IsFiniteSet(S), NEW f
  PROVE  IsFiniteSet({f[x] : x \in S})
  <1> DEFINE T == {f[x] : x \in S}
             g == [x \in S |-> f[x]]
  <1>1. g \in Surjection(S, T)
    BY DEF Surjection
  <1> HIDE DEF T, g
  <1>2. IsFiniteSet(T)
    BY <1>1, FS_Surjection
  <1> QED BY <1>2 DEF T

\* Moves f that bring the validators of W to a stake of q each, while those of
\* E have no more: together with the stake there is, they cost what stakes of q
\* and a rent for each move add up to.
LEMMA CostToLevel ==
  ASSUME NEW stake, \A v \in Validators : stake[v] \in Nat,
         NEW E \in SUBSET Validators, NEW W \in SUBSET E, NEW q \in Nat,
         NEW f, \A v \in W : f[v] \in Move /\ f[v].v = v /\ f[v].lamports + stake[v] = q,
         \A v \in E : stake[v] <= q,
         \A v \in Validators \ E : stake[v] = 0
  PROVE  CostOf({f[v] : v \in W}) + Total(stake, Validators)
           <= Cardinality(E) * q + Cardinality(W) * Rent
  <1> DEFINE M(T) == {f[v] : v \in W \cap T}
             left(T) == CostOf(M(T)) + Total(stake, T)
             right(T) == Cardinality(E \cap T) * q + Cardinality(W \cap T) * Rent
             P == {T \in SUBSET Validators : left(T) <= right(T)}
  <1>0. IsFiniteSet(Validators) /\ Rent \in Nat
    BY PoolAssumption, Constants
  <1>1. ASSUME NEW T \in SUBSET Validators, \A t \in SUBSET T : t # T => t \in P
        PROVE  T \in P
    <2>0. IsFiniteSet(T)
      BY <1>0, FS_Subset
    <2>1. CASE T = {}
      <3>1. M(T) = {} /\ E \cap T = {} /\ W \cap T = {}
        BY <2>1
      <3>2. CostOf({}) = 0 /\ Total(stake, {}) = 0 /\ Cardinality({}) = 0
        BY TotalEmpty, FS_EmptySet DEF CostOf
      <3>3. left(T) = 0
        <4>1. CostOf(M(T)) = 0 /\ Total(stake, T) = 0
          BY <2>1, <3>1, <3>2
        <4> HIDE DEF M
        <4> QED BY <4>1
      <3>4. right(T) = 0
        <4>1. Cardinality(E \cap T) = 0 /\ Cardinality(W \cap T) = 0
          BY <3>1, <3>2
        <4>2. 0 * q = 0 /\ 0 * Rent = 0
          BY <1>0
        <4> QED BY <4>1, <4>2
      <3> HIDE DEF left, right
      <3> QED BY <3>3, <3>4
    <2>2. CASE T # {}
      <3> PICK v \in T : TRUE
        BY <2>2
      <3> DEFINE r == T \ {v}
                 e == Cardinality(E \cap r)
                 w == Cardinality(W \cap r)
                 c == CostOf(M(r))
                 t == Total(stake, r)
      <3>1. r \in P /\ r \in SUBSET Validators /\ IsFiniteSet(r)
        BY <1>1, <2>0, FS_Subset
      <3>2. /\ IsFiniteSet(E \cap r) /\ IsFiniteSet(W \cap r)
            /\ IsFiniteSet(E \cap T) /\ IsFiniteSet(W \cap T)
        BY <2>0, <3>1, FS_Intersection
      <3>3. e \in Nat /\ w \in Nat
        BY <3>2, FS_CardinalityType
      <3>4. M(r) \subseteq Move /\ IsFiniteSet(M(r)) /\ M(T) \subseteq Move /\ IsFiniteSet(M(T))
        <4>1. IsFiniteSet(M(r)) /\ IsFiniteSet(M(T))
          BY <3>2, ImageFinite
        <4> QED BY <4>1
      <3>5. c \in Nat /\ t \in Nat
        <4>1. c \in Nat
          BY <3>4, CostType
        <4>2. \A x \in r : stake[x] \in Nat
          BY <3>1
        <4> QED BY <3>1, <4>1, <4>2, TotalType
      <3>6. c + t <= e * q + w * Rent
        BY <3>1
      <3>7. Total(stake, T) = stake[v] + t /\ stake[v] \in Nat
        <4>1. \A x \in T : stake[x] \in Nat
          OBVIOUS
        <4> QED BY <2>0, <4>1, TotalRemove
      <3>8. Cardinality(E \cap T) = IF v \in E THEN e + 1 ELSE e
        <4>1. v \in E => E \cap T = (E \cap r) \cup {v} /\ v \notin E \cap r
          OBVIOUS
        <4>2. v \notin E => E \cap T = E \cap r
          OBVIOUS
        <4>3. v \in E => Cardinality((E \cap r) \cup {v}) = e + 1
          BY <3>2, <4>1, FS_AddElement
        <4> HIDE DEF r
        <4> QED BY <4>1, <4>2, <4>3
      <3>9. Cardinality(W \cap T) = IF v \in W THEN w + 1 ELSE w
        <4>1. v \in W => W \cap T = (W \cap r) \cup {v} /\ v \notin W \cap r
          OBVIOUS
        <4>2. v \notin W => W \cap T = W \cap r
          OBVIOUS
        <4>3. v \in W => Cardinality((W \cap r) \cup {v}) = w + 1
          BY <3>2, <4>1, FS_AddElement
        <4> HIDE DEF r
        <4> QED BY <4>1, <4>2, <4>3
      <3>10. v \in W => CostOf(M(T)) = f[v].lamports + Rent + c /\ f[v].lamports \in Nat
        <4> SUFFICES ASSUME v \in W
                     PROVE  CostOf(M(T)) = f[v].lamports + Rent + c /\ f[v].lamports \in Nat
          OBVIOUS
        <4> DEFINE ms == M(T)
                   m == f[v]
        <4>1. m \in ms /\ ms \ {m} = M(r) /\ ms \subseteq Move /\ IsFiniteSet(ms)
          BY <3>4
        <4> HIDE DEF ms, m, M
        <4>2. CostOf(ms) = m.lamports + Rent + CostOf(ms \ {m}) /\ m.lamports \in Nat
          BY ONLY <4>1, CostRemove
        <4> QED BY <4>1, <4>2 DEF ms, m
      <3>11. v \notin W => CostOf(M(T)) = c
        <4>1. v \notin W => M(T) = M(r)
          OBVIOUS
        <4> QED BY <4>1
      <3> DEFINE eq == e * q
                 wr == w * Rent
      <3>12. eq \in Nat /\ wr \in Nat /\ (e + 1) * q = eq + q /\ (w + 1) * Rent = wr + Rent
        BY <1>0, <3>3, MulFacts, MulDistributes
      <3>13. /\ v \in W => v \in E /\ f[v].lamports + stake[v] = q
             /\ v \in E => stake[v] <= q
             /\ v \notin E => stake[v] = 0
        OBVIOUS
      <3> DEFINE ce == Cardinality(E \cap T)
                 cw == Cardinality(W \cap T)
                 cm == CostOf(M(T))
                 ct == Total(stake, T)
      <3>14. cm + ct <= ce * q + cw * Rent
        <4>1. c + t <= eq + wr
          BY <3>6
        <4>2. /\ ce = IF v \in E THEN e + 1 ELSE e
              /\ cw = IF v \in W THEN w + 1 ELSE w
              /\ ct = stake[v] + t
              /\ v \in W => cm = f[v].lamports + Rent + c
              /\ v \notin W => cm = c
          BY <3>7, <3>8, <3>9, <3>10, <3>11
        <4>3. /\ ce * q = IF v \in E THEN eq + q ELSE eq
              /\ cw * Rent = IF v \in W THEN wr + Rent ELSE wr
          <5> HIDE DEF e, w, ce, cw
          <5> QED BY <3>12, <4>2
        <4> DEFINE x == ce * q
                   y == cw * Rent
        <4>4. /\ x = IF v \in E THEN eq + q ELSE eq
              /\ y = IF v \in W THEN wr + Rent ELSE wr
          BY <4>3
        <4> HIDE DEF x, y, ce, cw, cm, ct, eq, wr, c, t, M, P, r, e, w
        <4>5. cm + ct <= x + y
          BY <1>0, <3>5, <3>7, <3>10, <3>12, <3>13, <4>1, <4>2, <4>4
        <4> QED BY <4>5 DEF x, y
      <3> QED BY <3>14
    <2> QED BY <2>1, <2>2
  <1>2. \A T \in SUBSET Validators : T \in P
    <2> HIDE DEF P
    <2> QED BY <1>0, <1>1, SubsetInduction
  <1>3. left(Validators) <= right(Validators)
    BY <1>2
  <1>4. W \cap Validators = W /\ E \cap Validators = E
    OBVIOUS
  <1> QED BY <1>3, <1>4

\* The entries of the list, and the number they are divided by.
LEMMA EntriesFacts ==
  ASSUME PoolInv, Entries # {}
  PROVE  /\ Entries \subseteq Validators /\ IsFiniteSet(Entries)
         /\ Cardinality(Entries) \in Nat \ {0}
         /\ \A v \in Validators : /\ list[v].active \in Nat /\ list[v].transient \in Nat
                                  /\ list[v].seed \in Seeds
                                  /\ v \notin Entries => StakeLamports(v) = 0
  <1>1. Entries \subseteq Validators /\ IsFiniteSet(Entries)
    BY PoolAssumption, FS_Subset DEF Entries
  <1>2. Cardinality(Entries) \in Nat /\ Cardinality(Entries) # 0
    BY <1>1, FS_CardinalityType, FS_EmptySet
  <1>3. ASSUME NEW v \in Validators
        PROVE  /\ list[v].active \in Nat /\ list[v].transient \in Nat /\ list[v].seed \in Seeds
               /\ v \notin Entries => StakeLamports(v) = 0
    <2>1. RecordOK(list[v]) /\ list[v].active \in Nat /\ list[v].transient \in Nat
          /\ list[v].seed \in Seeds
      BY EntryFacts
    <2> QED BY <2>1 DEF RecordOK, Entries, Listed, StakeLamports
  <1> QED BY <1>1, <1>2, <1>3

\* The shares are integers.
LEMMA ShareTypes ==
  ASSUME PoolInv, Entries # {}, NEW total \in Nat
  PROVE  /\ EvenShare(total) \in Int /\ TotalUsable(total) \in Int /\ Share(total) \in Int
         /\ IsFiniteSet(Below(total)) /\ Cardinality(Below(total)) \in Nat
  <1>1. IsFiniteSet(Below(total)) /\ Cardinality(Below(total)) \in Nat
    <2>1. Below(total) \in SUBSET Entries
      BY DEF Below
    <2> QED BY <2>1, EntriesFacts, FS_Subset, FS_CardinalityType
  <1>2. EvenShare(total) \in Int
    BY BotConstants, EntriesFacts DEF EvenShare
  <1>3. TotalUsable(total) \in Int
    <2> DEFINE k == Cardinality(Below(total))
    <2>1. k * Rent \in Nat
      BY <1>1, BotConstants, MulFacts
    <2> HIDE DEF k
    <2> QED BY <2>1, BotConstants DEF TotalUsable, k
  <1>4. Share(total) \in Int
    BY <1>3, EntriesFacts DEF Share
  <1> QED BY <1>1, <1>2, <1>3, <1>4

\* A plan is a finite set of moves.
LEMMA PlanType ==
  ASSUME PoolInv, Entries # {}, NEW total \in Nat
  PROVE  Plan(total) \subseteq Move /\ IsFiniteSet(Plan(total))
  <1> DEFINE q == Share(total)
             D == {w \in CanBePlanned : list[w].active - q > Rent}
             I == {w \in CanBePlanned : list[w].active < q /\ q - list[w].active >= BotMinimum}
             d == [v \in Validators |-> ToMove("decrease", v, list[v].active - q)]
             i == [v \in Validators |-> ToMove("increase", v, q - list[v].active)]
  <1>1. q \in Int
    BY ShareTypes
  <1>2. Plan(total) = {d[v] : v \in D} \cup {i[v] : v \in I}
    BY EntriesFacts DEF Plan, Decreases, Increases, CanBePlanned
  <1>3. D \subseteq Entries /\ I \subseteq Entries
    BY DEF CanBePlanned
  <1>4. IsFiniteSet(D) /\ IsFiniteSet(I)
    BY <1>3, EntriesFacts, FS_Subset
  <1> HIDE DEF q
  <1>5. ASSUME NEW v \in D PROVE d[v] \in Move
    BY <1>1, <1>3, EntriesFacts, BotConstants DEF ToMove, Move, Kinds
  <1>6. ASSUME NEW v \in I PROVE i[v] \in Move
    BY <1>1, <1>3, EntriesFacts, BotConstants DEF ToMove, Move, Kinds
  <1> HIDE DEF d, i, D, I
  <1>7. IsFiniteSet({d[v] : v \in D}) /\ IsFiniteSet({i[v] : v \in I})
    BY <1>4, ImageFinite
  <1>8. IsFiniteSet({d[v] : v \in D} \cup {i[v] : v \in I})
    BY <1>7, FS_Union
  <1> QED BY <1>2, <1>5, <1>6, <1>8

\* A plan that takes from nobody, made with a total that is covered, can be
\* paid for: the stakes it leads to are at most the share, and the share leaves
\* out the rents of at least as many accounts as it opens.
LEMMA PlanFits ==
  ASSUME PoolInv, Entries # {}, NEW total \in Nat, PlanningOK(total, list, reserve),
         \A v \in Entries : IsActive(v) /\ StakeLamports(v) <= Share(total)
  PROVE  MovingOK(Plan(total), list, reserve)
  <1> DEFINE q == Share(total)
             n == Cardinality(Entries)
             W == {w \in CanBePlanned : list[w].active < q /\ q - list[w].active >= BotMinimum}
             stake == [v \in Validators |-> Recorded(list[v])]
             f == [v \in Validators |-> ToMove("increase", v, q - list[v].active)]
             usable == TotalUsable(total)
             b == Cardinality(Below(total))
  <1>1. /\ usable \in Int /\ q \in Int /\ n \in Nat \ {0} /\ b \in Nat
        /\ IsFiniteSet(Below(total))
    BY ShareTypes, EntriesFacts
  <1>2. \A v \in Validators : stake[v] = StakeLamports(v) /\ stake[v] \in Nat
    BY EntriesFacts DEF Recorded, StakeLamports
  <1>3. q >= 0
    <2>1. PICK v \in Entries : TRUE
      OBVIOUS
    <2>2. StakeLamports(v) \in Nat /\ StakeLamports(v) <= q
      BY <2>1, <1>2, EntriesFacts
    <2> HIDE DEF q
    <2> QED BY <1>1, <2>2
  <1>4. usable \in Nat /\ q \in Nat /\ n * q <= usable
    <2>1. q = usable \div n
      BY DEF Share
    <2> HIDE DEF q, usable, n
    <2> QED BY <1>1, <1>3, <2>1, ShareOf
  <1>5. b * Rent \in Nat /\ usable = total - Retained - b * Rent
    BY <1>1, BotConstants, MulFacts DEF TotalUsable
  <1>6. total - Retained \in Nat /\ usable <= total - Retained
    <2> HIDE DEF usable, b
    <2> QED BY <1>4, <1>5, BotConstants
  <1>7. q <= EvenShare(total)
    <2>1. q = usable \div n /\ EvenShare(total) = (total - Retained) \div n
      BY DEF Share, EvenShare
    <2> HIDE DEF q, usable, n
    <2> QED BY <1>1, <1>4, <1>6, <2>1, DivMonotonic
  <1>8. W \in SUBSET Below(total) /\ W \in SUBSET Entries
    <2>1. EvenShare(total) \in Int
      BY ShareTypes
    <2> HIDE DEF q
    <2> QED BY <1>1, <1>7, <2>1, EntriesFacts DEF CanBePlanned, Below
  <1>9. Cardinality(W) \in Nat /\ Cardinality(W) <= b /\ IsFiniteSet(W)
    <2> HIDE DEF W
    <2>1. IsFiniteSet(W) /\ Cardinality(W) <= b
      BY <1>1, <1>8, FS_Subset
    <2> QED BY <2>1, FS_CardinalityType
  <1>10. Plan(total) = {f[v] : v \in W}
    <2>1. Decreases(total) = {}
      <3> SUFFICES ASSUME NEW w \in CanBePlanned PROVE ~(list[w].active - q > Rent)
        BY DEF Decreases
      <3>1. w \in Entries /\ list[w].transient = 0 /\ w \in Validators
        BY EntriesFacts DEF CanBePlanned
      <3>2. list[w].active \in Nat /\ list[w].active + list[w].transient <= q
        BY <3>1, EntriesFacts DEF StakeLamports
      <3> HIDE DEF q
      <3> QED BY <1>1, <3>1, <3>2, BotConstants
    <2>2. Increases(total) = {f[v] : v \in W}
      BY EntriesFacts DEF Increases, CanBePlanned
    <2> QED BY <2>1, <2>2 DEF Plan
  <1>11. ASSUME NEW v \in W
         PROVE  /\ f[v] \in Move /\ f[v].v = v /\ f[v].lamports + stake[v] = q
                /\ Movable(f[v], list)
    <2>1. v \in Validators /\ v \in Entries /\ list[v].transient = 0 /\ list[v].active < q
          /\ q - list[v].active >= BotMinimum
      BY <1>8, EntriesFacts DEF CanBePlanned
    <2>2. list[v].active \in Nat /\ list[v].seed \in Seeds
      BY <2>1, EntriesFacts
    <2>3. f[v] = ToMove("increase", v, q - list[v].active) /\ stake[v] = list[v].active
      BY <2>1, <2>2 DEF Recorded
    <2>4. list[v].status = "Active"
      BY <2>1 DEF IsActive
    <2> HIDE DEF q, f, stake
    <2> QED BY <1>1, <2>1, <2>2, <2>3, <2>4, BotConstants DEF ToMove, Move, Kinds, Movable
  <1>12. CostOf({f[v] : v \in W}) + Total(stake, Validators) <= n * q + Cardinality(W) * Rent
    <2>1. /\ \A v \in Validators : stake[v] \in Nat
          /\ \A v \in Entries : stake[v] <= q
          /\ \A v \in Validators \ Entries : stake[v] = 0
          /\ Entries \in SUBSET Validators
      BY <1>2, EntriesFacts
    <2>2. \A v \in W : f[v] \in Move /\ f[v].v = v /\ f[v].lamports + stake[v] = q
      BY <1>11
    <2>3. q \in Nat /\ W \in SUBSET Entries
      BY <1>4, <1>8
    <2> HIDE DEF q, W, f, stake
    <2>4. CostOf({f[v] : v \in W}) + Total(stake, Validators)
            <= Cardinality(Entries) * q + Cardinality(W) * Rent
      BY ONLY <2>1, <2>2, <2>3, CostToLevel
    <2> QED BY <2>4
  <1>13. Total(stake, Validators) = ListTotal(list)
    BY DEF ListTotal
  <1>14. Cardinality(W) * Rent \in Nat /\ Cardinality(W) * Rent <= b * Rent
    <2> HIDE DEF W, b
    <2> QED BY <1>1, <1>9, BotConstants, MulMonotonic, MulFacts
  <1>15. IsFiniteSet(Plan(total)) /\ Plan(total) \subseteq Move
    BY PlanType
  <1>16. reserve - Rent - CostOf(Plan(total)) >= Retained
    <2> DEFINE c == CostOf(Plan(total))
               s == ListTotal(list)
               x == n * q
               y == Cardinality(W) * Rent
               z == b * Rent
    <2>1. c \in Nat
      BY <1>15, CostType
    <2>2. s \in Nat
      BY TotalOfList DEF PoolInv, StakeInv, StakeOK
    <2>3. c + s <= x + y
      BY <1>10, <1>12, <1>13
    <2>4. x <= usable /\ y <= z /\ usable = total - Retained - z /\ z \in Nat /\ y \in Nat
          /\ x \in Nat
      <3>1. n * q \in Nat
        <4> HIDE DEF n, q
        <4> QED BY <1>1, <1>4, MulFacts
      <3> QED BY <1>4, <1>5, <1>14, <3>1
    <2>5. total <= reserve - Rent + s /\ reserve \in Nat
      BY DEF PlanningOK, PoolInv, StakeInv, StakeOK
    <2> HIDE DEF c, s, x, y, z, usable
    <2>6. reserve - Rent - c >= Retained
      BY <1>4, <2>1, <2>2, <2>3, <2>4, <2>5, BotConstants
    <2> QED BY <2>6 DEF c
  <1>17. \A k, m \in {f[v] : v \in W} : k.v = m.v => k = m
    <2>1. ASSUME NEW v \in W, NEW w \in W, f[v].v = f[w].v PROVE f[v] = f[w]
      <3>1. f[v].v = v /\ f[w].v = w
        BY <1>11
      <3> HIDE DEF f
      <3> QED BY <2>1, <3>1
    <2> HIDE DEF f, W
    <2> QED BY <2>1
  <1>18. \A m \in {f[v] : v \in W} : Movable(m, list)
    <2> HIDE DEF f, W
    <2> QED BY <1>11
  <1> QED BY <1>10, <1>16, <1>17, <1>18 DEF MovingOK
----------------------------------------------------------------------------
(* The steps of the pool.                                                  *)

\* A step that leaves fees, value and settings alone keeps what the invariant of
\* the pool says of them.
LEMMA QuietPool ==
  ASSUME PoolInv, StakeInv', rewards_active' \in BOOLEAN,
         UNCHANGED <<feeVars, valueVars, configVars>>
  PROVE  PoolInv'
  <1>1. FeeInv'
    BY DEF PoolInv, FeeInv, FeeTypeOK, FeesAtMostWhole, feeVars
  <1>2. ConfigTypes' /\ MoneyInv'
    BY DEF PoolInv, ConfigTypes, MoneyInv, MoneyOK, configVars, valueVars
  <1> QED BY <1>1, <1>2 DEF PoolInv

\* A move is an instruction of the pool, whatever its amount.
LEMMA ExecuteKeeps ==
  ASSUME LifecycleInv, NEW m \in Move, Execute(m)
  PROVE  /\ LifecycleInv'
         /\ UNCHANGED <<feeVars, configVars>>
  <1> DEFINE l == m.lamports
             s == m.seed
             v == m.v
  <1>1. v \in Validators /\ l \in Nat /\ s \in Seeds
    BY DEF Move
  <1>2. PoolInv
    BY DEF LifecycleInv
  <1>3. CASE m.kind = "increase" /\ IncreaseValidatorStake(v, l, s, FALSE)
    <2> HIDE DEF v, l, s
    <2>1. /\ UNCHANGED <<feeVars, valueVars, configVars, rewards_active>>
          /\ list' = [list EXCEPT ![v].transient = @ + (l + Rent), ![v].seed = s]
      BY <1>3 DEF IncreaseValidatorStake
    <2>2. StakeInv' /\ LifeInv'
      BY <1>1, <1>2, <1>3, IncreaseStep, IncreaseLife
    <2>3. \A w \in Validators : /\ list'[w].last_update = list[w].last_update
                                /\ list'[w].status = list[w].status
      BY <1>1, <1>2, <2>1, EntryFacts DEF Entry, PoolInv, StakeInv, StakeOK
    <2>4. ClockInv'
      BY <2>1, <2>3, QuietClock DEF feeVars
    <2>5. rewards_active' \in BOOLEAN
      BY <1>2, <2>1 DEF PoolInv, ConfigTypes
    <2> QED BY <1>2, <2>1, <2>2, <2>4, <2>5, QuietPool DEF LifecycleInv
  <1>4. CASE m.kind = "decrease" /\ DecreaseValidatorStake(v, l, s, TRUE)
    <2> HIDE DEF v, l, s
    <2>1. /\ UNCHANGED <<feeVars, valueVars, configVars, rewards_active>>
          /\ \E x : list' = [list EXCEPT ![v].active = @ - l, ![v].transient = x, ![v].seed = s]
      BY <1>4 DEF DecreaseValidatorStake, RecordDecrease
    <2>2. StakeInv' /\ LifeInv'
      BY <1>1, <1>2, <1>4, DecreaseValidatorStep, DecreaseValidatorLife
    <2>3. \A w \in Validators : /\ list'[w].last_update = list[w].last_update
                                /\ list'[w].status = list[w].status
      BY <1>1, <1>2, <2>1, EntryFacts DEF Entry, PoolInv, StakeInv, StakeOK
    <2>4. ClockInv'
      BY <2>1, <2>3, QuietClock DEF feeVars
    <2>5. rewards_active' \in BOOLEAN
      BY <1>2, <2>1 DEF PoolInv, ConfigTypes
    <2> QED BY <1>2, <2>1, <2>2, <2>4, <2>5, QuietPool DEF LifecycleInv
  <1> QED BY <1>3, <1>4 DEF Execute

\* The same holds of the end of a distribution that pays nothing.
LEMMA NoRewardsKeep ==
  ASSUME LifecycleInv, DistributeRewards({}, 0)
  PROVE  LifecycleInv'
  <1>1. PoolInv
    BY DEF LifecycleInv
  <1>2. /\ UNCHANGED <<feeVars, valueVars, configVars, list>> /\ rewards_active' = FALSE
    BY DEF DistributeRewards
  <1>3. StakeInv' /\ LifeInv'
    BY <1>1, RewardsStep, RewardsLife
  <1>4. ClockInv'
    BY <1>2, QuietClock DEF feeVars
  <1> QED BY <1>1, <1>2, <1>3, <1>4, QuietPool DEF LifecycleInv

\* An update loses nothing of what reserve and records hold, and takes nothing
\* from the reserve.
LEMMA UpdateGrows ==
  ASSUME PoolInv, NEW v \in Validators, NEW no_merge \in BOOLEAN,
         UpdateValidatorListBalance(v, no_merge)
  PROVE  /\ reserve' >= reserve
         /\ reserve' + ListTotal(list') >= reserve + ListTotal(list)
  <1> DEFINE u == UpdateEntry(v, no_merge)
             e == [list[v] EXCEPT !.status = u.status, !.active = u.active,
                                  !.transient = u.found, !.last_update = epoch]
  <1>1. Done(v, u)
    BY UpdateDone DEF UpdateValidatorListBalance
  <1>2. list' = [list EXCEPT ![v] = e] /\ reserve' = u.reserve
    BY DEF UpdateValidatorListBalance, PoolInv, StakeInv, StakeOK
  <1>3. /\ list \in [Validators -> Entry] /\ list[v] \in Entry /\ reserve \in Nat
        /\ list[v].active \in Nat /\ list[v].transient \in Nat /\ epoch \in Nat
    BY EntryFacts DEF PoolInv, StakeInv, StakeOK
  <1> HIDE DEF u
  <1>4. /\ u.reserve \in Nat /\ u.active \in Nat /\ u.found \in Nat
        /\ u.status \in Statuses \cup {"NotListed"}
        /\ u.reserve >= reserve
        /\ u.reserve + u.active + u.found >= reserve + list[v].active + list[v].transient
    BY <1>1 DEF Done, Work
  <1>5. e \in Entry /\ Recorded(e) = u.active + u.found
        /\ Recorded(list[v]) = list[v].active + list[v].transient
    BY <1>3, <1>4 DEF Entry, Recorded
  <1> HIDE DEF e
  <1>6. ListTotal(list') + Recorded(list[v]) = ListTotal(list) + Recorded(e)
    BY <1>2, <1>3, <1>5, TotalOfListChanged
  <1>7. list' \in [Validators -> Entry]
    BY <1>2, <1>3, <1>5
  <1>8. ListTotal(list) \in Nat /\ ListTotal(list') \in Nat
    BY <1>3, <1>7, TotalOfList
  <1> QED BY <1>2, <1>3, <1>4, <1>5, <1>6, <1>8

\* An update leaves an active entry without transient stake as it is: its
\* account is there, for nobody destakes it, and there is nothing to merge.
LEMMA UpdateKeepsReady ==
  ASSUME LifecycleInv, NEW v \in Validators, NEW no_merge \in BOOLEAN,
         UpdateValidatorListBalance(v, no_merge), IsActive(v), list[v].transient = 0
  PROVE  list'[v].status = "Active" /\ list'[v].transient = 0
  <1> DEFINE u == Begin(v)
             s == SweepExtra(u)
  <1>1. vstake[v].kind = "stake" /\ vstake[v].mine = TRUE
    BY RowFacts, BotConstants, ShapeFacts DEF Alive, IsActive
  <1>2. UpdateTransient(v, no_merge) = u
    BY DEF UpdateTransient
  <1>3. /\ u.status = "Active" /\ u.found = 0 /\ u.vs = vstake[v]
        /\ s.status = "Active" /\ s.found = 0
    BY DEF Begin, SweepExtra, IsActive
  <1>4. UpdateEntry(v, no_merge) = CountValidator(s)
    BY <1>1, <1>2, <1>3 DEF UpdateEntry, UpdateValidator, UsableByPool
  <1>5. CountValidator(s).status = "Active" /\ CountValidator(s).found = 0
    BY <1>3 DEF CountValidator, SweepExtra, Begin
  <1>6. list[v] \in Entry /\ list \in [Validators -> Entry]
    BY EntryFacts DEF LifecycleInv, PoolInv, StakeInv, StakeOK
  <1> HIDE DEF s, u
  <1> QED BY <1>4, <1>5, <1>6 DEF UpdateValidatorListBalance, Entry
----------------------------------------------------------------------------
(* The steps of the bot, and of what goes on around it.                    *)

\* A step that nobody has to answer for: once the round is over or interfered
\* with, nothing is left to keep but the types.
LEMMA NotClean ==
  ASSUME LifecycleInv', BotTypes', clean' = FALSE
  PROVE  BotInv'
  BY DEF BotInv, RoundOK

\* What goes on in the pool while nobody interferes with the round.
LEMMA RoundKept ==
  ASSUME BotInv, LifecycleInv', UNCHANGED <<botVars, max_validator_stake>>,
         UpToDate => UpToDate',
         reserve' >= reserve, reserve' + ListTotal(list') >= reserve + ListTotal(list),
         \A v \in Validators :
           list[v].status = "Active" /\ list[v].transient = 0
             => list'[v].status = "Active" /\ list'[v].transient = 0
  PROVE  BotInv'
  <1>1. BotTypes'
    BY DEF BotInv, BotTypes, botVars, roundVars
  <1>2. /\ phase' = phase /\ read_total' = read_total /\ moves' = moves
        /\ clean' = clean /\ level' = level
    BY DEF botVars, roundVars, historyVars
  <1>3. /\ read_total \in Nat /\ moves \subseteq Move /\ IsFiniteSet(moves)
        /\ CostOf(moves) \in Nat
    BY CostType DEF BotInv, BotTypes
  <1>4. reserve \in Nat /\ reserve' \in Nat /\ list \in [Validators -> Entry]
        /\ list' \in [Validators -> Entry]
    BY DEF BotInv, LifecycleInv, PoolInv, StakeInv, StakeOK
  <1>5. ListTotal(list) \in Nat /\ ListTotal(list') \in Nat
    BY <1>4, TotalOfList
  <1>6. PlanningOK(read_total, list, reserve) => PlanningOK(read_total, list', reserve')
    BY <1>3, <1>4, <1>5, BotConstants DEF PlanningOK
  <1>7. MovingOK(moves, list, reserve) => MovingOK(moves, list', reserve')
    <2>1. ASSUME NEW m \in moves, Movable(m, list) PROVE Movable(m, list')
      BY <1>3, <2>1 DEF Movable, Move
    <2>2. reserve - Rent - CostOf(moves) >= Retained => reserve' - Rent - CostOf(moves) >= Retained
      BY <1>3, <1>4, BotConstants
    <2> QED BY <2>1, <2>2 DEF MovingOK
  <1>8. RoundOK'
    BY <1>2, <1>6, <1>7 DEF BotInv, RoundOK
  <1> QED BY <1>1, <1>8 DEF BotInv

\* The bot reads the pool.
LEMMA ReadPoolStep ==
  ASSUME BotInv, ReadPool PROVE BotInv'
  <1>1. UNCHANGED vars /\ UNCHANGED <<moves, late>> /\ phase = "idle" /\ phase' = "planning"
        /\ read_total' = total_lamports /\ last_update_epoch = epoch
    BY DEF ReadPool
  <1>2. LifecycleInv'
    BY <1>1, LifecycleStep DEF BotInv
  <1>3. total_lamports \in Nat /\ PlanningOK(total_lamports, list, reserve) /\ epoch \in Nat
    BY DEF BotInv, LifecycleInv, PoolInv, StakeInv, StakeOK, PlanningOK, FeeInv, FeeTypeOK
  <1>4. BotTypes'
    BY <1>1, <1>3 DEF BotInv, BotTypes, vars, configVars
  <1>5. UpToDate' /\ list' = list /\ reserve' = reserve
    BY <1>1, <1>3 DEF UpToDate, vars, feeVars, stakeVars
  <1>6. RoundOK'
    BY <1>1, <1>3, <1>5 DEF RoundOK
  <1> QED BY <1>2, <1>4, <1>6 DEF BotInv

\* It reads the list, and plans.
LEMMA ReadListStep ==
  ASSUME BotInv, ReadList PROVE BotInv'
  <1>1. /\ UNCHANGED vars /\ UNCHANGED <<read_total, late, clean>>
        /\ phase = "planning" /\ phase' = "moving" /\ Entries # {}
        /\ moves' = Plan(read_total)
        /\ level' = \A v \in Entries : IsActive(v) /\ StakeLamports(v) <= Share(read_total)
    BY DEF ReadList
  <1>2. LifecycleInv' /\ PoolInv /\ read_total \in Nat
    BY <1>1, LifecycleStep DEF BotInv, LifecycleInv, BotTypes
  <1>3. moves' \subseteq Move /\ IsFiniteSet(moves')
    BY <1>1, <1>2, PlanType
  <1>4. BotTypes'
    BY <1>1, <1>2, <1>3 DEF BotInv, BotTypes, vars, configVars
  <1>5. list' = list /\ reserve' = reserve /\ (UpToDate => UpToDate')
    BY <1>1 DEF UpToDate, vars, feeVars, stakeVars
  <1>6. ASSUME clean, level' PROVE MovingOK(moves', list, reserve)
    <2>1. PlanningOK(read_total, list, reserve)
      BY <1>1, <1>6 DEF BotInv, RoundOK
    <2>2. \A v \in Entries : IsActive(v) /\ StakeLamports(v) <= Share(read_total)
      BY <1>1, <1>6, Zenon
    <2> QED BY <1>1, <1>2, <2>1, <2>2, PlanFits
  <1>7. RoundOK'
    BY <1>1, <1>5, <1>6 DEF BotInv, RoundOK
  <1> QED BY <1>2, <1>4, <1>7 DEF BotInv

\* A move is sent: it gets a seed, and costs what it did.
LEMMA SendStep ==
  ASSUME BotInv, NEW m \in moves, Send(m) PROVE BotInv'
  <1> DEFINE k == [m EXCEPT !.sent = TRUE, !.seed = NextSeed(m.v)]
             rest == moves \ {m}
  <1>1. /\ UNCHANGED vars /\ UNCHANGED <<phase, read_total, late, clean, level>>
        /\ phase = "moving" /\ moves' = rest \cup {k}
    BY DEF Send, historyVars
  <1>2. LifecycleInv' /\ PoolInv /\ moves \subseteq Move /\ IsFiniteSet(moves)
    BY <1>1, LifecycleStep DEF BotInv, LifecycleInv, BotTypes
  <1>3. NextSeed(m.v) \in Seeds
    BY <1>2, NextSeedIn DEF Move
  <1>4. k \in Move /\ k.v = m.v /\ k.kind = m.kind /\ k.lamports = m.lamports
    BY <1>2, <1>3 DEF Move
  <1> HIDE DEF k
  <1>5. /\ IsFiniteSet(rest) /\ CostOf(rest) \in Nat /\ m.lamports \in Nat
        /\ CostOf(moves) = m.lamports + Rent + CostOf(rest)
    BY <1>2, CostRemove
  <1>6. moves' \subseteq Move /\ IsFiniteSet(moves')
    BY <1>1, <1>2, <1>4, <1>5, FS_AddElement
  <1>7. BotTypes'
    BY <1>1, <1>6 DEF BotInv, BotTypes, vars, configVars
  <1>8. list' = list /\ reserve' = reserve /\ (UpToDate => UpToDate')
    BY <1>1 DEF UpToDate, vars, feeVars, stakeVars
  <1>9. ASSUME MovingOK(moves, list, reserve) PROVE MovingOK(moves', list, reserve)
    <2>1. /\ \A n \in moves : Movable(n, list)
          /\ \A x, y \in moves : x.v = y.v => x = y
          /\ reserve - Rent - CostOf(moves) >= Retained
      BY <1>9 DEF MovingOK
    <2>2. k \notin rest
      BY <1>4, <2>1
    <2>3. CostOf(moves') = CostOf(moves)
      <3>1. k \in moves' /\ moves' \ {k} = rest
        BY <1>1, <2>2
      <3>2. CostOf(moves') = k.lamports + Rent + CostOf(moves' \ {k})
        BY <1>6, <3>1, CostRemove
      <3> QED BY <1>4, <1>5, <3>1, <3>2
    <2>4. Movable(k, list)
      BY <1>4, <2>1 DEF Movable
    <2>5. \A n \in moves' : Movable(n, list)
      BY <1>1, <2>1, <2>4
    <2>6. \A x, y \in moves' : x.v = y.v => x = y
      BY <1>1, <1>4, <2>1
    <2> QED BY <2>1, <2>3, <2>5, <2>6 DEF MovingOK
  <1>10. RoundOK'
    BY <1>1, <1>8, <1>9 DEF BotInv, RoundOK
  <1> QED BY <1>2, <1>7, <1>10 DEF BotInv

\* A move takes effect. It takes its cost from the reserve and leaves the other
\* validators alone.
LEMMA LandStep ==
  ASSUME BotInv, NEW m \in moves, Land(m) PROVE BotInv'
  <1> DEFINE rest == moves \ {m}
  <1>1. /\ Execute(m) /\ moves' = rest
        /\ UNCHANGED <<phase, read_total, late, clean, level>>
    BY DEF Land, historyVars
  <1>2. /\ moves \subseteq Move /\ IsFiniteSet(moves) /\ m \in Move /\ LifecycleInv
        /\ phase = "moving"
    BY DEF BotInv, BotTypes
  <1>3. LifecycleInv' /\ UNCHANGED <<feeVars, configVars>>
    BY <1>1, <1>2, ExecuteKeeps
  <1>4. /\ IsFiniteSet(rest) /\ CostOf(rest) \in Nat /\ m.lamports \in Nat
        /\ CostOf(moves) = m.lamports + Rent + CostOf(rest)
    BY <1>2, CostRemove
  <1>5. BotTypes'
    BY <1>1, <1>2, <1>3, <1>4 DEF BotInv, BotTypes, configVars
  <1>6. UpToDate => UpToDate'
    BY <1>3 DEF UpToDate, feeVars
  <1>7. ASSUME MovingOK(moves, list, reserve) PROVE MovingOK(rest, list', reserve')
    <2>1. /\ \A n \in moves : Movable(n, list)
          /\ \A x, y \in moves : x.v = y.v => x = y
          /\ reserve - Rent - CostOf(moves) >= Retained
      BY <1>7 DEF MovingOK
    <2>2. m.kind = "increase"
      BY <2>1 DEF Movable
    <2>3. IncreaseValidatorStake(m.v, m.lamports, m.seed, FALSE)
      BY <1>1, <2>2 DEF Execute
    <2>4. /\ reserve' = reserve - (m.lamports + Rent)
          /\ list' = [list EXCEPT ![m.v].transient = @ + (m.lamports + Rent), ![m.v].seed = m.seed]
      BY <2>3 DEF IncreaseValidatorStake
    <2>5. reserve \in Nat /\ list \in [Validators -> Entry]
      BY <1>2 DEF LifecycleInv, PoolInv, StakeInv, StakeOK
    <2>6. \A n \in rest : Movable(n, list')
      <3> SUFFICES ASSUME NEW n \in rest PROVE Movable(n, list')
        OBVIOUS
      <3>1. n.v # m.v /\ n.v \in Validators
        BY <1>2, <2>1 DEF Move
      <3>2. list'[n.v] = list[n.v]
        BY <2>4, <2>5, <3>1
      <3> QED BY <2>1, <3>2 DEF Movable
    <2>7. reserve' - Rent - CostOf(rest) >= Retained
      BY <1>4, <2>1, <2>4, <2>5, BotConstants
    <2> QED BY <2>1, <2>6, <2>7 DEF MovingOK
  <1>8. RoundOK'
    BY <1>1, <1>2, <1>6, <1>7 DEF BotInv, RoundOK
  <1> QED BY <1>3, <1>5, <1>8 DEF BotInv

\* What others do to the pool is a step of it that leaves the stake limit alone.
LEMMA OthersStep ==
  ASSUME LifecycleInv,
         Others \/ NewEpoch \/ CleanupRemovedValidatorEntries(TRUE)
  PROVE  LifecycleInv' /\ max_validator_stake' = max_validator_stake
  <1>1. CASE NewEpoch
    <2>1. Next
      BY <1>1 DEF Next, Cluster
    <2> QED BY <1>1, <2>1, LifecycleStep DEF NewEpoch, configVars
  <1>2. CASE CleanupRemovedValidatorEntries(TRUE)
    <2>1. Next
      BY <1>2 DEF Next, Crank
    <2> QED BY <1>2, <2>1, LifecycleStep DEF CleanupRemovedValidatorEntries
  <1>3. ASSUME NEW v \in Validators, Staker(v)
        PROVE  LifecycleInv' /\ max_validator_stake' = max_validator_stake
    <2>1. Next
      BY <1>3 DEF Next
    <2>2. max_validator_stake' = max_validator_stake
      <3>1. ASSUME AddValidatorToPool(v) PROVE UNCHANGED configVars
        BY <3>1 DEF AddValidatorToPool
      <3>2. ASSUME RemoveValidatorFromPool(v) \/ \E o \in Options : SetPreferredValidator(o, v)
            PROVE  max_validator_stake' = max_validator_stake
        BY <3>2 DEF RemoveValidatorFromPool, SetPreferredValidator
      <3>3. ASSUME NEW l, NEW s, NEW fund,
                   DecreaseValidatorStake(v, l, s, fund) \/ DecreaseAdditionalValidatorStake(v, l, s)
            PROVE  UNCHANGED configVars
        BY <3>3 DEF DecreaseValidatorStake, DecreaseAdditionalValidatorStake, RecordDecrease
      <3>4. ASSUME NEW l, NEW s, NEW ephemeral, IncreaseValidatorStake(v, l, s, ephemeral)
            PROVE  UNCHANGED configVars
        BY <3>4 DEF IncreaseValidatorStake
      <3> QED BY <1>3, <3>1, <3>2, <3>3, <3>4 DEF Staker, configVars
    <2> QED BY <2>1, <2>2, LifecycleStep
  <1>4. ASSUME NEW v \in Validators, UpdateValidatorListBalance(v, TRUE)
        PROVE  LifecycleInv' /\ max_validator_stake' = max_validator_stake
    <2>1. Next
      BY <1>4 DEF Next, Crank
    <2> QED BY <1>4, <2>1, LifecycleStep DEF UpdateValidatorListBalance, configVars
  <1>5. CASE User
    <2>1. Next
      BY <1>5 DEF Next
    <2>2. max_validator_stake' = max_validator_stake
      <3>1. ASSUME NEW l, DepositSol(l) PROVE UNCHANGED configVars
        BY <3>1 DEF DepositSol
      <3>2. ASSUME NEW v, NEW u, DepositStake(v, u) PROVE UNCHANGED configVars
        BY <3>2 DEF DepositStake
      <3>3. ASSUME NEW h, NEW a, WithdrawSol(h, a) \/ WithdrawStakeFromReserve(h, a)
            PROVE  UNCHANGED configVars
        BY <3>3 DEF WithdrawSol, WithdrawStakeFromReserve
      <3>4. ASSUME NEW v, NEW h, NEW a,
                   WithdrawActiveStake(v, h, a) \/ WithdrawTransientStake(v, h, a)
            PROVE  UNCHANGED configVars
        BY <3>4 DEF WithdrawActiveStake, WithdrawTransientStake
      <3>5. ASSUME NEW v, NEW h, NEW a, WithdrawWholeValidator(v, h, a)
            PROVE  max_validator_stake' = max_validator_stake
        BY <3>5 DEF WithdrawWholeValidator
      <3> QED BY <1>5, <3>1, <3>2, <3>3, <3>4, <3>5 DEF User, configVars
    <2> QED BY <2>1, <2>2, LifecycleStep
  <1>6. ASSUME NEW W \in SUBSET Validators, NEW r \in Rewards, DistributeRewards(W, r)
        PROVE  LifecycleInv' /\ max_validator_stake' = max_validator_stake
    <2>1. Next
      BY <1>6 DEF Next, Cluster
    <2> QED BY <1>6, <2>1, LifecycleStep DEF DistributeRewards, configVars
  <1> QED BY <1>1, <1>2, <1>3, <1>4, <1>5, <1>6 DEF Others

\* The updates that go on all the time.
LEMMA RoutineStep ==
  ASSUME BotInv, Routine, UNCHANGED botVars PROVE BotInv'
  <1>0. LifecycleInv /\ PoolInv /\ reserve \in Nat /\ list \in [Validators -> Entry]
    BY DEF BotInv, LifecycleInv, PoolInv, StakeInv, StakeOK
  <1>1. ListTotal(list) \in Nat
    BY <1>0, TotalOfList
  <1>2. ASSUME LifecycleInv', max_validator_stake' = max_validator_stake,
               UpToDate => UpToDate', list' = list, reserve' = reserve
        PROVE  BotInv'
    BY <1>0, <1>1, <1>2, RoundKept
  <1>3. CASE DistributeRewards({}, 0)
    <2>1. LifecycleInv'
      BY <1>0, <1>3, NoRewardsKeep
    <2> QED BY <1>2, <1>3, <2>1 DEF DistributeRewards, configVars, UpToDate, feeVars
  <1>4. ASSUME NEW v \in Validators, UpdateValidatorListBalance(v, FALSE)
        PROVE  BotInv'
    <2>1. Next
      BY <1>4 DEF Next, Crank
    <2>2. LifecycleInv'
      BY <1>0, <2>1, LifecycleStep
    <2>3. UNCHANGED <<feeVars, configVars>>
      BY <1>4 DEF UpdateValidatorListBalance
    <2>4. UpToDate => UpToDate'
      BY <2>3 DEF UpToDate, feeVars
    <2>5. ASSUME NEW w \in Validators, list[w].status = "Active", list[w].transient = 0
          PROVE  list'[w].status = "Active" /\ list'[w].transient = 0
      <3>1. CASE w = v
        BY <1>0, <1>4, <2>5, <3>1, UpdateKeepsReady DEF IsActive
      <3>2. CASE w # v
        BY <1>0, <1>4, <2>5, <3>2 DEF UpdateValidatorListBalance
      <3> QED BY <3>1, <3>2
    <2>6. /\ reserve' >= reserve
          /\ reserve' + ListTotal(list') >= reserve + ListTotal(list)
      BY <1>0, <1>4, UpdateGrows
    <2> QED BY <2>2, <2>3, <2>4, <2>5, <2>6, RoundKept DEF configVars
  <1>5. CASE UpdateStakePoolBalance
    <2>1. Next
      BY <1>5 DEF Next, Crank
    <2>2. LifecycleInv'
      BY <1>0, <2>1, LifecycleStep
    <2>3. UpToDate'
      <3>1. /\ epoch' = epoch /\ epoch \in Nat /\ last_update_epoch \in Nat
            /\ last_update_epoch' = IF FirstInEpoch THEN epoch ELSE last_update_epoch
        BY <1>0, <1>5 DEF UpdateStakePoolBalance, AdvanceFees, PoolInv, FeeInv, FeeTypeOK
      <3> QED BY <3>1 DEF UpToDate, FirstInEpoch
    <2> QED BY <1>2, <1>5, <2>2, <2>3 DEF UpdateStakePoolBalance, configVars, stakeVars
  <1>6. CASE CleanupRemovedValidatorEntries(TRUE) /\ list' = list
    <2>1. LifecycleInv' /\ max_validator_stake' = max_validator_stake
      BY <1>0, <1>6, OthersStep
    <2> QED BY <1>2, <1>6, <2>1 DEF CleanupRemovedValidatorEntries, UpToDate, feeVars
  <1> QED BY <1>3, <1>4, <1>5, <1>6 DEF Routine

\* Every step of bot, pool and everybody else preserves the invariant.
LEMMA BotStep == BotInv /\ [BotNext]_<<vars, botVars>> => BotInv'
  <1> SUFFICES ASSUME BotInv, [BotNext]_<<vars, botVars>> PROVE BotInv'
    OBVIOUS
  <1>0. /\ LifecycleInv /\ BotTypes
        /\ moves \subseteq Move /\ IsFiniteSet(moves) /\ late \subseteq Move
    BY DEF BotInv, BotTypes
  <1>1. CASE ReadPool \/ ReadList
    BY <1>1, ReadPoolStep, ReadListStep
  <1>2. ASSUME NEW m \in moves, Send(m) \/ Land(m) PROVE BotInv'
    BY <1>2, SendStep, LandStep
  <1>3. CASE Fail
    <2>1. /\ UNCHANGED vars /\ phase' = "idle" /\ read_total' = 0 /\ moves' = {}
          /\ clean' = FALSE /\ late' \subseteq late \cup moves
      BY <1>3 DEF Fail
    <2>2. LifecycleInv'
      BY <1>0, <2>1, LifecycleStep
    <2>3. BotTypes'
      BY <1>0, <2>1, FS_EmptySet DEF BotTypes, vars, configVars
    <2> QED BY <2>1, <2>2, <2>3, NotClean
  <1>4. CASE Finish
    <2>1. /\ UNCHANGED vars /\ phase' = "idle" /\ read_total' = 0 /\ moves' = {}
          /\ clean' = FALSE /\ late' = late
      BY <1>4 DEF Finish
    <2>2. LifecycleInv'
      BY <1>0, <2>1, LifecycleStep
    <2>3. BotTypes'
      BY <1>0, <2>1, FS_EmptySet DEF BotTypes, vars, configVars
    <2> QED BY <2>1, <2>2, <2>3, NotClean
  <1>5. ASSUME NEW m \in late, LandLate(m) PROVE BotInv'
    <2>1. /\ Execute(m) /\ late' = late \ {m} /\ clean' = FALSE
          /\ UNCHANGED <<phase, read_total, moves>>
      BY <1>5 DEF LandLate, Disturbed
    <2>2. LifecycleInv' /\ UNCHANGED configVars
      BY <1>0, <2>1, ExecuteKeeps
    <2>3. BotTypes'
      BY <1>0, <2>1, <2>2 DEF BotTypes, configVars
    <2> QED BY <2>1, <2>2, <2>3, NotClean
  <1>6. ASSUME NEW m \in late, Expire(m) PROVE BotInv'
    <2>1. /\ UNCHANGED vars /\ late' = late \ {m}
          /\ UNCHANGED <<phase, read_total, moves, clean, level>>
      BY <1>6 DEF Expire, historyVars
    <2>2. LifecycleInv'
      BY <1>0, <2>1, LifecycleStep
    <2>3. BotTypes'
      BY <1>0, <2>1 DEF BotTypes, vars, configVars
    <2>4. RoundOK'
      BY <2>1 DEF BotInv, RoundOK, UpToDate, vars, feeVars, stakeVars
    <2> QED BY <2>2, <2>3, <2>4 DEF BotInv
  <1>7. CASE BotEpoch
    <2>1. NewEpoch /\ clean' = FALSE /\ UNCHANGED roundVars
      BY <1>7 DEF BotEpoch
    <2>2. LifecycleInv' /\ max_validator_stake' = max_validator_stake
      BY <1>0, <2>1, OthersStep
    <2>3. BotTypes'
      BY <1>0, <2>1, <2>2 DEF BotTypes, roundVars
    <2> QED BY <2>1, <2>2, <2>3, NotClean
  <1>8. CASE Routine /\ UNCHANGED botVars
    BY <1>8, RoutineStep
  <1>9. CASE Interfere \/ Shrink
    <2>1. /\ Others \/ CleanupRemovedValidatorEntries(TRUE)
          /\ clean' = FALSE /\ UNCHANGED roundVars
      BY <1>9 DEF Interfere, Shrink, Disturbed
    <2>2. LifecycleInv' /\ max_validator_stake' = max_validator_stake
      BY <1>0, <2>1, OthersStep
    <2>3. BotTypes'
      BY <1>0, <2>1, <2>2 DEF BotTypes, roundVars
    <2> QED BY <2>1, <2>2, <2>3, NotClean
  <1>10. CASE UNCHANGED <<vars, botVars>>
    <2>1. LifecycleInv'
      BY <1>0, <1>10, LifecycleStep
    <2>2. BotTypes'
      BY <1>0, <1>10 DEF BotTypes, vars, configVars, botVars, roundVars
    <2>3. RoundOK'
      BY <1>10 DEF BotInv, RoundOK, UpToDate, vars, feeVars, stakeVars, botVars, roundVars,
                   historyVars
    <2> QED BY <2>1, <2>2, <2>3 DEF BotInv
  <1> QED BY <1>1, <1>2, <1>3, <1>4, <1>5, <1>6, <1>7, <1>8, <1>9, <1>10 DEF BotNext, Bot

\* It holds at the start.
LEMMA BotStart == BotInit => BotInv
  <1> SUFFICES ASSUME BotInit PROVE BotInv
    OBVIOUS
  <1>1. LifecycleInv
    BY LifecycleInit DEF BotInit
  <1>2. BotTypes
    BY FS_EmptySet DEF BotInit, Init, BotTypes
  <1>3. RoundOK
    BY DEF BotInit, RoundOK
  <1> QED BY <1>1, <1>2, <1>3 DEF BotInv

\* The program accepts a move that is left over in a round without interference.
LEMMA MoveAccepted ==
  ASSUME BotInv, phase = "moving", clean, level, NEW m \in moves
  PROVE  CanIncrease(m.v, m.lamports, m.seed, FALSE)
  <1>1. /\ UpToDate /\ MovingOK(moves, list, reserve)
    BY DEF BotInv, RoundOK
  <1>2. /\ moves \subseteq Move /\ IsFiniteSet(moves) /\ max_validator_stake = NoLimit
        /\ LifecycleInv /\ PoolInv
    BY DEF BotInv, BotTypes, LifecycleInv
  <1>3. m.v \in Validators /\ m.seed \in Seeds
    BY <1>2 DEF Move
  <1>4. /\ m.lamports >= BotMinimum /\ list[m.v].status = "Active" /\ list[m.v].transient = 0
        /\ reserve - Rent - CostOf(moves) >= Retained
    BY <1>1 DEF MovingOK, Movable
  <1>5. /\ Shape(vstake[m.v]) /\ Shape(tstake[m.v][m.seed])
        /\ Alive(list[m.v], vstake[m.v]) /\ Tracked(list[m.v], tstake[m.v], epoch)
    BY <1>2, <1>3, RowFacts
  <1>6. vstake[m.v].kind = "stake" /\ vstake[m.v].mine = TRUE
    BY <1>4, <1>5, BotConstants, ShapeFacts DEF Alive
  <1>7. tstake[m.v][m.seed].kind = "none"
    <2>1. tstake[m.v][m.seed].kind \in {"none", "initialized", "stake"}
      BY <1>2, <1>3, EntryFacts DEF Account
    <2>2. tstake[m.v][m.seed].kind # "stake"
      BY <1>3, <1>4, <1>5, BotConstants DEF Tracked
    <2>3. tstake[m.v][m.seed].kind # "initialized"
      BY <1>5, BotConstants DEF Shape
    <2> QED BY <2>1, <2>2, <2>3
  <1>8. StakeProgramOpen
    <2>1. list[m.v].last_update = epoch /\ epoch \in Nat
      BY <1>1, <1>2, <1>3, <1>4, RowFacts, EntryFacts DEF Listed
    <2> QED BY <1>2, <1>3, <1>4, <2>1 DEF LifecycleInv, ClockInv, Listed, StakeProgramOpen
  <1>9. /\ m.lamports \in Nat /\ CostOf(moves \ {m}) \in Nat
        /\ CostOf(moves) = m.lamports + Rent + CostOf(moves \ {m})
    BY <1>2, CostRemove
  <1>10. reserve \in Nat
    BY <1>2, <1>3, EntryFacts
  <1>11. ReserveCanGive(m.lamports + Rent) /\ m.lamports >= MinimumDelegation
    BY <1>4, <1>9, <1>10, BotConstants DEF ReserveCanGive
  <1> QED BY <1>1, <1>2, <1>4, <1>6, <1>7, <1>8, <1>11 DEF CanIncrease, TransientReady, IsActive

\* The increases of a round that takes from nobody are paid for by the reserve,
\* rents included, keep the lamports to be retained, and are accepted by the
\* program: whatever the stakes, the moves of other rounds, the rounding of the
\* share, the order of arrival, and the updates in between.
THEOREM IncreasesAreAffordable == BotSpec => []IncreasesFit
  <1>1. BotInv => IncreasesFit
    <2> SUFFICES ASSUME BotInv, phase = "moving", clean, level
                 PROVE  /\ reserve - Rent - MapThenSumSet(LAMBDA m : m.lamports + Rent, moves)
                             >= Retained
                        /\ \A m \in moves :
                             m.sent => CanIncrease(m.v, m.lamports, m.seed, FALSE)
      BY DEF IncreasesFit
    <2>1. moves \subseteq Move /\ IsFiniteSet(moves)
      BY DEF BotInv, BotTypes
    <2>2. MapThenSumSet(LAMBDA m : m.lamports + Rent, moves) = CostOf(moves)
      BY <2>1, CostIsSum
    <2>3. reserve - Rent - CostOf(moves) >= Retained
      BY DEF BotInv, RoundOK, MovingOK
    <2> QED BY <2>2, <2>3, MoveAccepted
  <1> QED BY <1>1, BotStart, BotStep, PTL DEF BotSpec
=============================================================================
