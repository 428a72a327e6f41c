--------------------------- MODULE PoolMathProofs ---------------------------
(***************************************************************************)
(* The arithmetic the proofs rest on. What the conversions of PoolMath     *)
(* guarantee for every value of the pool, every supply and every amount:   *)
(* rounding is always to the advantage of the tokens that stay in the      *)
(* pool. And sums over a finite ledger: MapThenSumSet of the community     *)
(* modules is a recursive function on the subsets of the ledger; it is     *)
(* well defined, and an entry that changes changes it by as much.          *)
(***************************************************************************)
EXTENDS PoolMath, FiniteSets, FiniteSetsExt, FiniteSetTheorems, TLAPS

\* Integer division, the only facts about it that are used.
LEMMA DivFacts ==
  ASSUME NEW a \in Nat, NEW b \in Nat \ {0}
  PROVE  /\ a \div b \in Nat
         /\ (a \div b) * b <= a
         /\ a < (a \div b) * b + b
  OBVIOUS

\* Products keep the order.
LEMMA MulMonotonic ==
  ASSUME NEW a \in Nat, NEW b \in Nat, NEW c \in Nat, a <= b
  PROVE  a * c <= b * c /\ c * a <= c * b
  OBVIOUS

\* Products reflect the order.
LEMMA MulCancel ==
  ASSUME NEW a \in Nat, NEW b \in Nat, NEW c \in Nat \ {0}, a * c < b * c
  PROVE  a < b
  OBVIOUS

\* A product is zero only if a factor is.
LEMMA MulFacts ==
  ASSUME NEW a \in Nat, NEW b \in Nat
  PROVE  a * b \in Nat /\ a * b = b * a /\ (a * b = 0 <=> a = 0 \/ b = 0)
  OBVIOUS

\* Products distribute over sums and differences.
LEMMA MulDistributes ==
  ASSUME NEW a \in Int, NEW b \in Int, NEW c \in Int
  PROVE  /\ a * (b + c) = a * b + a * c /\ (b + c) * a = b * a + c * a
         /\ a * (b - c) = a * b - a * c /\ (b - c) * a = b * a - c * a
  OBVIOUS

\* An upper bound of a quotient.
LEMMA DivAtMost ==
  ASSUME NEW a \in Nat, NEW b \in Nat \ {0}, NEW q \in Nat, a < q * b + b
  PROVE  a \div b <= q
  <1> DEFINE d == a \div b
  <1>1. d \in Nat /\ d * b <= a
    BY DivFacts
  <1> HIDE DEF d
  <1>2. d * b < (q + 1) * b
    BY <1>1
  <1>3. d < q + 1
    BY <1>1, <1>2, MulCancel
  <1> QED BY <1>1, <1>3 DEF d

\* Quotients keep the order.
LEMMA DivMonotonic ==
  ASSUME NEW a \in Nat, NEW c \in Nat, NEW b \in Nat \ {0}, a <= c
  PROVE  a \div b <= c \div b
  <1> DEFINE q == c \div b
  <1>1. q \in Nat /\ c < q * b + b
    BY DivFacts
  <1> HIDE DEF q
  <1>2. q * b \in Nat
    BY <1>1, MulFacts
  <1>3. a < q * b + b
    BY <1>1, <1>2
  <1> QED BY <1>1, <1>3, DivAtMost DEF q

\* A fee that is not above the whole takes at most the amount it is applied
\* to, although Fee::apply rounds up: the checked_sub calls after it succeed.
LEMMA ApplyAtMostWhole ==
  ASSUME NEW fee, fee.numerator \in Nat, fee.denominator \in Nat,
         fee.numerator <= fee.denominator, NEW amt \in Nat
  PROVE  Apply(fee, amt) \in 0..amt
  <1> DEFINE n == fee.numerator
             d == fee.denominator
  <1>1. CASE d = 0
    BY <1>1 DEF Apply
  <1>2. CASE d # 0
    <2>1. n \in Nat /\ d \in Nat \ {0} /\ n <= d
      BY <1>2
    <2> HIDE DEF n, d
    <2>2. amt * n <= amt * d /\ amt * n \in Nat /\ amt * d \in Nat
      BY <2>1, MulMonotonic, MulFacts
    <2>3. amt * n + d - 1 \in Nat /\ amt * n + d - 1 < amt * d + d
      BY <2>1, <2>2
    <2>4. (amt * n + d - 1) \div d \in Nat /\ (amt * n + d - 1) \div d <= amt
      BY <2>1, <2>3, DivFacts, DivAtMost
    <2> QED BY <1>2, <2>4 DEF Apply, n, d
  <1> QED BY <1>1, <1>2

\* A deposit never mints more than its share: calc_pool_tokens_for_deposit
\* rounds down, and is monotonic in the lamports.
LEMMA DepositConversion ==
  ASSUME NEW T \in Nat, NEW S \in Nat, NEW lamports \in Nat
  PROVE  LET minted == PoolTokensForDeposit(T, S, lamports)
         IN /\ minted \in Nat
            /\ S > 0 => T * minted <= lamports * S
            /\ minted > 0 => lamports > 0
  <1>1. CASE T = 0 \/ S = 0
    BY <1>1 DEF PoolTokensForDeposit
  <1>2. CASE T # 0 /\ S # 0
    <2> DEFINE p == lamports * S
               m == p \div T
    <2>1. p \in Nat /\ (lamports = 0 => p = 0)
      BY MulFacts
    <2>2. T \in Nat \ {0}
      BY <1>2
    <2> HIDE DEF p
    <2>3. m \in Nat /\ m * T <= p /\ p < m * T + T
      BY <2>1, <2>2, DivFacts
    <2> HIDE DEF m
    <2>4. m * T = T * m
      BY <2>3, MulFacts
    <2>5. m > 0 => lamports > 0
      <3> SUFFICES ASSUME m > 0, lamports = 0 PROVE FALSE
        OBVIOUS
      <3>1. m * T > 0
        BY <2>2, <2>3
      <3> QED BY <2>1, <2>3, <3>1
    <2> QED BY <1>2, <2>3, <2>4, <2>5 DEF PoolTokensForDeposit, p, m
  <1> QED BY <1>1, <1>2

\* More lamports never mint fewer tokens.
LEMMA DepositMonotonic ==
  ASSUME NEW T \in Nat, NEW S \in Nat, NEW l1 \in Nat, NEW l2 \in Nat, l1 <= l2
  PROVE  PoolTokensForDeposit(T, S, l1) <= PoolTokensForDeposit(T, S, l2)
  <1>1. CASE T = 0 \/ S = 0
    BY <1>1 DEF PoolTokensForDeposit
  <1>2. CASE T # 0 /\ S # 0
    <2>1. l1 * S <= l2 * S /\ l1 * S \in Nat /\ l2 * S \in Nat
      BY MulMonotonic, MulFacts
    <2>2. (l1 * S) \div T <= (l2 * S) \div T
      BY <1>2, <2>1, DivMonotonic
    <2> QED BY <1>2, <2>2 DEF PoolTokensForDeposit
  <1> QED BY <1>1, <1>2

\* A withdrawal never pays more than the share of the tokens it burns, and
\* pays nothing for nothing.
LEMMA WithdrawConversion ==
  ASSUME NEW T \in Nat, NEW S \in Nat, NEW burnt \in Nat
  PROVE  LET lamports == LamportsForWithdrawal(T, S, burnt)
         IN /\ lamports \in Nat
            /\ lamports * S <= burnt * T
            /\ lamports > 0 => burnt > 0 /\ S > 0
  <1> DEFINE p == burnt * T
  <1>1. p \in Nat /\ (burnt = 0 => p = 0)
    BY MulFacts
  <1> HIDE DEF p
  <1>2. CASE S = 0 \/ p < S
    BY <1>1, <1>2 DEF LamportsForWithdrawal, p
  <1>3. CASE ~(S = 0 \/ p < S)
    <2>1. p \div S \in Nat /\ (p \div S) * S <= p
      BY <1>1, <1>3, DivFacts
    <2> QED BY <1>1, <1>3, <2>1 DEF LamportsForWithdrawal, p
  <1> QED BY <1>2, <1>3

\* The tokens minted to the manager for a reward are worth no more than the
\* reward: T * minted <= reward * S.
LEMMA EpochFeeConversion ==
  ASSUME NEW T \in Nat, NEW S \in Nat, NEW reward \in Nat,
         NEW fee, fee.numerator \in Nat, fee.denominator \in Nat,
         fee.numerator <= fee.denominator
  PROVE  LET minted == EpochFeeTokens(T, S, fee, reward)
         IN minted \in Nat /\ (S > 0 => T * minted <= reward * S)
  <1> DEFINE f == Apply(fee, reward)
             d == T + reward - f
             p == S * f
             m == p \div d
  <1>1. f \in Nat /\ f <= reward
    BY ApplyAtMostWhole
  <1> HIDE DEF f
  <1>2. reward * S \in Nat
    BY MulFacts
  <1>3. CASE reward = 0
    BY <1>2, <1>3 DEF EpochFeeTokens
  <1>4. CASE reward # 0 /\ (T + reward = f \/ S = 0)
    <2>1. EpochFeeTokens(T, S, fee, reward) = reward
      BY <1>4 DEF EpochFeeTokens, f
    <2>2. S > 0 => T = 0
      BY <1>1, <1>4
    <2> QED BY <1>2, <2>1, <2>2
  <1>5. CASE reward # 0 /\ ~(T + reward = f \/ S = 0)
    <2>1. d \in Nat \ {0} /\ T <= d
      BY <1>1, <1>5
    <2>2. p \in Nat
      BY <1>1, MulFacts
    <2>3. EpochFeeTokens(T, S, fee, reward) = m
      BY <1>1, <1>5, <2>1, <2>2 DEF EpochFeeTokens, f
    <2> HIDE DEF d, p
    <2>4. m \in Nat /\ m * d <= p
      BY <2>1, <2>2, DivFacts
    <2> HIDE DEF m
    <2>5. T * m <= m * d
      BY <2>1, <2>4, MulMonotonic, MulFacts
    <2>6. p <= reward * S
      BY <1>1, MulMonotonic, MulFacts DEF p
    <2>7. T * m \in Nat /\ m * d \in Nat
      BY <2>1, <2>4, MulFacts
    <2> QED BY <1>2, <2>2, <2>3, <2>4, <2>5, <2>6, <2>7
  <1> QED BY <1>3, <1>4, <1>5

\* A referral fee is a part of the fee.
LEMMA ReferralWithinFee ==
  ASSUME NEW percent \in 0..100, NEW fee_tokens \in Nat
  PROVE  ReferralFee(percent, fee_tokens) \in 0..fee_tokens
  <1>1. fee_tokens * percent \in Nat /\ fee_tokens * percent <= fee_tokens * 100
    BY MulFacts, MulMonotonic
  <1>2. fee_tokens * percent < fee_tokens * 100 + 100
    BY <1>1
  <1>3. (fee_tokens * percent) \div 100 \in Nat /\ (fee_tokens * percent) \div 100 <= fee_tokens
    BY <1>1, <1>2, DivFacts, DivAtMost
  <1> QED BY <1>3 DEF ReferralFee

\* Deposit fees that are proper and not above the whole; shares of a deposit
\* that add up to what is minted for it.
WholeDepositFees(fees) ==
  \A k \in {"stake_deposit", "sol_deposit"} :
    /\ fees[k].numerator \in Nat /\ fees[k].denominator \in Nat
    /\ fees[k].numerator <= fees[k].denominator
AddUp(shares, minted) ==
  /\ shares.user \in Nat /\ shares.referrer \in Nat /\ shares.manager \in Nat
  /\ shares.user + shares.referrer + shares.manager = minted

\* The shares of a deposit are natural numbers that add up to what is minted.
LEMMA DepositSharesAddUp ==
  ASSUME NEW fees, WholeDepositFees(fees),
         NEW percent \in 0..100, NEW from_stake \in Nat, NEW from_sol \in Nat
  PROVE  AddUp(DepositShares(fees, percent, from_stake, from_sol), from_stake + from_sol)
  <1> DEFINE a == Apply(fees["stake_deposit"], from_stake)
             b == Apply(fees["sol_deposit"], from_sol)
             r == ReferralFee(percent, a + b)
  <1>1. a \in 0..from_stake /\ b \in 0..from_sol
    BY ApplyAtMostWhole DEF WholeDepositFees
  <1> HIDE DEF a, b
  <1>2. r \in 0..(a + b)
    <2>1. a + b \in Nat
      BY <1>1
    <2> QED BY <2>1, ReferralWithinFee
  <1> HIDE DEF r
  <1>3. DepositShares(fees, percent, from_stake, from_sol)
          = [user |-> from_stake + from_sol - (a + b), referrer |-> r, manager |-> a + b - r]
    BY <1>1, <1>2 DEF DepositShares, a, b, r
  <1> QED BY <1>1, <1>2, <1>3 DEF AddUp

(***************************************************************************)
(* Sums over a finite ledger.                                              *)
(***************************************************************************)

\* The strict subset order on a finite set has minimal elements, which gives
\* induction over subsets: a family P that contains every subset whose strict
\* subsets it contains is the family of all of them.
LEMMA SubsetInduction ==
  ASSUME NEW S, IsFiniteSet(S), NEW P,
         \A s \in SUBSET S : (\A t \in SUBSET s : t # s => t \in P) => s \in P
  PROVE  \A s \in SUBSET S : s \in P
  <1> SUFFICES ASSUME NEW bad \in SUBSET S, bad \notin P PROVE FALSE
    OBVIOUS
  <1> DEFINE B == {s \in SUBSET S : s \notin P}
  <1>1. IsWellFoundedOn(StrictSubsetOrdering(S), SUBSET S)
    <2>1. IsWellFoundedOn(StrictSubsetOrdering(S), FiniteSubsetsOf(S))
      BY FS_StrictSubsetOrderingWellFounded
    <2>2. FiniteSubsetsOf(S) = SUBSET S
      BY FS_FiniteSubsetsOfFinite
    <2> QED BY <2>1, <2>2
  <1>2. B # {} /\ B \subseteq SUBSET S
    OBVIOUS
  <1>3. PICK s \in B : \A t \in B : ~ (<<t, s>> \in StrictSubsetOrdering(S))
    <2> HIDE DEF B
    <2> QED BY <1>1, <1>2, WFMin
  <1>4. ASSUME NEW t \in SUBSET s, t # s PROVE t \in P
    <2>1. t \in SUBSET S /\ s \in SUBSET S
      BY <1>3
    <2>2. <<t, s>> \in StrictSubsetOrdering(S)
      BY <2>1, <1>4 DEF StrictSubsetOrdering
    <2> QED BY <1>3, <2>1, <2>2
  <1> QED BY <1>3, <1>4

\* g gives the sum of f over every subset of S, by the recursion of
\* MapThenSumSet.
Pick(s) == CHOOSE x \in s : TRUE
IsSum(g, f, S) ==
  g = [s \in SUBSET S |-> IF s = {} THEN 0 ELSE f[Pick(s)] + g[s \ {Pick(s)}]]

\* A nonempty set contains the element that is picked.
LEMMA PickIn == \A s : s # {} => Pick(s) \in s
  BY DEF Pick

\* The defining equations of a sum, one subset at a time.
LEMMA SumEquations ==
  ASSUME NEW S, NEW f, NEW g, IsSum(g, f, S), NEW s \in SUBSET S
  PROVE  g[s] = IF s = {} THEN 0 ELSE f[Pick(s)] + g[s \ {Pick(s)}]
  <1> DEFINE E(t) == IF t = {} THEN 0 ELSE f[Pick(t)] + g[t \ {Pick(t)}]
  <1>1. g = [t \in SUBSET S |-> E(t)]
    BY DEF IsSum
  <1> HIDE DEF E
  <1>2. g[s] = E(s)
    BY <1>1
  <1> QED BY <1>2 DEF E

\* Conversely, the equations make a function on the subsets a sum.
LEMMA SumByEquations ==
  ASSUME NEW S, NEW f, NEW g, g = [s \in SUBSET S |-> g[s]],
         \A s \in SUBSET S : g[s] = IF s = {} THEN 0 ELSE f[Pick(s)] + g[s \ {Pick(s)}]
  PROVE  IsSum(g, f, S)
  BY DEF IsSum

\* Two sums of functions that agree on S agree on every subset of S.
LEMMA SumUnique ==
  ASSUME NEW S, IsFiniteSet(S), NEW f, NEW h, \A x \in S : f[x] = h[x],
         NEW g1, NEW g2, NEW S1, NEW S2, S \subseteq S1, S \subseteq S2,
         IsSum(g1, f, S1), IsSum(g2, h, S2)
  PROVE  \A s \in SUBSET S : g1[s] = g2[s]
  <1> DEFINE P == {s \in SUBSET S : g1[s] = g2[s]}
  <1>1. ASSUME NEW s \in SUBSET S, \A t \in SUBSET s : t # s => t \in P
        PROVE  s \in P
    <2>1. s \in SUBSET S1 /\ s \in SUBSET S2
      OBVIOUS
    <2>2. g1[s] = IF s = {} THEN 0 ELSE f[Pick(s)] + g1[s \ {Pick(s)}]
      <3> HIDE DEF P
      <3>1. IsSum(g1, f, S1)
        OBVIOUS
      <3> QED BY ONLY <2>1, <3>1, SumEquations
    <2>3. g2[s] = IF s = {} THEN 0 ELSE h[Pick(s)] + g2[s \ {Pick(s)}]
      BY <2>1, SumEquations
    <2>4. CASE s # {}
      <3>1. Pick(s) \in s
        BY <2>4, PickIn
      <3>2. g1[s \ {Pick(s)}] = g2[s \ {Pick(s)}]
        BY <1>1, <3>1
      <3>3. f[Pick(s)] = h[Pick(s)]
        BY <3>1
      <3> QED BY <2>2, <2>3, <2>4, <3>2, <3>3
    <2> QED BY <2>2, <2>3, <2>4
  <1>2. \A s \in SUBSET S : s \in P
    <2> HIDE DEF P
    <2> QED BY <1>1, SubsetInduction
  <1> QED BY <1>2

\* Every function has a sum over a finite set.
LEMMA SumExists ==
  ASSUME NEW S, IsFiniteSet(S), NEW f
  PROVE  \E g : IsSum(g, f, S)
  <1> DEFINE P == {s \in SUBSET S : \E g : IsSum(g, f, s)}
             At(s) == (CHOOSE g : IsSum(g, f, s))[s]
  <1>1. ASSUME NEW s \in SUBSET S, \A t \in SUBSET s : t # s => t \in P
        PROVE  s \in P
    <2>1. ASSUME NEW t \in SUBSET s, t # s
          PROVE  At(t) = IF t = {} THEN 0 ELSE f[Pick(t)] + At(t \ {Pick(t)})
      <3>1. PICK g : g = (CHOOSE gg : IsSum(gg, f, t)) /\ IsSum(g, f, t)
        BY <1>1, <2>1
      <3>2. g[t] = IF t = {} THEN 0 ELSE f[Pick(t)] + g[t \ {Pick(t)}]
        BY <3>1, SumEquations
      <3>3. CASE t # {}
        <4> DEFINE r == t \ {Pick(t)}
        <4>1. r \in SUBSET s /\ r # s /\ r \subseteq t /\ r \in SUBSET S
          BY <2>1
        <4>2. PICK h : h = (CHOOSE gg : IsSum(gg, f, r)) /\ IsSum(h, f, r)
          BY <1>1, <4>1
        <4>3. IsFiniteSet(r)
          BY <4>1, FS_Subset
        <4> HIDE DEF r
        <4>4. g[r] = h[r]
          BY <3>1, <4>1, <4>2, <4>3, SumUnique
        <4> QED BY <3>1, <3>2, <3>3, <4>2, <4>4 DEF r
      <3> QED BY <3>1, <3>2, <3>3
    <2> DEFINE At2(t) == IF t = {} THEN 0 ELSE f[Pick(t)] + At(t \ {Pick(t)})
               g == [t \in SUBSET s |-> At2(t)]
    <2> HIDE DEF At
    <2>2. ASSUME NEW t \in SUBSET s
          PROVE  g[t] = IF t = {} THEN 0 ELSE f[Pick(t)] + g[t \ {Pick(t)}]
      <3>1. CASE t # {}
        <4>1. Pick(t) \in t
          BY <3>1, PickIn
        <4>2. t \ {Pick(t)} \in SUBSET s /\ t \ {Pick(t)} # s
          BY <4>1
        <4>3. g[t \ {Pick(t)}] = At2(t \ {Pick(t)})
          BY <4>2
        <4>4. At2(t \ {Pick(t)}) = At(t \ {Pick(t)})
          BY <2>1, <4>2
        <4>5. g[t] = At2(t)
          OBVIOUS
        <4> QED BY <3>1, <4>3, <4>4, <4>5
      <3> QED BY <3>1
    <2>3. IsSum(g, f, s)
      <3>1. g = [t \in SUBSET s |-> g[t]]
        OBVIOUS
      <3> HIDE DEF g
      <3> QED BY <2>2, <3>1, SumByEquations
    <2> QED BY <2>3
  <1>2. \A s \in SUBSET S : s \in P
    <2> HIDE DEF P
    <2> QED BY <1>1, SubsetInduction
  <1> QED BY <1>2

\* The sum of natural numbers is one.
LEMMA SumType ==
  ASSUME NEW S, IsFiniteSet(S), NEW f, \A x \in S : f[x] \in Nat,
         NEW g, IsSum(g, f, S)
  PROVE  \A s \in SUBSET S : g[s] \in Nat
  <1> DEFINE P == {s \in SUBSET S : g[s] \in Nat}
  <1>1. ASSUME NEW s \in SUBSET S, \A t \in SUBSET s : t # s => t \in P
        PROVE  s \in P
    <2>1. g[s] = IF s = {} THEN 0 ELSE f[Pick(s)] + g[s \ {Pick(s)}]
      BY SumEquations
    <2>2. CASE s # {}
      <3>1. Pick(s) \in s
        BY <2>2, PickIn
      <3>2. g[s \ {Pick(s)}] \in Nat
        BY <1>1, <3>1
      <3>3. f[Pick(s)] \in Nat
        BY <3>1
      <3> QED BY <2>1, <2>2, <3>2, <3>3
    <2> QED BY <2>1, <2>2
  <1>2. \A s \in SUBSET S : s \in P
    <2> HIDE DEF P
    <2> QED BY <1>1, SubsetInduction
  <1> QED BY <1>2

\* When the value of one element changes, so does the sum of every subset
\* that contains it, by as much.
LEMMA SumOneChanged ==
  ASSUME NEW S, IsFiniteSet(S), NEW v \in S,
         NEW f, \A x \in S : f[x] \in Nat,
         NEW h, \A x \in S : h[x] \in Nat, \A x \in S : x # v => f[x] = h[x],
         NEW g, IsSum(g, f, S), NEW k, IsSum(k, h, S)
  PROVE  k[S] + f[v] = g[S] + h[v]
  <1> DEFINE P == {s \in SUBSET S : IF v \in s THEN k[s] + f[v] = g[s] + h[v]
                                               ELSE k[s] = g[s]}
  <1>1. ASSUME NEW s \in SUBSET S, \A t \in SUBSET s : t # s => t \in P
        PROVE  s \in P
    <2>1. g[s] = IF s = {} THEN 0 ELSE f[Pick(s)] + g[s \ {Pick(s)}]
      <3>1. IsSum(g, f, S)
        OBVIOUS
      <3> QED BY ONLY <3>1, s \in SUBSET S, SumEquations
    <2>2. k[s] = IF s = {} THEN 0 ELSE h[Pick(s)] + k[s \ {Pick(s)}]
      <3>1. IsSum(k, h, S)
        OBVIOUS
      <3> QED BY ONLY <3>1, s \in SUBSET S, SumEquations
    <2>3. CASE s # {}
      <3> DEFINE r == s \ {Pick(s)}
      <3>1. Pick(s) \in s /\ Pick(s) \in S
        BY <2>3, PickIn
      <3>2. r \in SUBSET s /\ r # s /\ r \in SUBSET S
        BY <3>1
      <3>3. r \in P
        BY <1>1, <3>2
      <3>4. g[r] \in Nat /\ k[r] \in Nat
        <4>1. IsSum(g, f, S) /\ IsSum(k, h, S)
          OBVIOUS
        <4> QED BY <3>2, <4>1, SumType
      <3>5. f[Pick(s)] \in Nat /\ h[Pick(s)] \in Nat /\ f[v] \in Nat /\ h[v] \in Nat
        BY <3>1
      <3>6. g[s] = f[Pick(s)] + g[r] /\ k[s] = h[Pick(s)] + k[r]
        BY <2>1, <2>2, <2>3
      <3>7. CASE Pick(s) = v
        <4>1. k[r] = g[r] /\ v \in s
          BY <3>1, <3>3, <3>7
        <4> QED BY <3>4, <3>5, <3>6, <3>7, <4>1
      <3>8. CASE Pick(s) # v
        <4>1. f[Pick(s)] = h[Pick(s)] /\ (v \in s <=> v \in r)
          BY <3>1, <3>8
        <4>2. CASE v \in s
          <5>1. k[r] + f[v] = g[r] + h[v]
            BY <3>3, <4>1, <4>2
          <5> HIDE DEF r
          <5> QED BY <3>4, <3>5, <3>6, <4>1, <4>2, <5>1
        <4>3. CASE v \notin s
          BY <3>3, <3>4, <3>5, <3>6, <4>1, <4>3
        <4> QED BY <4>2, <4>3
      <3> QED BY <3>7, <3>8
    <2> QED BY <2>1, <2>2, <2>3
  <1>2. \A s \in SUBSET S : s \in P
    <2> HIDE DEF P
    <2> QED BY <1>1, SubsetInduction
  <1> QED BY <1>2

\* Any element can be taken first.
LEMMA SumRemove ==
  ASSUME NEW S, IsFiniteSet(S), NEW f, \A x \in S : f[x] \in Nat,
         NEW g, IsSum(g, f, S)
  PROVE  \A s \in SUBSET S : \A x \in s : g[s] = f[x] + g[s \ {x}]
  <1> DEFINE P == {s \in SUBSET S : \A x \in s : g[s] = f[x] + g[s \ {x}]}
  <1>1. ASSUME NEW s \in SUBSET S, \A t \in SUBSET s : t # s => t \in P
        PROVE  s \in P
    <2> SUFFICES ASSUME NEW x \in s PROVE g[s] = f[x] + g[s \ {x}]
      OBVIOUS
    <2> DEFINE p == Pick(s)
               both == s \ {p, x}
    <2>1. p \in s
      BY PickIn
    <2>2. g[s] = f[p] + g[s \ {p}]
      <3>1. IsSum(g, f, S) /\ s \in SUBSET S /\ s # {}
        OBVIOUS
      <3> QED BY ONLY <3>1, SumEquations
    <2> HIDE DEF p
    <2>3. CASE p = x
      BY <2>2, <2>3
    <2>4. CASE p # x
      <3>1. /\ s \ {p} \in P /\ x \in s \ {p}
            /\ s \ {x} \in P /\ p \in s \ {x}
        BY <1>1, <2>1, <2>4
      <3>2. (s \ {p}) \ {x} = both /\ (s \ {x}) \ {p} = both /\ both \in SUBSET S
        OBVIOUS
      <3>3. g[s \ {p}] = f[x] + g[both] /\ g[s \ {x}] = f[p] + g[both]
        BY <3>1, <3>2
      <3>4. f[x] \in Nat /\ f[p] \in Nat /\ g[both] \in Nat
        BY <2>1, <3>2, SumType
      <3> HIDE DEF both
      <3> QED BY <2>2, <3>3, <3>4
    <2> QED BY <2>3, <2>4
  <1>2. \A s \in SUBSET S : s \in P
    <2> HIDE DEF P
    <2> QED BY <1>1, SubsetInduction
  <1> QED BY <1>2
----------------------------------------------------------------------------
\* The sum of f over S.
Total(f, S) == MapThenSumSet(LAMBDA x : f[x], S)

\* It is what the recursion computes.
LEMMA TotalIsSum ==
  ASSUME NEW S, IsFiniteSet(S), NEW f
  PROVE  \E g : IsSum(g, f, S) /\ Total(f, S) = g[S]
  <1>1. PICK g : IsSum(g, f, S)
    BY SumExists
  <1> QED BY <1>1 DEF IsSum, Pick, Total, MapThenSumSet, MapThenFoldSet

\* A total of natural numbers is one.
LEMMA TotalType ==
  ASSUME NEW S, IsFiniteSet(S), NEW f, \A x \in S : f[x] \in Nat
  PROVE  Total(f, S) \in Nat
  <1>1. PICK g : IsSum(g, f, S) /\ Total(f, S) = g[S]
    BY TotalIsSum
  <1>2. \A s \in SUBSET S : g[s] \in Nat
    BY <1>1, SumType
  <1> QED BY <1>1, <1>2

\* Totals of functions that agree on S are equal.
LEMMA TotalSame ==
  ASSUME NEW S, IsFiniteSet(S), NEW f, NEW h, \A x \in S : f[x] = h[x]
  PROVE  Total(f, S) = Total(h, S)
  <1>1. PICK g : IsSum(g, f, S) /\ Total(f, S) = g[S]
    BY TotalIsSum
  <1>2. PICK k : IsSum(k, h, S) /\ Total(h, S) = k[S]
    BY TotalIsSum
  <1>3. \A s \in SUBSET S : g[s] = k[s]
    BY <1>1, <1>2, SumUnique
  <1> QED BY <1>1, <1>2, <1>3

\* A total follows the change of one element.
LEMMA TotalOneChanged ==
  ASSUME NEW S, IsFiniteSet(S), NEW v \in S,
         NEW f, \A x \in S : f[x] \in Nat,
         NEW h, \A x \in S : h[x] \in Nat, \A x \in S : x # v => f[x] = h[x]
  PROVE  Total(h, S) + f[v] = Total(f, S) + h[v]
  <1>1. PICK g : IsSum(g, f, S) /\ Total(f, S) = g[S]
    BY TotalIsSum
  <1>2. PICK k : IsSum(k, h, S) /\ Total(h, S) = k[S]
    BY TotalIsSum
  <1>3. k[S] + f[v] = g[S] + h[v]
    BY <1>1, <1>2, SumOneChanged
  <1> QED BY <1>1, <1>2, <1>3

\* Nothing adds up to nothing.
LEMMA TotalEmpty ==
  ASSUME NEW f PROVE Total(f, {}) = 0
  <1>1. PICK g : IsSum(g, f, {}) /\ Total(f, {}) = g[{}]
    BY TotalIsSum, FS_EmptySet
  <1>2. g[{}] = 0
    BY <1>1, SumEquations
  <1> QED BY <1>1, <1>2

\* A total is the value of an element and the total of the others.
LEMMA TotalRemove ==
  ASSUME NEW S, IsFiniteSet(S), NEW f, \A x \in S : f[x] \in Nat, NEW v \in S
  PROVE  Total(f, S) = f[v] + Total(f, S \ {v})
  <1> DEFINE r == S \ {v}
  <1>1. r \subseteq S /\ IsFiniteSet(r)
    BY FS_Subset
  <1>2. PICK g : IsSum(g, f, S) /\ Total(f, S) = g[S]
    BY TotalIsSum
  <1> HIDE DEF r
  <1>3. PICK k : IsSum(k, f, r) /\ Total(f, r) = k[r]
    BY <1>1, TotalIsSum
  <1>4. g[r] = k[r]
    BY <1>1, <1>2, <1>3, SumUnique
  <1>5. g[S] = f[v] + g[r]
    BY <1>2, SumRemove DEF r
  <1> QED BY <1>2, <1>3, <1>4, <1>5 DEF r
=============================================================================
