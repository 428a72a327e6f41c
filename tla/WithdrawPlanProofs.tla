------------------------- MODULE WithdrawPlanProofs -------------------------
(***************************************************************************)
(* Theorems about WithdrawPlan, for any list of validators, any reserve,   *)
(* price, fee and amount, and whatever minima the libraries assume.        *)
(*                                                                         *)
(* Two things are behind them: the rounding of the conversions, which goes *)
(* down on both ways and therefore never asks an account for more than it  *)
(* has (RoundTrip, FeeRoundTrip); and the order of the accounts, which is  *)
(* a strict order in which every account has a rank of its own, so that    *)
(* the sorted sequence misses none (RankCovers).                           *)
(***************************************************************************)
EXTENDS WithdrawPlan, PoolMathProofs

\* What the client has read and is asked for. It does not change.
ReadOK ==
  /\ pool \in [list : Seq(Entries), total : Nat, supply : Nat, reserve : Nat,
               fee : WholeFees, preferred : Nat, stray : Nat]
  /\ request \in Arguments
  /\ request.amount <= pool.supply
  /\ pool.preferred <= Len(pool.list)

\* The rest of the invariant is about the accounts still to be looked at, the
\* plan, what remains and the outcome.

\* How far the search has come.
Progress(acc, p, r, o) ==
  /\ o = "asked" => p = <<>>
  /\ o = "planning" => Searched /\ r > 0
  /\ r \in Nat
  /\ acc \in Seq(All)

\* Every part of the plan is taken from an account that has it.
Ids == {a.id : a \in All}
Founded(p) ==
  Searched =>
    /\ p \in Seq([account : Ids, amount : Nat])
    /\ \A k \in DOMAIN p : \E a \in All :
         p[k].account = a.id /\ p[k].amount <= Available(a)

\* The search looks at the preferred validator first and leaves it empty.
Favoured == ValidatorAccount(pool.preferred)
FavouredUsable ==
  Searched /\ pool.preferred # None /\ Listed(pool.preferred)
           /\ Favoured.lamports > MinBalance /\ Available(Favoured) > 0
Favours(acc, p, o) ==
  FavouredUsable =>
    /\ p = <<>> /\ o = "planning" => acc # <<>> /\ Head(acc) = Favoured
    /\ p # <<>> => p[1].account = Favoured.id
    /\ p # <<>> /\ (Len(p) > 1 \/ o = "planning") => p[1].amount = Available(Favoured)

\* An account that the search must not miss is empty, in the plan with all
\* it has, or still to be looked at.
Usable(a) == a.lamports > MinBalance /\ (a.id[1] = "reserve" \/ Listed(a.id[2]))
Emptied(p, a) == \E k \in DOMAIN p : p[k] = Withdrawal(a.id, Available(a))
Ahead(acc, a) == \E k \in DOMAIN acc : acc[k] = a
Covered(acc, p, o) ==
  Searched /\ o \in {"planning", "error"} /\ pool.list # <<>> =>
    \A a \in All :
      Usable(a) => Available(a) = 0 \/ Emptied(p, a) \/ (o = "planning" /\ Ahead(acc, a))

\* A named validator of the pool, at its own address, is refused for the
\* reason the client gives.
Refused(o) ==
  ~BadReceiver /\ ~request.use_reserve /\ ~Mismatch
    /\ Named \in Indices /\ ~Misderived(Named) /\ o = "error" =>
      OneAccountHas(Named) < request.amount

PlanOK(acc, p, r, o) ==
  Progress(acc, p, r, o) /\ Founded(p) /\ Favours(acc, p, o) /\ Covered(acc, p, o) /\ Refused(o)
PlanInv == ReadOK /\ PlanOK(accounts, plan, remaining, outcome)
----------------------------------------------------------------------------
(* The conversions.                                                        *)

\* Tokens that lamports would buy are worth no more than these lamports.
LEMMA RoundTrip ==
  ASSUME NEW T \in Nat, NEW S \in Nat, NEW lamports \in Nat, NEW x \in Nat,
         x <= PoolTokensForDeposit(T, S, lamports)
  PROVE  LamportsForWithdrawal(T, S, x) <= lamports
  <1> DEFINE m == PoolTokensForDeposit(T, S, lamports)
             back == LamportsForWithdrawal(T, S, x)
  <1>1. m \in Nat /\ x <= m /\ (S > 0 => T * m <= lamports * S)
    BY DepositConversion
  <1>2. back \in Nat /\ back * S <= x * T /\ (back > 0 => S > 0)
    BY WithdrawConversion
  <1> HIDE DEF m, back
  <1>3. CASE back = 0
    BY <1>3 DEF back
  <1>4. CASE back > 0
    <2>1. S \in Nat \ {0}
      BY <1>2, <1>4
    <2>2. x * T <= m * T /\ m * T = T * m /\ m * T \in Nat /\ x * T \in Nat /\ back * S \in Nat
      BY <1>1, <1>2, MulMonotonic, MulFacts
    <2>3. lamports * S \in Nat /\ (lamports + 1) * S = lamports * S + S
      BY MulFacts, MulDistributes
    <2>4. back * S < (lamports + 1) * S
      BY <1>1, <1>2, <2>1, <2>2, <2>3
    <2>5. back < lamports + 1
      BY <1>2, <2>1, <2>4, MulCancel
    <2> QED BY <1>2, <2>5 DEF back
  <1> QED BY <1>2, <1>3, <1>4

\* Tokens raised by the inverse fee come down to no more than they were once
\* the fee, rounded up, is taken off.
LEMMA FeeRoundTrip ==
  ASSUME NEW fee, fee.numerator \in Nat, fee.denominator \in Nat,
         fee.numerator < fee.denominator, NEW tokens \in Nat, NEW x \in Nat,
         x <= (tokens * fee.denominator) \div (fee.denominator - fee.numerator)
  PROVE  x - Apply(fee, x) <= tokens
  <1> DEFINE n == fee.numerator
             d == fee.denominator
             i == d - n
             p == tokens * d
             q == p \div i
             taken == Apply(fee, x)
             left == x - taken
  <1>1. n \in Nat /\ d \in Nat \ {0} /\ n < d /\ x <= q
    OBVIOUS
  <1>2. taken = (x * n + d - 1) \div d
    BY <1>1 DEF Apply
  <1>3. taken \in Nat /\ taken <= x
    BY <1>1, ApplyAtMostWhole
  <1>4. i \in Nat \ {0} /\ i = d - n
    BY <1>1
  <1> HIDE DEF n, d, i
  <1>5. p \in Nat /\ p = tokens * d
    BY <1>1, MulFacts
  <1> HIDE DEF p
  <1>6. q \in Nat /\ q * i <= p
    BY <1>4, <1>5, DivFacts
  <1> HIDE DEF q, taken
  <1>7. left \in Nat /\ left = x - taken
    BY <1>3
  <1> HIDE DEF left
  <1>8. x * n <= taken * d
    <2>1. x * n \in Nat /\ x * n + d - 1 \in Nat
      BY <1>1, MulFacts
    <2>2. x * n + d - 1 < taken * d + d
      BY <1>1, <1>2, <2>1, DivFacts
    <2>3. taken * d \in Nat
      BY <1>1, <1>3, MulFacts
    <2> QED BY <1>1, <2>1, <2>2, <2>3
  <1>9. x * i <= p
    <2>1. x * i <= q * i /\ x * i \in Nat /\ q * i \in Nat
      BY <1>1, <1>4, <1>6, MulMonotonic, MulFacts
    <2> QED BY <1>5, <1>6, <2>1
  <1>10. left * d = x * d - taken * d
    BY <1>1, <1>3, <1>7, MulDistributes
  <1>11. x * i = x * d - x * n
    BY <1>1, <1>4, MulDistributes
  <1>12. (tokens + 1) * d = p + d
    BY <1>1, <1>5, MulDistributes
  <1>13. left * d < (tokens + 1) * d
    <2>1. /\ left * d \in Nat /\ x * d \in Nat /\ taken * d \in Nat /\ x * n \in Nat
          /\ x * i \in Nat /\ (tokens + 1) * d \in Nat
      BY <1>1, <1>3, <1>4, <1>7, MulFacts
    <2> QED BY <1>1, <1>5, <1>8, <1>9, <1>10, <1>11, <1>12, <2>1
  <1>14. left < tokens + 1
    BY <1>1, <1>7, <1>13, MulCancel
  <1> QED BY <1>7, <1>14 DEF left, taken

\* More tokens than lamports at a price of at least a lamport each.
LEMMA WorthALamport ==
  ASSUME NEW T \in Nat, NEW S \in Nat \ {0}, S <= T, NEW x \in Nat
  PROVE  x <= LamportsForWithdrawal(T, S, x)
  <1>1. x * S <= x * T /\ x * S \in Nat /\ x * T \in Nat
    BY MulMonotonic, MulFacts
  <1>2. CASE x * T < S
    <2>1. x * S < 1 * S
      BY <1>1, <1>2
    <2>2. x < 1
      BY <2>1, MulCancel
    <2> QED BY <1>2, <2>2 DEF LamportsForWithdrawal
  <1>3. CASE ~(x * T < S)
    <2> DEFINE q == (x * T) \div S
    <2>1. q \in Nat /\ x * T < q * S + S
      BY <1>1, DivFacts
    <2> HIDE DEF q
    <2>2. (q + 1) * S = q * S + S /\ q * S \in Nat
      BY <2>1, MulDistributes, MulFacts
    <2>3. x * S < (q + 1) * S
      BY <1>1, <2>1, <2>2
    <2>4. x < q + 1
      BY <2>1, <2>3, MulCancel
    <2> QED BY <1>3, <2>1, <2>4 DEF LamportsForWithdrawal, q
  <1> QED BY <1>2, <1>3
----------------------------------------------------------------------------
(* The order of the accounts.                                              *)

\* Where below[i] are the elements before i in a strict total order, the
\* number of elements before it tells each element from the others, and
\* every rank is taken.
LEMMA RankCovers ==
  ASSUME NEW S, IsFiniteSet(S), NEW below \in [S -> SUBSET S],
         \A i \in S : i \notin below[i],
         \A i, j \in S : i # j => i \in below[j] \/ j \in below[i],
         \A i, j \in S : i \in below[j] => below[i] \subseteq below[j]
  PROVE  /\ Cardinality(S) \in Nat
         /\ \A i \in S : Cardinality(below[i]) + 1 \in 1..Cardinality(S)
         /\ \A i, j \in S : Cardinality(below[i]) = Cardinality(below[j]) => i = j
         /\ \A k \in 1..Cardinality(S) : \E i \in S : Cardinality(below[i]) + 1 = k
  <1>1. \A i \in S : IsFiniteSet(below[i]) /\ Cardinality(below[i]) \in Nat
    BY FS_Subset, FS_CardinalityType
  <1>2. Cardinality(S) \in Nat
    BY FS_CardinalityType
  <1>3. \A i \in S : Cardinality(below[i]) + 1 <= Cardinality(S)
    <2> TAKE i \in S
    <2>1. below[i] \in SUBSET (S \ {i})
      OBVIOUS
    <2>2. IsFiniteSet(S \ {i}) /\ Cardinality(S \ {i}) = Cardinality(S) - 1
      BY FS_RemoveElement
    <2>3. Cardinality(below[i]) <= Cardinality(S \ {i})
      BY <2>1, <2>2, FS_Subset
    <2> QED BY <1>1, <1>2, <2>2, <2>3
  <1>4. \A i, j \in S : i \in below[j] => Cardinality(below[i]) < Cardinality(below[j])
    <2> SUFFICES ASSUME NEW i \in S, NEW j \in S, i \in below[j]
                 PROVE  Cardinality(below[i]) < Cardinality(below[j])
      OBVIOUS
    <2>1. below[i] \in SUBSET below[j] /\ below[i] # below[j]
      OBVIOUS
    <2>2. Cardinality(below[i]) <= Cardinality(below[j])
          /\ Cardinality(below[j]) # Cardinality(below[i])
      BY <1>1, <2>1, FS_Subset
    <2> QED BY <1>1, <2>2
  <1>5. \A i, j \in S : Cardinality(below[i]) = Cardinality(below[j]) => i = j
    BY <1>1, <1>4
  <1> DEFINE rank == [i \in S |-> Cardinality(below[i]) + 1]
  <1>6. rank \in Injection(S, 1..Cardinality(S))
    BY <1>1, <1>2, <1>3, <1>5 DEF Injection, IsInjective
  <1>7. IsFiniteSet(1..Cardinality(S)) /\ Cardinality(1..Cardinality(S)) = Cardinality(S)
    BY <1>2, FS_Interval
  <1>8. rank \in Surjection(S, 1..Cardinality(S))
    <2> HIDE DEF rank
    <2> QED BY <1>6, <1>7, FS_Injection
  <1>9. \A k \in 1..Cardinality(S) : \E i \in S : rank[i] = k
    <2> HIDE DEF rank
    <2> QED BY <1>8 DEF Surjection
  <1> QED BY <1>1, <1>2, <1>3, <1>5, <1>9

\* The accounts of a kind, sorted: all of them, and those of listed
\* validators at least once, the preferred validator in front.
LEMMA SortedCovers ==
  ASSUME ReadOK, NEW kind \in {"validator", "transient"},
         NEW account, \A i \in Indices : account[i].lamports \in Nat
  PROVE  LET s == Sorted(kind, account)
         IN /\ s \in Seq({account[i] : i \in Indices})
            /\ \A i \in Indices : Listed(i) => \E k \in DOMAIN s : s[k] = account[i]
            /\ kind = "validator" /\ pool.preferred # None /\ Listed(pool.preferred) =>
                 s # <<>> /\ s[1] = account[pool.preferred]
  <1> DEFINE chosen == {i \in Indices : Listed(i)}
             lamports == [i \in chosen |-> account[i].lamports]
             under(i) == {j \in chosen : j # i /\ Before(kind, lamports, j, i)}
             below == [i \in chosen |-> under(i)]
             n == Cardinality(chosen)
             s == Sorted(kind, account)
             at(k) == CHOOSE i \in chosen : Cardinality(under(i)) + 1 = k
  <1>1. Indices \subseteq Nat \ {0} /\ IsFiniteSet(Indices)
    <2>1. Indices = 1..Len(pool.list) /\ Len(pool.list) \in Nat
      BY DEF ReadOK, Indices
    <2>2. IsFiniteSet(1..Len(pool.list))
      BY <2>1, FS_Interval
    <2>3. Indices \subseteq Nat \ {0}
      BY <2>1
    <2> QED BY <2>1, <2>2, <2>3
  <1>2. chosen \subseteq Indices /\ IsFiniteSet(chosen)
    BY <1>1, FS_Subset
  <1>3. \A i \in chosen : lamports[i] \in Nat /\ i \in Nat \ {0}
    BY <1>1, <1>2
  <1>4. below \in [chosen -> SUBSET chosen]
    OBVIOUS
  <1>5. \A i, j \in chosen : j \in below[i] <=> j # i /\ Before(kind, lamports, j, i)
    OBVIOUS
  <1>6. pool.preferred \in Nat /\ (pool.preferred # None => pool.preferred \in Indices)
    BY DEF ReadOK, None, Indices
  <1>7. s = [k \in 1..n |-> account[at(k)]]
    BY DEF Sorted
  <1>u. \A i \in chosen : below[i] = under(i)
    OBVIOUS
  <1> HIDE DEF chosen, lamports, under, below, s
  <1>8. \A i \in chosen : i \notin below[i]
    BY <1>5
  <1>9. \A i, j \in chosen : i # j => i \in below[j] \/ j \in below[i]
    BY <1>3, <1>5, <1>6 DEF Before, Larger, None
  <1>10. \A i, j \in chosen : i \in below[j] => below[i] \subseteq below[j]
    <2> SUFFICES ASSUME NEW i \in chosen, NEW j \in chosen, i \in below[j],
                        NEW k \in below[i]
                 PROVE  k \in below[j]
      OBVIOUS
    <2>1. k \in chosen
      BY <1>4
    <2> QED BY <1>3, <1>5, <1>6, <2>1 DEF Before, Larger, None
  <1>11. /\ n \in Nat
         /\ \A i \in chosen : Cardinality(below[i]) + 1 \in 1..n
         /\ \A i, j \in chosen : Cardinality(below[i]) = Cardinality(below[j]) => i = j
         /\ \A k \in 1..n : \E i \in chosen : Cardinality(below[i]) + 1 = k
    BY ONLY <1>2, <1>4, <1>8, <1>9, <1>10, RankCovers
  <1>12. \A i \in chosen : Cardinality(below[i]) \in Nat
    <2> SUFFICES ASSUME NEW i \in chosen PROVE Cardinality(below[i]) \in Nat
      OBVIOUS
    <2>1. below[i] \in SUBSET chosen
      BY <1>4
    <2> QED BY <1>2, <2>1, FS_Subset, FS_CardinalityType
  <1>13. \A k \in 1..n : at(k) \in chosen /\ Cardinality(below[at(k)]) + 1 = k
    <2> SUFFICES ASSUME NEW k \in 1..n
                 PROVE  at(k) \in chosen /\ Cardinality(under(at(k))) + 1 = k
      BY <1>u
    <2>1. \E i \in chosen : Cardinality(under(i)) + 1 = k
      BY <1>11, <1>u
    <2> QED BY <2>1
  <1>14. \A i \in chosen : Cardinality(below[i]) + 1 \in 1..n
                           /\ at(Cardinality(below[i]) + 1) = i
    <2> SUFFICES ASSUME NEW i \in chosen PROVE at(Cardinality(below[i]) + 1) = i
      BY <1>11
    <2> DEFINE k == Cardinality(below[i]) + 1
    <2>1. k \in 1..n
      BY <1>11
    <2>2. at(k) \in chosen /\ Cardinality(below[at(k)]) + 1 = k
      BY <1>13, <2>1
    <2>3. Cardinality(below[at(k)]) = Cardinality(below[i])
      BY <1>12, <2>2
    <2> QED BY <1>11, <2>2, <2>3
  <1> HIDE DEF at, n
  <1>15. DOMAIN s = 1..n /\ \A k \in 1..n : s[k] = account[at(k)]
    BY <1>7
  <1>16. s \in Seq({account[i] : i \in Indices})
    <2>1. \A k \in 1..n : account[at(k)] \in {account[i] : i \in Indices}
      BY <1>2, <1>13
    <2> QED BY <1>7, <1>11, <2>1
  <1>17. \A i \in Indices : Listed(i) => \E k \in DOMAIN s : s[k] = account[i]
    <2> SUFFICES ASSUME NEW i \in Indices, Listed(i)
                 PROVE  \E k \in DOMAIN s : s[k] = account[i]
      OBVIOUS
    <2>1. i \in chosen
      BY DEF chosen
    <2>2. Cardinality(below[i]) + 1 \in DOMAIN s /\ s[Cardinality(below[i]) + 1] = account[i]
      BY <1>14, <1>15, <2>1
    <2> QED BY <2>2
  <1>18. ASSUME kind = "validator", pool.preferred # None, Listed(pool.preferred)
         PROVE  s # <<>> /\ s[1] = account[pool.preferred]
    <2>1. pool.preferred \in chosen
      BY <1>6, <1>18 DEF chosen
    <2>2. below[pool.preferred] = {}
      <3>1. \A j \in chosen : j # pool.preferred => ~Before(kind, lamports, j, pool.preferred)
        BY <1>18 DEF Before
      <3> QED BY <1>4, <1>5, <2>1, <3>1
    <2>3. Cardinality(below[pool.preferred]) + 1 = 1
      BY <2>2, FS_EmptySet
    <2>4. 1 \in 1..n /\ at(1) = pool.preferred
      BY <1>14, <2>1, <2>3
    <2>5. s[1] = account[pool.preferred] /\ 1 \in DOMAIN s
      BY <1>15, <2>4
    <2> QED BY <1>16, <2>5
  <1> QED BY <1>16, <1>17, <1>18 DEF s
----------------------------------------------------------------------------
(* The accounts.                                                           *)

\* None is not the index of an entry.
LEMMA IndexFacts ==
  ASSUME ReadOK PROVE None \notin Indices
  <1>1. Indices = 1..Len(pool.list) /\ Len(pool.list) \in Nat
    BY DEF ReadOK, Indices
  <1> QED BY <1>1 DEF None

\* Balances, and what they are worth, are natural numbers.
LEMMA AccountTypes ==
  ASSUME ReadOK
  PROVE  /\ MinBalance \in Nat
         /\ \A i \in Indices : /\ ValidatorAccount(i).lamports \in Nat
                               /\ TransientAccount(i).lamports \in Nat
         /\ \A a \in All : a.lamports \in Nat
  <1>1. MinBalance \in Nat
    <2>1. Rent \in Nat /\ MinDelegation \in [Libraries -> Nat]
      BY PlanAssumption DEF PlanAssumption
    <2>2. Library \in Libraries
      BY DEF ReadOK, Arguments, Library
    <2> QED BY <2>1, <2>2 DEF MinBalance
  <1>2. ASSUME NEW i \in Indices
        PROVE  pool.list[i].active \in Nat /\ pool.list[i].transient \in Nat
    <2>1. pool.list \in Seq(Entries) /\ i \in DOMAIN pool.list
      BY <1>2 DEF ReadOK, Indices
    <2>2. pool.list[i] \in Entries
      BY <2>1
    <2> QED BY <2>2 DEF Entries
  <1>3. \A i \in Indices : /\ ValidatorAccount(i).lamports \in Nat
                           /\ TransientAccount(i).lamports \in Nat
    BY <1>1, <1>2 DEF ValidatorAccount, TransientAccount, Account
  <1>4. ReserveAccount.lamports \in Nat
    BY DEF ReserveAccount, Account, ReadOK
  <1> QED BY <1>1, <1>3, <1>4 DEF All

\* What an account has in tokens, and that a withdrawal of at most that is
\* covered by its lamports.
LEMMA AvailableCovers ==
  ASSUME ReadOK, NEW a, a.lamports \in Nat
  PROVE  /\ Available(a) \in Nat
         /\ \A x \in Nat : x <= Available(a) => Lamports(x) <= a.lamports
  <1> DEFINE T == pool.total
             S == pool.supply
             fee == pool.fee
             without == WithoutFee(a)
             lam == a.lamports
  <1>1. T \in Nat /\ S \in Nat /\ lam \in Nat
    BY DEF ReadOK
  <1>2. fee.numerator \in Nat /\ fee.denominator \in Nat /\ fee.numerator <= fee.denominator
    BY DEF ReadOK, WholeFees
  <1>3. without = PoolTokensForDeposit(T, S, lam)
    BY DEF WithoutFee
  <1> HIDE DEF T, S, fee, without, lam
  <1>4. without \in Nat
    BY <1>1, <1>3, DepositConversion
  <1>5. ASSUME NEW y \in Nat, y <= without PROVE LamportsForWithdrawal(T, S, y) <= lam
    BY <1>1, <1>3, <1>5, RoundTrip
  <1>6. ASSUME NEW x \in Nat PROVE Apply(fee, x) \in 0..x
    BY <1>2, ApplyAtMostWhole
  <1>7. CASE request.skip_fee
    <2>1. Available(a) = without
      BY <1>7 DEF Available, without
    <2>2. \A x : Lamports(x) = LamportsForWithdrawal(T, S, x - 0)
      BY <1>7 DEF Lamports, T, S
    <2>3. ASSUME NEW x \in Nat, x <= Available(a) PROVE Lamports(x) <= a.lamports
      BY <1>5, <2>1, <2>2, <2>3 DEF lam
    <2> QED BY <1>4, <2>1, <2>3
  <1>8. ASSUME ~request.skip_fee, NEW x \in Nat, x - Apply(fee, x) <= without
        PROVE  Lamports(x) <= a.lamports
    <2>1. Lamports(x) = LamportsForWithdrawal(T, S, x - Apply(fee, x))
      BY <1>8 DEF Lamports, T, S, fee
    <2>2. x - Apply(fee, x) \in Nat
      BY <1>6
    <2> QED BY <1>5, <1>8, <2>1, <2>2 DEF lam
  <1>9. CASE ~request.skip_fee /\ fee.numerator = fee.denominator
    <2>1. Available(a) = without
      BY <1>2, <1>9 DEF Available, InverseFee, without, fee
    <2>2. ASSUME NEW x \in Nat, x <= Available(a) PROVE Lamports(x) <= a.lamports
      <3>1. Apply(fee, x) \in 0..x
        BY <1>6
      <3>2. x - Apply(fee, x) <= without
        BY <1>4, <2>1, <2>2, <3>1
      <3> QED BY <1>8, <1>9, <3>2
    <2> QED BY <1>4, <2>1, <2>2
  <1>10. CASE ~request.skip_fee /\ fee.numerator # fee.denominator
    <2>1. fee.numerator < fee.denominator /\ fee.denominator - fee.numerator \in Nat \ {0}
      BY <1>2, <1>10
    <2>2. Available(a) = (without * fee.denominator) \div (fee.denominator - fee.numerator)
      BY <1>2, <1>10, <2>1 DEF Available, WithFee, InverseFee, without, fee
    <2>3. without * fee.denominator \in Nat
      BY <1>2, <1>4, MulFacts
    <2>4. Available(a) \in Nat
      BY <2>1, <2>2, <2>3, DivFacts
    <2>5. ASSUME NEW x \in Nat, x <= Available(a) PROVE Lamports(x) <= a.lamports
      <3>1. x - Apply(fee, x) <= without
        BY <1>2, <1>4, <2>1, <2>2, <2>5, FeeRoundTrip
      <3> QED BY <1>8, <1>10, <3>1
    <2> QED BY <2>4, <2>5
  <1> QED BY <1>7, <1>9, <1>10

\* One sequence after another.
LEMMA ConcatFacts ==
  ASSUME NEW S, NEW v \in Seq(S), NEW t \in Seq(S)
  PROVE  /\ v \o t \in Seq(S) /\ Len(v \o t) = Len(v) + Len(t)
         /\ \A k \in 1..Len(v) : (v \o t)[k] = v[k]
         /\ \A k \in 1..Len(t) : (v \o t)[Len(v) + k] = t[k]
  OBVIOUS

\* Two sequences and an element, one after the other.
LEMMA Concatenated ==
  ASSUME NEW S, NEW v \in Seq(S), NEW t \in Seq(S), NEW r \in S
  PROVE  LET acc == v \o t \o <<r>>
         IN /\ acc \in Seq(S) /\ Len(acc) = Len(v) + Len(t) + 1
            /\ \A k \in DOMAIN v : k \in DOMAIN acc /\ acc[k] = v[k]
            /\ \A k \in DOMAIN t : Len(v) + k \in DOMAIN acc /\ acc[Len(v) + k] = t[k]
            /\ Len(acc) \in DOMAIN acc /\ acc[Len(acc)] = r
  <1> DEFINE vt == v \o t
  <1>1. /\ vt \in Seq(S) /\ Len(vt) = Len(v) + Len(t)
        /\ \A k \in 1..Len(v) : vt[k] = v[k]
        /\ \A k \in 1..Len(t) : vt[Len(v) + k] = t[k]
    OBVIOUS
  <1> DEFINE one == <<r>>
             acc == vt \o one
  <1>one. one \in Seq(S) /\ Len(one) = 1 /\ one[1] = r
    OBVIOUS
  <1> HIDE DEF vt, one
  <1>2. /\ acc \in Seq(S) /\ Len(acc) = Len(vt) + 1
        /\ \A k \in 1..Len(vt) : acc[k] = vt[k]
        /\ acc[Len(vt) + 1] = r
    <2>1. /\ acc \in Seq(S) /\ Len(acc) = Len(vt) + Len(one)
          /\ \A k \in 1..Len(vt) : acc[k] = vt[k]
          /\ \A k \in 1..Len(one) : acc[Len(vt) + k] = one[k]
      <3>1. vt \in Seq(S) /\ one \in Seq(S)
        BY <1>1, <1>one
      <3> QED BY ONLY <3>1, ConcatFacts DEF acc
    <2>4. 1 \in 1..Len(one)
      BY <1>one
    <2>5. acc[Len(vt) + 1] = one[1]
      BY <2>1, <2>4
    <2> HIDE DEF acc
    <2> QED BY <1>one, <2>1, <2>5
  <1> HIDE DEF acc
  <1>3. Len(v) \in Nat /\ Len(t) \in Nat /\ DOMAIN v = 1..Len(v) /\ DOMAIN t = 1..Len(t)
        /\ DOMAIN acc = 1..Len(acc)
    BY <1>2
  <1>4. \A k \in DOMAIN v : k \in DOMAIN acc /\ acc[k] = v[k]
    BY <1>1, <1>2, <1>3
  <1>5. \A k \in DOMAIN t : Len(v) + k \in DOMAIN acc /\ acc[Len(v) + k] = t[k]
    BY <1>1, <1>2, <1>3
  <1>6. Len(acc) \in DOMAIN acc /\ acc[Len(acc)] = r /\ Len(acc) = Len(v) + Len(t) + 1
    BY <1>1, <1>2, <1>3
  <1> QED BY <1>2, <1>4, <1>5, <1>6 DEF acc, vt, one

\* A sequence over a set is one over a larger set.
LEMMA SeqWiden ==
  ASSUME NEW S, NEW T, S \subseteq T, NEW s \in Seq(S) PROVE s \in Seq(T)
  <1>1. Len(s) \in Nat /\ s \in [1..Len(s) -> T]
    OBVIOUS
  <1> QED BY <1>1

\* What the search starts with: every account of a listed validator and the
\* reserve, the preferred validator in front.
LEMMA StartsWithAll ==
  ASSUME ReadOK, NEW acc,
         acc = Sorted("validator", [i \in Indices |-> ValidatorAccount(i)])
                 \o Sorted("transient", [i \in Indices |-> TransientAccount(i)])
                 \o <<ReserveAccount>>
  PROVE  /\ acc \in Seq(All)
         /\ \A a \in All : Usable(a) => Ahead(acc, a)
         /\ pool.preferred # None /\ Listed(pool.preferred) => acc # <<>> /\ Head(acc) = Favoured
  <1> DEFINE va == [i \in Indices |-> ValidatorAccount(i)]
             ta == [i \in Indices |-> TransientAccount(i)]
             v == Sorted("validator", va)
             t == Sorted("transient", ta)
  <1>1. /\ \A i \in Indices : va[i] = ValidatorAccount(i) /\ va[i].lamports \in Nat
        /\ \A i \in Indices : ta[i] = TransientAccount(i) /\ ta[i].lamports \in Nat
    BY AccountTypes
  <1>2. acc = v \o t \o <<ReserveAccount>>
    OBVIOUS
  <1> HIDE DEF va, ta
  <1>3. /\ v \in Seq({va[i] : i \in Indices})
        /\ \A i \in Indices : Listed(i) => \E k \in DOMAIN v : v[k] = va[i]
        /\ pool.preferred # None /\ Listed(pool.preferred) => v # <<>> /\ v[1] = va[pool.preferred]
    BY <1>1, SortedCovers
  <1>4. /\ t \in Seq({ta[i] : i \in Indices})
        /\ \A i \in Indices : Listed(i) => \E k \in DOMAIN t : t[k] = ta[i]
    BY <1>1, SortedCovers
  <1> HIDE DEF v, t
  <1>5. v \in Seq(All) /\ t \in Seq(All) /\ ReserveAccount \in All
    <2>1. {va[i] : i \in Indices} \subseteq All /\ {ta[i] : i \in Indices} \subseteq All
      BY <1>1 DEF All
    <2>2. ReserveAccount \in All
      BY DEF All
    <2>3. v \in Seq(All) /\ t \in Seq(All)
      BY <1>3, <1>4, <2>1, SeqWiden
    <2> QED BY <2>2, <2>3
  <1>6. acc \in Seq(All) /\ Len(acc) \in Nat /\ DOMAIN acc = 1..Len(acc)
    <2>1. acc \in Seq(All)
      BY ONLY <1>2, <1>5, Concatenated
    <2> QED BY <2>1
  <1>7. /\ \A k \in DOMAIN v : k \in DOMAIN acc /\ acc[k] = v[k]
        /\ \A k \in DOMAIN t : Len(v) + k \in DOMAIN acc /\ acc[Len(v) + k] = t[k]
        /\ Len(acc) \in DOMAIN acc /\ acc[Len(acc)] = ReserveAccount
    BY ONLY <1>2, <1>5, Concatenated
  <1>8. ASSUME NEW a \in All, Usable(a) PROVE Ahead(acc, a)
    <2>1. CASE a = ReserveAccount
      BY <1>7, <2>1 DEF Ahead
    <2>2. ASSUME NEW i \in Indices, a = ValidatorAccount(i) PROVE Ahead(acc, a)
      <3>1. Listed(i)
        BY <1>8, <2>2 DEF Usable, ValidatorAccount, AddressKind, Account
      <3>2. PICK k \in DOMAIN v : v[k] = a
        BY <1>1, <1>3, <2>2, <3>1
      <3> QED BY <1>7, <3>2 DEF Ahead
    <2>3. ASSUME NEW i \in Indices, a = TransientAccount(i) PROVE Ahead(acc, a)
      <3>1. Listed(i)
        BY <1>8, <2>3 DEF Usable, TransientAccount, Account
      <3>2. PICK k \in DOMAIN t : t[k] = a
        BY <1>1, <1>4, <2>3, <3>1
      <3> QED BY <1>7, <3>2 DEF Ahead
    <2> QED BY <2>1, <2>2, <2>3 DEF All
  <1>9. ASSUME pool.preferred # None, Listed(pool.preferred)
        PROVE  acc # <<>> /\ Head(acc) = Favoured
    <2>1. pool.preferred \in Indices
      BY <1>9 DEF ReadOK, Indices, None
    <2>2. v # <<>> /\ v[1] = Favoured
      BY <1>1, <1>3, <1>9, <2>1 DEF Favoured
    <2>3. 1 \in DOMAIN v
      BY <1>5, <2>2
    <2>4. 1 \in DOMAIN acc /\ acc[1] = Favoured
      BY <1>7, <2>2, <2>3
    <2> QED BY <1>6, <2>4
  <1> QED BY <1>6, <1>8, <1>9
----------------------------------------------------------------------------
(* The steps.                                                              *)

\* The invariant follows what it says about the new values, as what the
\* client has read stays.
LEMMA ReadStays ==
  ASSUME UNCHANGED <<pool, request>>
  PROVE  /\ ReadOK => ReadOK'
         /\ PlanOK(accounts', plan', remaining', outcome')
              => PlanOK(accounts, plan, remaining, outcome)'
  <1>1. pool' = pool /\ request' = request
    OBVIOUS
  <1>2. ReadOK => ReadOK'
    BY <1>1 DEF ReadOK
  <1>0. /\ Indices' = Indices /\ Library' = Library /\ Named' = Named
        /\ BadReceiver' = BadReceiver /\ Mismatch' = Mismatch
    BY <1>1 DEF Indices, Library, Named, BadReceiver, Mismatch
  <1>m. \A i : Misderived(i)' = Misderived(i) /\ AddressKind(i)' = AddressKind(i)
    BY <1>0, <1>1 DEF Misderived, AddressKind
  <1>3. /\ Searched' = Searched /\ MinBalance' = MinBalance
        /\ \A i : Listed(i)' = Listed(i)
        /\ \A i : ValidatorAccount(i)' = ValidatorAccount(i)
        /\ ReserveAccount' = ReserveAccount
        /\ Favoured' = Favoured
    BY <1>0, <1>1, <1>m DEF Searched, MinBalance, Listed, ValidatorAccount, Favoured,
                            ReserveAccount, Account
  <1>4. \A i : TransientAccount(i)' = TransientAccount(i)
    BY <1>1, <1>3 DEF TransientAccount, Account
  <1>5. All' = All /\ Ids' = Ids
    BY <1>0, <1>3, <1>4 DEF All, Ids
  <1>6. \A a : Available(a)' = Available(a)
    BY <1>1 DEF Available, WithFee, WithoutFee, InverseFee
  <1>7. \A i : OneAccountHas(i)' = OneAccountHas(i)
    BY <1>0, <1>1, <1>m DEF OneAccountHas, Held
  <1>8. \A a : Usable(a)' = Usable(a)
    BY <1>3 DEF Usable
  <1>9. FavouredUsable' = FavouredUsable
    BY <1>1, <1>3, <1>6 DEF FavouredUsable
  <1>10. Progress(accounts', plan', remaining', outcome')
           => Progress(accounts, plan, remaining, outcome)'
    BY <1>3, <1>5 DEF Progress
  <1>11. Founded(plan') => Founded(plan)'
    BY <1>3, <1>5, <1>6 DEF Founded
  <1>12. Favours(accounts', plan', outcome') => Favours(accounts, plan, outcome)'
    BY <1>3, <1>6, <1>9 DEF Favours
  <1>13. Covered(accounts', plan', outcome') => Covered(accounts, plan, outcome)'
    BY <1>1, <1>3, <1>5, <1>6, <1>8 DEF Covered, Emptied, Ahead, Withdrawal
  <1>14. Refused(outcome') => Refused(outcome)'
    BY <1>0, <1>1, <1>7, <1>m DEF Refused
  <1> QED BY <1>2, <1>10, <1>11, <1>12, <1>13, <1>14 DEF PlanOK

\* The first account to be looked at, and the others.
LEMMA HeadAndTail ==
  ASSUME NEW S, NEW s \in Seq(S), s # <<>>
  PROVE  /\ Head(s) \in S /\ Tail(s) \in Seq(S)
         /\ \A a : Ahead(s, a) => a = Head(s) \/ Ahead(Tail(s), a)
  <1>1. Head(s) \in S /\ Tail(s) \in Seq(S)
    OBVIOUS
  <1>2. ASSUME NEW k \in DOMAIN s, k # 1 PROVE k - 1 \in DOMAIN Tail(s) /\ Tail(s)[k - 1] = s[k]
    BY <1>2
  <1>3. ASSUME NEW a, Ahead(s, a) PROVE a = Head(s) \/ Ahead(Tail(s), a)
    <2>1. PICK k \in DOMAIN s : s[k] = a
      BY <1>3 DEF Ahead
    <2>2. CASE k = 1
      BY <2>1, <2>2
    <2>3. CASE k # 1
      BY <1>2, <2>1, <2>3 DEF Ahead
    <2> QED BY <2>2, <2>3
  <1> QED BY <1>1, <1>3

\* A withdrawal at the end of the plan.
LEMMA AppendFacts ==
  ASSUME NEW S, NEW s \in Seq(S), NEW e \in S
  PROVE  /\ Append(s, e) \in Seq(S) /\ Len(Append(s, e)) = Len(s) + 1
         /\ \A k \in DOMAIN s : k \in DOMAIN Append(s, e) /\ Append(s, e)[k] = s[k]
         /\ Len(s) + 1 \in DOMAIN Append(s, e) /\ Append(s, e)[Len(s) + 1] = e
         /\ \A k \in DOMAIN Append(s, e) : k \in DOMAIN s \/ k = Len(s) + 1
         /\ Append(s, e) # <<>>
  OBVIOUS

\* The part of an account that is taken.
LEMMA PartFacts ==
  ASSUME ReadOK, NEW a \in All, remaining \in Nat
  PROVE  /\ Available(a) \in Nat
         /\ Part(a) \in Nat /\ Part(a) <= Available(a) /\ Part(a) <= remaining
         /\ Part(a) # remaining => Part(a) = Available(a)
  <1>1. Available(a) \in Nat
    BY AccountTypes, AvailableCovers
  <1> QED BY <1>1 DEF Part

\* Without a search there is not much to say.
LEMMA NamedStep ==
  ASSUME PlanInv, RefuseReceiver \/ UseReserve \/ UseValidator
  PROVE  PlanOK(accounts', plan', remaining', outcome')
  <1>1. /\ ~Searched /\ outcome' \in {"planned", "error"}
        /\ accounts' = accounts /\ remaining' = remaining
    BY DEF RefuseReceiver, UseReserve, UseValidator, Accepted, Searched
  <1>2. Progress(accounts', plan', remaining', outcome')
    BY <1>1 DEF PlanInv, PlanOK, Progress
  <1>3. Founded(plan') /\ Favours(accounts', plan', outcome') /\ Covered(accounts', plan', outcome')
    BY <1>1 DEF Founded, Favours, FavouredUsable, Covered
  <1>4. Refused(outcome')
    <2> SUFFICES ASSUME ~BadReceiver, ~request.use_reserve, ~Mismatch, Named \in Indices,
                        ~Misderived(Named), outcome' = "error"
                 PROVE  OneAccountHas(Named) < request.amount
      BY DEF Refused
    <2>2. ~(OneAccountHas(Named) >= request.amount)
      BY DEF RefuseReceiver, UseReserve, UseValidator, Found
    <2>3. request.amount \in Nat
      BY DEF PlanInv, ReadOK, Arguments
    <2>4. OneAccountHas(Named) \in Int
      <3> DEFINE free == pool.list[Named].active - MinDelegation[Library] - Rent
                 T == pool.total
                 S == pool.supply
      <3>1. free \in Int
        <4>1. pool.list[Named].active \in Nat
          BY AccountTypes DEF PlanInv, ValidatorAccount, Account
        <4>2. Rent \in Nat /\ MinDelegation \in [Libraries -> Nat]
          BY PlanAssumption DEF PlanAssumption
        <4>3. Library \in Libraries
          BY DEF PlanInv, ReadOK, Arguments, Library
        <4> QED BY <4>1, <4>2, <4>3
      <3>2. T \in Nat /\ S \in Nat
        BY DEF PlanInv, ReadOK
      <3>3. OneAccountHas(Named) = IF free < 0 THEN 0 ELSE LamportsForWithdrawal(T, S, free)
        BY DEF OneAccountHas, Held
      <3> HIDE DEF free, T, S
      <3>4. CASE free < 0
        BY <3>3, <3>4
      <3>5. CASE ~(free < 0)
        <4>1. LamportsForWithdrawal(T, S, free) \in Nat
          BY <3>1, <3>2, <3>5, WithdrawConversion
        <4> QED BY <3>3, <3>5, <4>1
      <3> QED BY <3>4, <3>5
    <2> QED BY <2>2, <2>3, <2>4
  <1> QED BY <1>2, <1>3, <1>4 DEF PlanOK

\* The search begins.
LEMMA PrepareStep ==
  ASSUME PlanInv, Prepare
  PROVE  PlanOK(accounts', plan', remaining', outcome')
  <1>1. outcome = "asked" /\ Searched /\ plan' = plan /\ plan = <<>>
    BY DEF Prepare, Accepted, Searched, PlanInv, PlanOK, Progress
  <1>2. Founded(plan')
    BY <1>1 DEF PlanInv, PlanOK
  <1>3. Refused(outcome')
    <2>1. Named \notin Indices
      BY <1>1, IndexFacts DEF Searched, PlanInv
    <2> QED BY <2>1 DEF Refused
  <1>4. CASE Library = "js" /\ pool.list = <<>>
    <2>1. outcome' = "error" /\ accounts' = accounts /\ remaining' = remaining
      BY <1>4 DEF Prepare
    <2>2. Progress(accounts', plan', remaining', outcome')
      BY <1>1, <2>1 DEF PlanInv, PlanOK, Progress
    <2>3. Favours(accounts', plan', outcome') /\ Covered(accounts', plan', outcome')
      BY <1>1, <1>4, <2>1 DEF Favours, Covered
    <2> QED BY <1>2, <1>3, <2>2, <2>3 DEF PlanOK
  <1>5. CASE ~(Library = "js" /\ pool.list = <<>>)
    <2>1. /\ outcome' = "planning" /\ remaining' = request.amount
          /\ accounts' = Sorted("validator", [i \in Indices |-> ValidatorAccount(i)])
                           \o Sorted("transient", [i \in Indices |-> TransientAccount(i)])
                           \o <<ReserveAccount>>
      BY <1>5 DEF Prepare
    <2>2. /\ accounts' \in Seq(All)
          /\ \A a \in All : Usable(a) => Ahead(accounts', a)
          /\ pool.preferred # None /\ Listed(pool.preferred)
               => accounts' # <<>> /\ Head(accounts') = Favoured
      BY <2>1, StartsWithAll DEF PlanInv
    <2>3. request.amount \in Nat \ {0}
      BY DEF PlanInv, ReadOK, Arguments
    <2>4. Progress(accounts', plan', remaining', outcome')
      BY <1>1, <2>1, <2>2, <2>3 DEF Progress
    <2>5. Favours(accounts', plan', outcome')
      BY <1>1, <2>2 DEF Favours, FavouredUsable
    <2>6. Covered(accounts', plan', outcome')
      BY <2>1, <2>2 DEF Covered
    <2> QED BY <1>2, <1>3, <2>4, <2>5, <2>6 DEF PlanOK
  <1> QED BY <1>4, <1>5

\* An account is passed over: it is not the preferred one, and it is none
\* that has something to give.
LEMMA SkipStep ==
  ASSUME PlanInv, Skip
  PROVE  PlanOK(accounts', plan', remaining', outcome')
  <1> DEFINE h == Head(accounts)
  <1>1. /\ outcome = "planning" /\ accounts # <<>> /\ accounts' = Tail(accounts)
        /\ plan' = plan /\ remaining' = remaining /\ outcome' = outcome
        /\ ~Takes(h) \/ Part(h) = 0
    BY DEF Skip
  <1>2. Searched /\ remaining \in Nat /\ remaining > 0 /\ accounts \in Seq(All)
    BY <1>1 DEF PlanInv, PlanOK, Progress
  <1>3. /\ h \in All /\ accounts' \in Seq(All)
        /\ \A a : Ahead(accounts, a) => a = h \/ Ahead(accounts', a)
    BY <1>1, <1>2, HeadAndTail
  <1> HIDE DEF h
  <1>4. h.lamports \in Nat /\ MinBalance \in Nat
    BY <1>3, AccountTypes DEF PlanInv
  <1>5. /\ Available(h) \in Nat
        /\ Part(h) # remaining => Part(h) = Available(h)
    BY <1>2, <1>3, PartFacts DEF PlanInv
  <1>6. h.lamports > MinBalance => Available(h) = 0
    <2>1. h.lamports > MinBalance => Takes(h)
      BY <1>4 DEF Takes
    <2> QED BY <1>1, <1>2, <1>5, <2>1
  <1>7. Progress(accounts', plan', remaining', outcome')
    BY <1>1, <1>2, <1>3 DEF Progress
  <1>8. Founded(plan') /\ Refused(outcome')
    BY <1>1 DEF PlanInv, PlanOK
  <1>9. Favours(accounts', plan', outcome')
    <2>1. Favours(accounts, plan, outcome)
      BY DEF PlanInv, PlanOK
    <2>2. FavouredUsable => plan # <<>>
      <3> SUFFICES ASSUME FavouredUsable, plan = <<>> PROVE FALSE
        OBVIOUS
      <3>1. h = Favoured
        BY <1>1, <2>1 DEF Favours, h
      <3> QED BY <1>5, <1>6, <3>1 DEF FavouredUsable
    <2> QED BY <1>1, <2>1, <2>2 DEF Favours
  <1>10. Covered(accounts', plan', outcome')
    <2> SUFFICES ASSUME pool.list # <<>>, NEW a \in All, Usable(a)
                 PROVE  Available(a) = 0 \/ Emptied(plan, a) \/ Ahead(accounts', a)
      BY <1>1 DEF Covered
    <2>1. Available(a) = 0 \/ Emptied(plan, a) \/ Ahead(accounts, a)
      BY <1>1, <1>2 DEF PlanInv, PlanOK, Covered
    <2>2. a = h => Available(a) = 0
      BY <1>6 DEF Usable
    <2> QED BY <1>3, <2>1, <2>2
  <1> QED BY <1>7, <1>8, <1>9, <1>10 DEF PlanOK

\* An account is taken: with all it has, as long as the search goes on.
LEMMA TakeStep ==
  ASSUME PlanInv, Take
  PROVE  PlanOK(accounts', plan', remaining', outcome')
  <1> DEFINE h == Head(accounts)
             x == Part(h)
             w == Withdrawal(h.id, x)
             W == [account : Ids, amount : Nat]
  <1>1. /\ outcome = "planning" /\ accounts # <<>> /\ accounts' = Tail(accounts)
        /\ plan' = Append(plan, w) /\ remaining' = remaining - x
        /\ outcome' = IF remaining' = 0 THEN "planned" ELSE "planning"
    BY DEF Take
  <1>2. Searched /\ remaining \in Nat /\ remaining > 0 /\ accounts \in Seq(All)
    BY <1>1 DEF PlanInv, PlanOK, Progress
  <1>3. /\ h \in All /\ accounts' \in Seq(All)
        /\ \A a : Ahead(accounts, a) => a = h \/ Ahead(accounts', a)
    BY <1>1, <1>2, HeadAndTail
  <1> HIDE DEF h
  <1>4. /\ x \in Nat /\ x <= Available(h) /\ x <= remaining
        /\ x # remaining => x = Available(h)
    BY <1>2, <1>3, PartFacts DEF PlanInv
  <1> HIDE DEF x
  <1>5. /\ remaining' \in Nat
        /\ outcome' = "planning" => remaining' > 0 /\ x = Available(h)
        /\ outcome' \in {"planned", "planning"}
    BY <1>1, <1>2, <1>4
  <1>6. w \in W /\ w.account = h.id /\ w.amount = x
    BY <1>3, <1>4 DEF Withdrawal, Ids
  <1>7. /\ plan \in Seq(W)
        /\ \A k \in DOMAIN plan : \E a \in All :
             plan[k].account = a.id /\ plan[k].amount <= Available(a)
    BY <1>2 DEF PlanInv, PlanOK, Founded
  <1>e. w = Withdrawal(h.id, x)
    OBVIOUS
  <1> HIDE DEF w, W
  <1>8. /\ plan' \in Seq(W) /\ Len(plan') = Len(plan) + 1 /\ plan' # <<>>
        /\ \A k \in DOMAIN plan : k \in DOMAIN plan' /\ plan'[k] = plan[k]
        /\ Len(plan) + 1 \in DOMAIN plan' /\ plan'[Len(plan) + 1] = w
        /\ \A k \in DOMAIN plan' : k \in DOMAIN plan \/ k = Len(plan) + 1
    BY <1>1, <1>6, <1>7, AppendFacts
  <1>9. Progress(accounts', plan', remaining', outcome')
    BY <1>2, <1>3, <1>5 DEF Progress
  <1>10. Founded(plan')
    <2>1. ASSUME NEW k \in DOMAIN plan'
          PROVE  \E a \in All : plan'[k].account = a.id /\ plan'[k].amount <= Available(a)
      <3>1. CASE k \in DOMAIN plan
        BY <1>7, <1>8, <3>1
      <3>2. CASE k = Len(plan) + 1
        BY <1>3, <1>4, <1>6, <1>8, <3>2
      <3> QED BY <1>8, <2>1, <3>1, <3>2
    <2> QED BY <1>8, <2>1 DEF Founded, W
  <1>11. Favours(accounts', plan', outcome')
    <2> SUFFICES ASSUME FavouredUsable
                 PROVE  /\ plan'[1].account = Favoured.id
                        /\ Len(plan') > 1 \/ outcome' = "planning" =>
                             plan'[1].amount = Available(Favoured)
      BY <1>8 DEF Favours
    <2>1. Favours(accounts, plan, outcome)
      BY DEF PlanInv, PlanOK
    <2>2. CASE plan = <<>>
      <3>1. h = Favoured
        BY <1>1, <2>1, <2>2 DEF Favours, h
      <3>2. Len(plan) = 0 /\ plan'[1] = w /\ Len(plan') = 1
        BY <1>8, <2>2
      <3> QED BY <1>5, <1>6, <3>1, <3>2
    <2>3. CASE plan # <<>>
      <3>1. 1 \in DOMAIN plan
        BY <1>7, <2>3
      <3>2. plan[1].account = Favoured.id /\ plan[1].amount = Available(Favoured)
        BY <1>1, <2>1, <2>3 DEF Favours
      <3> QED BY <1>8, <3>1, <3>2
    <2> QED BY <2>2, <2>3
  <1>12. Covered(accounts', plan', outcome')
    <2> SUFFICES ASSUME pool.list # <<>>, outcome' = "planning", NEW a \in All, Usable(a)
                 PROVE  Available(a) = 0 \/ Emptied(plan', a) \/ Ahead(accounts', a)
      BY <1>5 DEF Covered
    <2>1. Available(a) = 0 \/ Emptied(plan, a) \/ Ahead(accounts, a)
      BY <1>1, <1>2 DEF PlanInv, PlanOK, Covered
    <2>2. Emptied(plan, a) => Emptied(plan', a)
      BY <1>8 DEF Emptied
    <2>3. a = h => Emptied(plan', a)
      BY <1>5, <1>8, <1>e DEF Emptied
    <2> QED BY <1>3, <2>1, <2>2, <2>3
  <1>13. Refused(outcome')
    BY <1>5 DEF Refused
  <1> QED BY <1>9, <1>10, <1>11, <1>12, <1>13 DEF PlanOK

\* The search ends, and the transaction is built.
LEMMA EndStep ==
  ASSUME PlanInv, Panic \/ NotEnough \/ Build
  PROVE  PlanOK(accounts', plan', remaining', outcome')
  <1>1. /\ accounts' = accounts /\ plan' = plan /\ remaining' = remaining
        /\ outcome' \in {"panic", "error", "sent"}
        /\ outcome' = "error" => outcome = "planning" /\ accounts = <<>>
    BY DEF Panic, NotEnough, Build
  <1>2. Progress(accounts', plan', remaining', outcome') /\ Founded(plan')
    BY <1>1 DEF PlanInv, PlanOK, Progress
  <1>3. Favours(accounts', plan', outcome')
    BY <1>1 DEF PlanInv, PlanOK, Favours
  <1>4. Covered(accounts', plan', outcome')
    <2> SUFFICES ASSUME Searched, pool.list # <<>>, outcome' = "error", NEW a \in All, Usable(a)
                 PROVE  Available(a) = 0 \/ Emptied(plan, a)
      BY <1>1 DEF Covered
    <2>1. Available(a) = 0 \/ Emptied(plan, a) \/ Ahead(accounts, a)
      BY <1>1 DEF PlanInv, PlanOK, Covered
    <2>2. ~Ahead(accounts, a)
      BY <1>1 DEF Ahead
    <2> QED BY <2>1, <2>2
  <1>5. Refused(outcome')
    <2>1. outcome' = "error" => Named \notin Indices
      BY <1>1, IndexFacts DEF PlanInv, PlanOK, Progress, Searched
    <2> QED BY <1>1, <2>1 DEF Refused
  <1> QED BY <1>2, <1>3, <1>4, <1>5 DEF PlanOK

\* Every step keeps the invariant.
LEMMA PlanStep == PlanInv /\ [Next]_vars => PlanInv'
  <1> SUFFICES ASSUME PlanInv, [Next]_vars PROVE PlanInv'
    OBVIOUS
  <1>1. UNCHANGED <<pool, request>>
    BY DEF Next, RefuseReceiver, UseReserve, UseValidator, Prepare, Skip, Take, Panic,
           NotEnough, Build, vars
  <1>2. PlanOK(accounts', plan', remaining', outcome')
    <2>1. CASE UNCHANGED vars
      BY <2>1 DEF PlanInv, vars
    <2>2. CASE RefuseReceiver \/ UseReserve \/ UseValidator
      BY <2>2, NamedStep
    <2>3. CASE Panic \/ NotEnough \/ Build
      BY <2>3, EndStep
    <2> QED BY <2>1, <2>2, <2>3, PrepareStep, SkipStep, TakeStep DEF Next
  <1> QED BY <1>1, <1>2, ReadStays DEF PlanInv

\* The total of the pool is a natural number.
LEMMA PoolTotalType ==
  ASSUME NEW list \in Seq(Entries), NEW reserve \in Nat
  PROVE  PoolTotal(list, reserve) \in Nat
  <1> DEFINE held == [i \in DOMAIN list |-> list[i].active + list[i].transient]
             D == DOMAIN list
  <1>1. PoolTotal(list, reserve) = reserve + Total(held, D)
    BY DEF PoolTotal, Total
  <1>2. D = 1..Len(list) /\ Len(list) \in Nat
    OBVIOUS
  <1>3. IsFiniteSet(D)
    BY <1>2, FS_Interval
  <1>4. \A i \in D : list[i] \in Entries
    OBVIOUS
  <1>5. \A i \in D : held[i] \in Nat
    BY <1>4 DEF Entries
  <1> HIDE DEF held, D
  <1>6. Total(held, D) \in Nat
    BY <1>3, <1>5, TotalType
  <1> QED BY <1>1, <1>6

\* The invariant holds when the client has read the pool.
LEMMA PlanInit == Init => PlanInv
  <1> SUFFICES ASSUME Init PROVE PlanInv
    OBVIOUS
  <1>1. PICK list \in Validators, price \in Prices, reserve \in Reserves, fee \in Fees :
          \E preferred \in DOMAIN list \cup {None}, stray \in Strays :
            pool = [list |-> list, total |-> PoolTotal(list, reserve),
                    supply |-> (PoolTotal(list, reserve) * price[2]) \div price[1],
                    reserve |-> reserve, fee |-> fee, preferred |-> preferred, stray |-> stray]
    BY DEF Init
  <1>2. PICK preferred \in DOMAIN list \cup {None}, stray \in Strays :
          pool = [list |-> list, total |-> PoolTotal(list, reserve),
                  supply |-> (PoolTotal(list, reserve) * price[2]) \div price[1],
                  reserve |-> reserve, fee |-> fee, preferred |-> preferred, stray |-> stray]
    BY <1>1
  <1>3. list \in Seq(Entries) /\ reserve \in Nat /\ fee \in WholeFees /\ stray \in Nat
    BY PlanAssumption DEF PlanAssumption
  <1>4. price[1] \in Nat \ {0} /\ price[2] \in Nat \ {0}
    <2>1. price \in (Nat \ {0}) \X (Nat \ {0})
      BY PlanAssumption DEF PlanAssumption
    <2> QED BY <2>1
  <1> DEFINE T == PoolTotal(list, reserve)
             S == (T * price[2]) \div price[1]
  <1>5. T \in Nat
    BY <1>3, PoolTotalType
  <1>6. S \in Nat
    <2> HIDE DEF T
    <2>1. T * price[2] \in Nat
      BY <1>4, <1>5, MulFacts
    <2> QED BY <1>4, <2>1, DivFacts
  <1>7. preferred \in Nat /\ preferred <= Len(list)
    BY <1>3 DEF None
  <1>8. pool = [list |-> list, total |-> T, supply |-> S,
                reserve |-> reserve, fee |-> fee, preferred |-> preferred, stray |-> stray]
    BY <1>2
  <1> HIDE DEF T, S
  <1>9. /\ pool \in [list : Seq(Entries), total : Nat, supply : Nat, reserve : Nat,
                     fee : WholeFees, preferred : Nat, stray : Nat]
        /\ pool.preferred <= Len(pool.list) /\ pool.list = list
    BY <1>3, <1>5, <1>6, <1>7, <1>8
  <1>10. /\ request \in Requests /\ request.amount <= pool.supply
         /\ accounts = <<>> /\ plan = <<>> /\ remaining = 0 /\ outcome = "asked"
    BY DEF Init
  <1>13. request \in Arguments
    BY <1>10, PlanAssumption DEF PlanAssumption
  <1>14. ReadOK
    BY <1>9, <1>10, <1>13 DEF ReadOK
  <1>15. Progress(accounts, plan, remaining, outcome) /\ Founded(plan)
    BY <1>10 DEF Progress, Founded
  <1>16. Favours(accounts, plan, outcome) /\ Covered(accounts, plan, outcome) /\ Refused(outcome)
    BY <1>10 DEF Favours, Covered, Refused
  <1> QED BY <1>14, <1>15, <1>16 DEF PlanInv, PlanOK

\* The invariant holds throughout.
LEMMA PlanAlways == Spec => []PlanInv
  BY PlanInit, PlanStep, PTL DEF Spec
----------------------------------------------------------------------------
(* The theorems.                                                           *)

\* No withdrawal that prepare_withdraw_accounts plans asks an account for more
\* lamports than the list records for it, whatever the price and the fee; and
\* no address is wrong but that of a validator with a suffix in the JavaScript
\* library.
THEOREM PlanNeverOverdraws == Spec => []NoOverdraw
  <1>1. PlanInv => NoOverdraw
    <2> SUFFICES ASSUME PlanInv, Searched, NEW k \in DOMAIN plan
                 PROVE  \E a \in All :
                          /\ plan[k].account = a.id /\ Lamports(plan[k].amount) <= a.lamports
                          /\ a.id[1] = "stray" => Library = "js" /\ pool.list[a.id[2]].suffixed
      BY DEF NoOverdraw
    <2>1. /\ plan \in Seq([account : Ids, amount : Nat])
          /\ \E a \in All : plan[k].account = a.id /\ plan[k].amount <= Available(a)
      BY DEF PlanInv, PlanOK, Founded
    <2>2. PICK a \in All : plan[k].account = a.id /\ plan[k].amount <= Available(a)
      BY <2>1
    <2>3. plan[k].amount \in Nat
      <3> DEFINE W == [account : Ids, amount : Nat]
      <3>1. plan \in Seq(W) /\ \A w \in W : w.amount \in Nat
        BY <2>1
      <3> HIDE DEF W
      <3>2. plan[k] \in W
        BY <3>1
      <3> QED BY <3>1, <3>2
    <2>4. a.lamports \in Nat
      BY AccountTypes DEF PlanInv
    <2>5. Lamports(plan[k].amount) <= a.lamports
      BY <2>2, <2>3, <2>4, AvailableCovers DEF PlanInv
    <2>6. a.id[1] = "stray" => Library = "js" /\ pool.list[a.id[2]].suffixed
      BY DEF All, ValidatorAccount, AddressKind, Misderived, TransientAccount, ReserveAccount,
             Account
    <2> QED BY <2>2, <2>5, <2>6
  <1> QED BY <1>1, PlanAlways, PTL

\* A plan empties the preferred validator before it turns to another account,
\* which the program insists on in WithdrawStake, if the address is right.
THEOREM PlanPrefers == Spec => []PreferredFirst
  <1>1. PlanInv => PreferredFirst
    BY DEF PlanInv, PlanOK, Favours, FavouredUsable, Favoured, PreferredFirst,
           ValidatorAccount, AddressKind, Account
  <1> QED BY <1>1, PlanAlways, PTL

\* A client that says "not enough" is right: the plan takes all there is from
\* every account it may use. A named validator has less to spare than the tokens
\* are worth, at a price of at least a lamport, or the request contradicts
\* itself; the JavaScript library has three more reasons, and no others.
THEOREM PlanGivesUpRightly == Spec => []GivesUpOnlyWhenEmpty
  <1>1. PlanInv => GivesUpOnlyWhenEmpty
    <2> SUFFICES ASSUME PlanInv PROVE GivesUpOnlyWhenEmpty
      OBVIOUS
    <2>1. ASSUME Searched, outcome = "error", pool.list # <<>>, NEW a \in All,
                 a.lamports > MinBalance, a.id[1] = "reserve" \/ Listed(a.id[2])
          PROVE  Available(a) = 0
                   \/ \E k \in DOMAIN plan : plan[k] = Withdrawal(a.id, Available(a))
      BY <2>1 DEF PlanInv, PlanOK, Covered, Usable, Emptied
    <2>2. ASSUME ~request.use_reserve, Named \in Indices, outcome = "error",
                 pool.supply <= pool.total,
                 request.vote \in {None, Named},
                 ~(/\ Library = "js"
                   /\ \/ pool.list[Named].suffixed
                      \/ None \notin {request.vote, request.receiver}
                      \/ request.no_stake)
          PROVE  LamportsForWithdrawal(pool.total, pool.supply, request.amount)
                   > pool.list[Named].active - MinBalance
      <3> DEFINE T == pool.total
                 S == pool.supply
                 n == request.amount
                 active == pool.list[Named].active
                 free == active - MinDelegation[Library] - Rent
      <3>1. T \in Nat /\ S \in Nat /\ n \in Nat \ {0} /\ n <= S /\ S <= T
        BY <2>2 DEF PlanInv, ReadOK, Arguments
      <3>2. OneAccountHas(Named) < n
        <4>1. ~BadReceiver /\ ~Misderived(Named)
          BY <2>2 DEF BadReceiver, Misderived
        <4>2. ~Mismatch
          BY <2>2 DEF Mismatch, Named
        <4> QED BY <2>2, <4>1, <4>2 DEF PlanInv, PlanOK, Refused
      <3>3. OneAccountHas(Named) = IF free < 0 THEN 0 ELSE LamportsForWithdrawal(T, S, free)
        BY <2>2 DEF OneAccountHas, Held, Misderived
      <3>4. active \in Nat
        BY <2>2, AccountTypes DEF PlanInv, ValidatorAccount, Account
      <3>5. free \in Int /\ active - MinBalance = free
        <4>1. Rent \in Nat /\ MinDelegation \in [Libraries -> Nat]
          BY PlanAssumption DEF PlanAssumption
        <4>2. Library \in Libraries
          BY DEF PlanInv, ReadOK, Arguments, Library
        <4> HIDE DEF active
        <4> QED BY <3>4, <4>1, <4>2 DEF MinBalance
      <3> HIDE DEF T, S, n, active, free
      <3>6. LamportsForWithdrawal(T, S, n) \in Nat /\ n <= LamportsForWithdrawal(T, S, n)
        <4>1. S \in Nat \ {0} /\ n \in Nat
          BY <3>1
        <4> QED BY <3>1, <4>1, WithdrawConversion, WorthALamport
      <3>7. free < n
        <4>1. CASE free < 0
          BY <3>1, <3>5, <4>1
        <4>2. CASE ~(free < 0)
          <5>1. free \in Nat /\ S \in Nat \ {0}
            BY <3>1, <3>5, <4>2
          <5>2. /\ LamportsForWithdrawal(T, S, free) \in Nat
                /\ free <= LamportsForWithdrawal(T, S, free)
            BY <3>1, <5>1, WithdrawConversion, WorthALamport
          <5> QED BY <3>1, <3>2, <3>3, <4>2, <5>1, <5>2
        <4> QED BY <4>1, <4>2
      <3>8. LamportsForWithdrawal(T, S, n) > active - MinBalance
        BY <3>1, <3>5, <3>6, <3>7
      <3> QED BY <3>8 DEF T, S, n, active
    <2> QED BY <2>1, <2>2 DEF GivesUpOnlyWhenEmpty
  <1> QED BY <1>1, PlanAlways, PTL
=============================================================================
