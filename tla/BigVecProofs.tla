---------------------------- MODULE BigVecProofs ----------------------------
(***************************************************************************)
(* BigVec implements EntryVec, for any capacity and any elements: the      *)
(* proof of what its unsafe memmoves amount to. RetainInvariant is         *)
(* inductive together with the bounds of retain's indices (VecOK).         *)
(***************************************************************************)
EXTENDS BigVec, FiniteSetTheorems, TLAPS

\* The length and the indices stay within the data, and the gap that retain
\* has opened ends where it reads.
VecOK ==
  /\ len \in Nat /\ len <= Capacity
  /\ data \in [0..(Capacity - 1) -> Elements]
  /\ pos \in Int /\ removals \in Nat /\ dst \in Nat
  /\ dropped \in SUBSET Elements
  /\ Running => /\ 0 <= pos /\ pos <= len
                /\ before \in [1..len -> Elements]
                /\ dst + removals <= pos

\* The elements kept among the first n, and the position of one among them.
KeptIn(s, D, n) == {i \in 1..n : s[i] \notin D}
Rank(K, i) == Cardinality(K \cap 1..i)
Cell(d, r, n) == IF n <= d THEN n - 1 ELSE n - 1 + r

\* RetainInvariant about values.
Placed(s, D, cell, d, r, p, n) ==
  /\ \A i \in p..(n - 1) : cell[i] = s[i + 1]
  /\ Cardinality(KeptIn(s, D, p)) = p - r
  /\ \A i \in KeptIn(s, D, p) : cell[Cell(d, r, Rank(KeptIn(s, D, p), i))] = s[i]

\* The two say the same.
LEMMA RetainIsPlaced ==
  RetainInvariant <=> (Running => Placed(before, dropped, data, dst, removals, pos, len))
  BY DEF RetainInvariant, Placed, KeptIn, Rank, Cell

\* Positions among the kept ones.
LEMMA RankFacts ==
  ASSUME NEW s, NEW D, NEW p \in Nat
  PROVE  LET K == KeptIn(s, D, p)
         IN /\ IsFiniteSet(K) /\ Cardinality(K) \in Nat
            /\ \A i \in K : Rank(K, i) \in 1..Cardinality(K)
  <1> DEFINE K == KeptIn(s, D, p)
  <1>1. K \in SUBSET (1..p)
    BY DEF KeptIn
  <1>2. IsFiniteSet(1..p)
    BY FS_Interval
  <1>3. IsFiniteSet(K) /\ Cardinality(K) \in Nat
    BY <1>1, <1>2, FS_Subset, FS_CardinalityType
  <1> HIDE DEF K
  <1>4. ASSUME NEW i \in K PROVE Rank(K, i) \in 1..Cardinality(K)
    <2> DEFINE U == K \cap 1..i
    <2>1. U \in SUBSET K /\ i \in U
      BY <1>1
    <2> HIDE DEF U
    <2>2. IsFiniteSet(U) /\ Cardinality(U) <= Cardinality(K) /\ Cardinality(U) \in Nat
      BY <1>3, <2>1, FS_Subset, FS_CardinalityType
    <2>3. Cardinality(U) # 0
      BY <2>1, <2>2, FS_EmptySet
    <2> QED BY <1>3, <2>2, <2>3 DEF Rank, U
  <1> QED BY <1>3, <1>4 DEF K

\* One more is kept: it comes last.
LEMMA RankKeep ==
  ASSUME NEW s, NEW D, NEW p \in Nat, s[p + 1] \notin D
  PROVE  LET K == KeptIn(s, D, p)
             L == KeptIn(s, D, p + 1)
         IN /\ L = K \cup {p + 1} /\ Cardinality(L) = Cardinality(K) + 1
            /\ \A i \in K : Rank(L, i) = Rank(K, i)
            /\ Rank(L, p + 1) = Cardinality(L)
  <1> DEFINE K == KeptIn(s, D, p)
             L == KeptIn(s, D, p + 1)
  <1>1. K \subseteq 1..p /\ L = K \cup {p + 1} /\ p + 1 \notin K
    BY DEF KeptIn
  <1>2. IsFiniteSet(K) /\ Cardinality(K) \in Nat
    BY RankFacts
  <1> HIDE DEF K, L
  <1>3. Cardinality(L) = Cardinality(K) + 1
    BY <1>1, <1>2, FS_AddElement
  <1>4. ASSUME NEW i \in K PROVE Rank(L, i) = Rank(K, i)
    <2>1. L \cap 1..i = K \cap 1..i
      BY <1>1
    <2> QED BY <2>1 DEF Rank
  <1>5. Rank(L, p + 1) = Cardinality(L)
    <2>1. L \cap 1..(p + 1) = L
      BY DEF L, KeptIn
    <2> QED BY <2>1 DEF Rank
  <1> QED BY <1>1, <1>3, <1>4, <1>5 DEF K, L

\* One is dropped: nothing changes for the others.
LEMMA RankDrop ==
  ASSUME NEW s, NEW D, NEW p \in Nat, s[p + 1] \in D
  PROVE  KeptIn(s, D, p + 1) = KeptIn(s, D, p)
  BY DEF KeptIn

\* What Close(end) does: the kept elements up to end stand together in front,
\* and nothing from end on moves.
LEMMA CloseFacts ==
  ASSUME VecOK, Running, NEW end \in Nat, end <= Capacity, dst + removals <= end,
         Cardinality(KeptIn(before, dropped, end)) = end - removals,
         \A i \in KeptIn(before, dropped, end) :
           data[Cell(dst, removals, Rank(KeptIn(before, dropped, end), i))] = before[i]
  PROVE  /\ Close(end) \in [0..(Capacity - 1) -> Elements]
         /\ \A i \in end..(Capacity - 1) : Close(end)[i] = data[i]
         /\ \A i \in KeptIn(before, dropped, end) :
              Close(end)[Rank(KeptIn(before, dropped, end), i) - 1] = before[i]
  <1> DEFINE K == KeptIn(before, dropped, end)
  <1>1. /\ Capacity \in Nat /\ data \in [0..(Capacity - 1) -> Elements]
        /\ removals \in Nat /\ dst \in Nat
    BY BigVecAssumption DEF VecOK, BigVecAssumption
  <1>2. /\ Cardinality(K) = end - removals
        /\ \A i \in K : Rank(K, i) \in 1..(end - removals)
    BY RankFacts
  <1>3. \A i \in K : data[Cell(dst, removals, Rank(K, i))] = before[i]
    OBVIOUS
  <1> HIDE DEF K
  <1>4. CASE removals = 0
    <2>1. Close(end) = data
      BY <1>4 DEF Close
    <2>2. \A i \in K : Cell(dst, removals, Rank(K, i)) = Rank(K, i) - 1
      BY <1>1, <1>2, <1>4 DEF Cell
    <2>3. \A i \in K : Close(end)[Rank(K, i) - 1] = before[i]
      BY <1>3, <2>1, <2>2
    <2> QED BY <1>1, <2>1, <2>3 DEF K
  <1>5. CASE removals > 0
    <2>1. DOMAIN data = 0..(Capacity - 1)
      BY <1>1
    <2>2. Close(end) = [i \in 0..(Capacity - 1) |->
                          IF i \in dst..(end - removals - 1) THEN data[i + removals] ELSE data[i]]
      <3>1. Close(end) = [i \in DOMAIN data |->
                            IF i \in dst..(dst + (end - removals - dst) - 1)
                              THEN data[dst + removals + i - dst] ELSE data[i]]
        BY <1>5 DEF Close, Memmove
      <3>2. dst + (end - removals - dst) - 1 = end - removals - 1
        BY <1>1
      <3>3. \A i \in 0..(Capacity - 1) : dst + removals + i - dst = i + removals
        BY <1>1
      <3> QED BY <2>1, <3>1, <3>2, <3>3
    <2>3. \A i \in dst..(end - removals - 1) : i + removals \in 0..(Capacity - 1)
      BY <1>1
    <2>4. Close(end) \in [0..(Capacity - 1) -> Elements]
      BY <1>1, <2>2, <2>3
    <2>5. \A i \in end..(Capacity - 1) : Close(end)[i] = data[i]
      BY <1>1, <1>5, <2>2
    <2>6. ASSUME NEW i \in K PROVE Close(end)[Rank(K, i) - 1] = before[i]
      <3> DEFINE n == Rank(K, i)
      <3>1. n \in Nat /\ 1 <= n /\ n <= end - removals
        BY <1>1, <1>2
      <3>2. data[Cell(dst, removals, n)] = before[i]
        BY <1>3
      <3> HIDE DEF n
      <3>3. n - 1 \in 0..(Capacity - 1)
        BY <1>1, <3>1
      <3>4. CASE n <= dst
        BY <1>1, <2>2, <3>1, <3>2, <3>3, <3>4 DEF Cell, n
      <3>5. CASE ~(n <= dst)
        <4>1. n - 1 \in dst..(end - removals - 1)
          BY <1>1, <3>1, <3>5
        <4> QED BY <1>1, <2>2, <3>2, <3>3, <3>5, <4>1 DEF Cell, n
      <3> QED BY <3>4, <3>5
    <2> QED BY <2>4, <2>5, <2>6 DEF K
  <1> QED BY <1>1, <1>4, <1>5
----------------------------------------------------------------------------
(* The steps of retain.                                                    *)

\* RetainInvariant, with the bounds of the indices.
VecInv == VecOK /\ RetainInvariant

\* Before retain has looked at anything.
LEMMA BeginStep ==
  ASSUME VecInv, NEW D \in SUBSET Elements, RetainBegin(D)
  PROVE  VecInv'
  <1>1. /\ ~Running /\ dropped' = D /\ pos' = 0 /\ removals' = 0 /\ dst' = 0
        /\ before' = [i \in 1..len |-> data[i - 1]] /\ len' = len /\ data' = data
    BY DEF RetainBegin, Contents, cells
  <1>2. Capacity \in Nat /\ len \in Nat /\ len <= Capacity /\ data \in [0..(Capacity - 1) -> Elements]
    BY BigVecAssumption DEF VecInv, VecOK, BigVecAssumption
  <1>3. \A i \in 1..len : i - 1 \in 0..(Capacity - 1)
    BY <1>2
  <1>4. before' \in [1..len -> Elements]
    BY <1>1, <1>2, <1>3
  <1>5. VecOK'
    BY <1>1, <1>2, <1>4 DEF VecOK
  <1>6. Placed(before', dropped', data', dst', removals', pos', len')
    <2>1. KeptIn(before', dropped', pos') = {}
      BY <1>1 DEF KeptIn
    <2>2. Cardinality(KeptIn(before', dropped', pos')) = 0
      BY <2>1, FS_EmptySet
    <2>3. \A i \in 0..(len - 1) : data[i] = before'[i + 1]
      BY <1>1, <1>2
    <2> QED BY <1>1, <2>1, <2>2, <2>3 DEF Placed
  <1>7. RetainInvariant'
    BY <1>6 DEF RetainInvariant, Placed, KeptIn, Rank, Cell
  <1> QED BY <1>5, <1>7 DEF VecInv

\* An element is kept where it stands.
LEMMA KeepStep ==
  ASSUME VecInv, RetainKeep
  PROVE  VecInv'
  <1>1. /\ Running /\ pos < len /\ data[pos] \notin dropped /\ pos' = pos + 1
        /\ len' = len /\ data' = data /\ dropped' = dropped /\ removals' = removals
        /\ dst' = dst /\ before' = before
    BY DEF RetainKeep, cells
  <1>2. /\ len \in Nat /\ pos \in Nat /\ removals \in Nat /\ dst \in Nat
        /\ dst + removals <= pos
    BY <1>1 DEF VecInv, VecOK
  <1>3. VecOK'
    BY <1>1, <1>2 DEF VecInv, VecOK, Running
  <1>4. Placed(before, dropped, data, dst, removals, pos, len)
    BY <1>1, RetainIsPlaced DEF VecInv
  <1> DEFINE K == KeptIn(before, dropped, pos)
             L == KeptIn(before, dropped, pos + 1)
  <1>5. data[pos] = before[pos + 1]
    BY <1>1, <1>2, <1>4 DEF Placed
  <1>6. /\ L = K \cup {pos + 1} /\ Cardinality(L) = Cardinality(K) + 1
        /\ \A i \in K : Rank(L, i) = Rank(K, i)
        /\ Rank(L, pos + 1) = Cardinality(L)
    BY <1>1, <1>2, <1>5, RankKeep
  <1>7. Cardinality(K) = pos - removals
        /\ \A i \in K : data[Cell(dst, removals, Rank(K, i))] = before[i]
    BY <1>4 DEF Placed
  <1> HIDE DEF K, L
  <1>8. Cardinality(L) = pos + 1 - removals
    BY <1>2, <1>6, <1>7
  <1>9. Cell(dst, removals, Rank(L, pos + 1)) = pos
    BY <1>2, <1>6, <1>8 DEF Cell
  <1>10. \A i \in L : data[Cell(dst, removals, Rank(L, i))] = before[i]
    BY <1>5, <1>6, <1>7, <1>9
  <1>11. \A i \in (pos + 1)..(len - 1) : data[i] = before[i + 1]
    BY <1>2, <1>4 DEF Placed
  <1>12. Placed(before, dropped, data, dst, removals, pos + 1, len)
    <2> DEFINE q == pos + 1
    <2>1. \A i \in q..(len - 1) : data[i] = before[i + 1]
      BY <1>11
    <2>2. Cardinality(L) = q - removals
      BY <1>2, <1>8
    <2>3. L = KeptIn(before, dropped, q)
      BY DEF L
    <2> HIDE DEF q
    <2>4. Placed(before, dropped, data, dst, removals, q, len)
      BY <1>10, <2>1, <2>2, <2>3 DEF Placed
    <2> QED BY <2>4 DEF q
  <1>13. RetainInvariant'
    BY <1>1, <1>12 DEF RetainInvariant, Placed, KeptIn, Rank, Cell
  <1> QED BY <1>3, <1>13 DEF VecInv

\* An element is dropped: the gap before it is closed and a new one opened.
LEMMA DropStep ==
  ASSUME VecInv, RetainDrop
  PROVE  VecInv'
  <1>1. /\ Running /\ pos < len /\ data[pos] \in dropped /\ pos' = pos + 1
        /\ len' = len /\ data' = Close(pos) /\ dropped' = dropped
        /\ removals' = removals + 1 /\ dst' = pos - removals /\ before' = before
    BY DEF RetainDrop
  <1>2. /\ len \in Nat /\ pos \in Nat /\ removals \in Nat /\ dst \in Nat
        /\ dst + removals <= pos /\ len <= Capacity /\ Capacity \in Nat
    BY <1>1, BigVecAssumption DEF VecInv, VecOK, BigVecAssumption
  <1>3. Placed(before, dropped, data, dst, removals, pos, len)
    BY <1>1, RetainIsPlaced DEF VecInv
  <1> DEFINE K == KeptIn(before, dropped, pos)
             L == KeptIn(before, dropped, pos + 1)
  <1>4. data[pos] = before[pos + 1]
    BY <1>1, <1>2, <1>3 DEF Placed
  <1>5. L = K
    BY <1>1, <1>2, <1>4, RankDrop
  <1>6. Cardinality(K) = pos - removals
        /\ \A i \in K : data[Cell(dst, removals, Rank(K, i))] = before[i]
    BY <1>3 DEF Placed
  <1>7. /\ Close(pos) \in [0..(Capacity - 1) -> Elements]
        /\ \A i \in pos..(Capacity - 1) : Close(pos)[i] = data[i]
        /\ \A i \in K : Close(pos)[Rank(K, i) - 1] = before[i]
    <2>1. pos <= Capacity
      BY <1>1, <1>2
    <2> QED BY <1>1, <1>2, <1>6, <2>1, CloseFacts DEF VecInv
  <1>8. \A i \in K : Rank(K, i) \in 1..(pos - removals)
    BY <1>2, <1>6, RankFacts
  <1> HIDE DEF K, L
  <1>9. VecOK'
    <2>1. data' \in [0..(Capacity - 1) -> Elements]
      BY <1>1, <1>7
    <2>2. /\ pos' \in Int /\ removals' \in Nat /\ dst' \in Nat /\ 0 <= pos' /\ pos' <= len
          /\ dst' + removals' <= pos'
      BY <1>1, <1>2
    <2>3. dropped \in SUBSET Elements /\ before \in [1..len -> Elements]
      BY <1>1 DEF VecInv, VecOK
    <2> QED BY <1>1, <1>2, <2>1, <2>2, <2>3 DEF VecOK
  <1> DEFINE c == Close(pos)
             d == pos - removals
  <1>10. Cardinality(L) = (pos + 1) - (removals + 1)
    BY <1>2, <1>5, <1>6
  <1>11. \A i \in (pos + 1)..(len - 1) : c[i] = before[i + 1]
    <2>1. \A i \in (pos + 1)..(len - 1) : c[i] = data[i]
      BY <1>2, <1>7
    <2>2. \A i \in (pos + 1)..(len - 1) : data[i] = before[i + 1]
      BY <1>2, <1>3 DEF Placed
    <2> HIDE DEF c
    <2> QED BY <2>1, <2>2
  <1>12. \A i \in L : c[Cell(d, removals + 1, Rank(L, i))] = before[i]
    <2>1. \A i \in K : Cell(d, removals + 1, Rank(K, i)) = Rank(K, i) - 1
      BY <1>8 DEF Cell
    <2> QED BY <1>5, <1>7, <2>1
  <1>13. Placed(before, dropped, c, d, removals + 1, pos + 1, len)
    <2> HIDE DEF c, d
    <2> QED BY <1>10, <1>11, <1>12 DEF Placed, L
  <1>14. Placed(before', dropped', data', dst', removals', pos', len')
    BY <1>1, <1>13
  <1>15. RetainInvariant'
    BY <1>14 DEF RetainInvariant, Placed, KeptIn, Rank, Cell
  <1> QED BY <1>9, <1>15 DEF VecInv

\* The last gap is closed.
LEMMA EndStep ==
  ASSUME VecInv, RetainEnd
  PROVE  /\ VecInv'
         /\ LET stay == {i \in DOMAIN before : before[i] \notin dropped}
            IN /\ len' = Cardinality(stay)
               /\ \A i \in stay : Cardinality(stay \cap 1..i) \in 1..len'
                                  /\ data'[Cardinality(stay \cap 1..i) - 1] = before[i]
  <1>1. /\ Running /\ pos = len /\ data' = Close(len) /\ len' = len - removals
        /\ dropped' = {} /\ pos' = -1 /\ removals' = 0 /\ dst' = 0 /\ before' = <<>>
    BY DEF RetainEnd
  <1>2. /\ len \in Nat /\ removals \in Nat /\ dst \in Nat /\ dst + removals <= len
        /\ len <= Capacity /\ Capacity \in Nat /\ DOMAIN before = 1..len
    BY <1>1, BigVecAssumption DEF VecInv, VecOK, BigVecAssumption
  <1>3. Placed(before, dropped, data, dst, removals, len, len)
    BY <1>1, RetainIsPlaced DEF VecInv
  <1> DEFINE K == KeptIn(before, dropped, len)
  <1>4. Cardinality(K) = len - removals
        /\ \A i \in K : data[Cell(dst, removals, Rank(K, i))] = before[i]
    BY <1>3 DEF Placed
  <1>5. /\ Close(len) \in [0..(Capacity - 1) -> Elements]
        /\ \A i \in K : Close(len)[Rank(K, i) - 1] = before[i]
    BY <1>1, <1>2, <1>4, CloseFacts DEF VecInv
  <1>6. \A i \in K : Rank(K, i) \in 1..(len - removals)
    BY <1>2, <1>4, RankFacts
  <1>7. K = {i \in DOMAIN before : before[i] \notin dropped}
    BY <1>2 DEF KeptIn
  <1> HIDE DEF K
  <1>8. VecOK'
    <2>1. data' \in [0..(Capacity - 1) -> Elements]
      BY <1>1, <1>5
    <2>2. len' \in Nat /\ len' <= Capacity
      BY <1>1, <1>2
    <2> QED BY <1>1, <2>1, <2>2 DEF VecOK, Running
  <1>9. RetainInvariant'
    BY <1>1 DEF RetainInvariant, Running
  <1>10. len' = Cardinality(K)
    BY <1>1, <1>4
  <1>11. \A i \in K : /\ Cardinality(K \cap 1..i) \in 1..len'
                      /\ data'[Cardinality(K \cap 1..i) - 1] = before[i]
    BY <1>1, <1>5, <1>6 DEF Rank
  <1> QED BY <1>7, <1>8, <1>9, <1>10, <1>11 DEF VecInv
----------------------------------------------------------------------------
(* The other operations.                                                   *)

\* The contents are a sequence of elements.
LEMMA ContentsFacts ==
  ASSUME NEW n \in Nat, n <= Capacity, NEW cell \in [0..(Capacity - 1) -> Elements]
  PROVE  /\ Contents(n, cell) \in [1..n -> Elements]
         /\ Contents(n, cell) \in Seq(Elements) /\ Len(Contents(n, cell)) = n
         /\ \A i \in 1..n : Contents(n, cell)[i] = cell[i - 1]
  <1>1. \A i \in 1..n : i - 1 \in 0..(Capacity - 1)
    BY BigVecAssumption DEF BigVecAssumption
  <1>2. Contents(n, cell) \in [1..n -> Elements]
    BY <1>1 DEF Contents
  <1>3. \A i \in 1..n : Contents(n, cell)[i] = cell[i - 1]
    BY DEF Contents
  <1> HIDE DEF Contents
  <1> QED BY <1>2, <1>3

\* An operation outside retain keeps the invariant if the length and the cells
\* keep their types.
LEMMA QuietStep ==
  ASSUME VecInv, ~Running, UNCHANGED loop, len' \in Nat, len' <= Capacity,
         data' \in [0..(Capacity - 1) -> Elements]
  PROVE  VecInv' /\ ~Running'
  <1>1. ~Running'
    BY DEF loop, Running
  <1>2. VecOK'
    BY <1>1 DEF VecInv, VecOK, loop
  <1>3. RetainInvariant'
    BY <1>1 DEF RetainInvariant
  <1> QED BY <1>1, <1>2, <1>3 DEF VecInv

\* Append, as a function.
LEMMA AppendIsFunction ==
  ASSUME NEW S, NEW s \in Seq(S), NEW e \in S
  PROVE  /\ Append(s, e) \in [1..(Len(s) + 1) -> S]
         /\ \A i \in 1..Len(s) : Append(s, e)[i] = s[i]
         /\ Append(s, e)[Len(s) + 1] = e
  <1> DEFINE u == Append(s, e)
  <1>1. /\ u \in Seq(S) /\ Len(u) = Len(s) + 1
        /\ \A i \in 1..Len(s) : u[i] = s[i]
        /\ u[Len(s) + 1] = e
    OBVIOUS
  <1> HIDE DEF u
  <1>2. u \in [1..Len(u) -> S]
    BY <1>1
  <1> QED BY <1>1, <1>2 DEF u

\* Functions are equal if their values are.
LEMMA SameFunction ==
  ASSUME NEW D, NEW R, NEW f \in [D -> R], NEW g \in [D -> R], \A x \in D : f[x] = g[x]
  PROVE  f = g
  OBVIOUS

\* push appends.
LEMMA PushStep ==
  ASSUME VecInv, NEW e \in Elements, Push(e)
  PROVE  /\ VecInv' /\ ~Running'
         /\ Contents(len', data') = Append(Contents(len, data), e)
  <1>1. /\ ~Running /\ len < Capacity /\ data' = [data EXCEPT ![len] = e] /\ len' = len + 1
        /\ UNCHANGED loop
    BY DEF Push
  <1>2. len \in Nat /\ Capacity \in Nat /\ data \in [0..(Capacity - 1) -> Elements]
    BY BigVecAssumption DEF VecInv, VecOK, BigVecAssumption
  <1>3. data' \in [0..(Capacity - 1) -> Elements] /\ len' \in Nat /\ len' <= Capacity
    BY <1>1, <1>2
  <1>4. VecInv' /\ ~Running'
    BY <1>1, <1>3, QuietStep
  <1> DEFINE s == Contents(len, data)
             t == Contents(len', data')
  <1>5. s \in Seq(Elements) /\ Len(s) = len /\ \A i \in 1..len : s[i] = data[i - 1]
    BY <1>1, <1>2, ContentsFacts
  <1>6. t \in [1..(len + 1) -> Elements] /\ \A i \in 1..(len + 1) : t[i] = data'[i - 1]
    BY <1>1, <1>2, <1>3, ContentsFacts
  <1> HIDE DEF s, t
  <1>7. \A i \in 1..len : t[i] = s[i]
    BY <1>1, <1>2, <1>5, <1>6
  <1>8. t[len + 1] = e
    <2>1. t[len + 1] = data'[len]
      BY <1>2, <1>6
    <2>2. data'[len] = e
      BY <1>1, <1>2
    <2> QED BY <2>1, <2>2
  <1>9. t = Append(s, e)
    <2> DEFINE u == Append(s, e)
    <2>1. u \in [1..(len + 1) -> Elements] /\ \A i \in 1..len : u[i] = s[i]
      BY <1>5, AppendIsFunction
    <2>2. u[len + 1] = e
      BY <1>5, AppendIsFunction
    <2> HIDE DEF u
    <2>3. \A i \in 1..(len + 1) : t[i] = u[i]
      BY <1>2, <1>7, <1>8, <2>1, <2>2
    <2>4. t = u
      <3> DEFINE D == 1..(len + 1)
      <3>1. t \in [D -> Elements] /\ u \in [D -> Elements] /\ \A i \in D : t[i] = u[i]
        BY <1>6, <2>1, <2>3
      <3> HIDE DEF D
      <3> QED BY <3>1, SameFunction
    <2> QED BY <2>4 DEF u
  <1> QED BY <1>4, <1>9 DEF s, t

\* find_mut rewrites the first match.
LEMMA ReplaceStep ==
  ASSUME VecInv, NEW e \in Elements, NEW f \in Elements, ReplaceFound(e, f)
  PROVE  /\ VecInv' /\ ~Running'
         /\ LET s == Contents(len, data)
            IN \E i \in DOMAIN s : /\ s[i] = e
                                   /\ \A j \in 1..(i - 1) : s[j] # e
                                   /\ Contents(len', data') = [s EXCEPT ![i] = f]
  <1>1. ~Running /\ len' = len /\ UNCHANGED loop
    BY DEF ReplaceFound
  <1>2. /\ len \in Nat /\ len <= Capacity /\ Capacity \in Nat
        /\ data \in [0..(Capacity - 1) -> Elements]
    BY BigVecAssumption DEF VecInv, VecOK, BigVecAssumption
  <1>3. PICK k \in 0..(len - 1) : /\ data[k] = e
                                  /\ \A j \in 0..(k - 1) : data[j] # e
                                  /\ data' = [data EXCEPT ![k] = f]
    BY DEF ReplaceFound
  <1>4. data' \in [0..(Capacity - 1) -> Elements]
    BY <1>2, <1>3
  <1>5. VecInv' /\ ~Running'
    BY <1>1, <1>2, <1>4, QuietStep
  <1> DEFINE s == Contents(len, data)
             t == Contents(len', data')
  <1>6. s \in [1..len -> Elements] /\ \A i \in 1..len : s[i] = data[i - 1]
    BY <1>2, ContentsFacts
  <1>7. t \in [1..len -> Elements] /\ \A i \in 1..len : t[i] = data'[i - 1]
    BY <1>1, <1>2, <1>4, ContentsFacts
  <1> HIDE DEF s, t
  <1>8. k + 1 \in 1..len /\ DOMAIN s = 1..len
    BY <1>2, <1>6
  <1>9. s[k + 1] = e
    BY <1>2, <1>3, <1>6, <1>8
  <1>10. \A j \in 1..((k + 1) - 1) : s[j] # e
    <2> SUFFICES ASSUME NEW j \in 1..((k + 1) - 1) PROVE s[j] # e
      OBVIOUS
    <2>1. j \in 1..len /\ j - 1 \in 0..(k - 1)
      BY <1>2
    <2> QED BY <1>3, <1>6, <2>1
  <1>11. t = [s EXCEPT ![k + 1] = f]
    <2>1. \A i \in 1..len : t[i] = IF i = k + 1 THEN f ELSE s[i]
      <3> SUFFICES ASSUME NEW i \in 1..len PROVE t[i] = IF i = k + 1 THEN f ELSE s[i]
        OBVIOUS
      <3>1. i - 1 \in 0..(Capacity - 1) /\ (i - 1 = k <=> i = k + 1)
        BY <1>2
      <3> QED BY <1>2, <1>3, <1>6, <1>7, <3>1
    <2> QED BY <1>6, <1>7, <2>1
  <1>12. \E i \in DOMAIN s : /\ s[i] = e
                             /\ \A j \in 1..(i - 1) : s[j] # e
                             /\ t = [s EXCEPT ![i] = f]
    BY <1>8, <1>9, <1>10, <1>11
  <1> QED BY <1>5, <1>12 DEF s, t

\* deserialize_mut_slice rewrites a slice.
LEMMA OverwriteStep ==
  ASSUME VecInv, NEW skip \in 0..Capacity, NEW n \in 0..Capacity, NEW f \in Elements,
         Overwrite(skip, n, f)
  PROVE  /\ VecInv' /\ ~Running'
         /\ LET s == Contents(len, data)
            IN /\ skip + n <= Len(s)
               /\ Contents(len', data') =
                    [i \in 1..Len(s) |-> IF i \in (skip + 1)..(skip + n) THEN f ELSE s[i]]
  <1>1. /\ ~Running /\ len' = len /\ UNCHANGED loop /\ skip + n <= len
        /\ data' = [i \in DOMAIN data |-> IF i \in skip..(skip + n - 1) THEN f ELSE data[i]]
    BY DEF Overwrite, SliceFits
  <1>2. /\ len \in Nat /\ len <= Capacity /\ Capacity \in Nat
        /\ data \in [0..(Capacity - 1) -> Elements]
    BY BigVecAssumption DEF VecInv, VecOK, BigVecAssumption
  <1>3. data' \in [0..(Capacity - 1) -> Elements]
    BY <1>1, <1>2
  <1>4. VecInv' /\ ~Running'
    BY <1>1, <1>2, <1>3, QuietStep
  <1> DEFINE s == Contents(len, data)
             t == Contents(len', data')
  <1>5. s \in [1..len -> Elements] /\ Len(s) = len /\ \A i \in 1..len : s[i] = data[i - 1]
    BY <1>2, ContentsFacts
  <1>6. t \in [1..len -> Elements] /\ \A i \in 1..len : t[i] = data'[i - 1]
    BY <1>1, <1>2, <1>3, ContentsFacts
  <1> HIDE DEF s, t
  <1>7. \A i \in 1..len : t[i] = IF i \in (skip + 1)..(skip + n) THEN f ELSE s[i]
    <2> SUFFICES ASSUME NEW i \in 1..len
                 PROVE  t[i] = IF i \in (skip + 1)..(skip + n) THEN f ELSE s[i]
      OBVIOUS
    <2>1. i - 1 \in DOMAIN data
      BY <1>2
    <2>2. i - 1 \in skip..(skip + n - 1) <=> i \in (skip + 1)..(skip + n)
      BY <1>2
    <2>3. data'[i - 1] = IF i - 1 \in skip..(skip + n - 1) THEN f ELSE data[i - 1]
      BY <1>1, <2>1
    <2> QED BY <1>5, <1>6, <2>2, <2>3
  <1>8. t = [i \in 1..len |-> IF i \in (skip + 1)..(skip + n) THEN f ELSE s[i]]
    BY <1>6, <1>7
  <1> QED BY <1>1, <1>4, <1>5, <1>8 DEF s, t
----------------------------------------------------------------------------
(* The theorems.                                                           *)

\* What the abstract vector is.
Vec == IF Running THEN before ELSE Contents(len, data)

\* Every step keeps the invariant and is a step of the abstract vector.
LEMMA VecStep ==
  ASSUME VecInv, [Next]_vars
  PROVE  VecInv' /\ [Abstract!Next]_Vec
  <1>1. CASE UNCHANGED vars
    <2>1. UNCHANGED <<len, data, dropped, pos, removals, dst, before>>
      BY <1>1 DEF vars, cells, loop
    <2>2. VecInv'
      BY <2>1 DEF VecInv, VecOK, RetainInvariant, Running
    <2>3. UNCHANGED Vec
      BY <2>1 DEF Vec, Contents, Running
    <2> QED BY <2>2, <2>3
  <1>2. ASSUME NEW e \in Elements, Push(e) PROVE VecInv' /\ [Abstract!Next]_Vec
    <2>1. VecInv' /\ ~Running' /\ Contents(len', data') = Append(Contents(len, data), e)
      BY <1>2, PushStep
    <2>2. ~Running /\ len < Capacity /\ len \in Nat
          /\ data \in [0..(Capacity - 1) -> Elements] /\ len <= Capacity
      BY <1>2 DEF Push, VecInv, VecOK
    <2>3. Vec = Contents(len, data) /\ Vec' = Contents(len', data')
      BY <2>1, <2>2 DEF Vec
    <2>4. Len(Vec) = len
      BY <2>2, <2>3, ContentsFacts
    <2>5. Abstract!Push(e)
      BY <2>1, <2>2, <2>3, <2>4 DEF Abstract!Push, Vec
    <2> QED BY <2>1, <2>5 DEF Abstract!Next
  <1>3. ASSUME NEW e \in Elements, NEW f \in Elements, ReplaceFound(e, f)
        PROVE  VecInv' /\ [Abstract!Next]_Vec
    <2> DEFINE s == Contents(len, data)
    <2>1. /\ VecInv' /\ ~Running'
          /\ \E i \in DOMAIN s : /\ s[i] = e
                                 /\ \A j \in 1..(i - 1) : s[j] # e
                                 /\ Contents(len', data') = [s EXCEPT ![i] = f]
      BY <1>3, ReplaceStep
    <2>2. ~Running
      BY <1>3 DEF ReplaceFound
    <2>3. Vec = s /\ Vec' = Contents(len', data')
      BY <2>1, <2>2 DEF Vec
    <2> HIDE DEF s
    <2>4. \E i \in DOMAIN Vec : /\ Vec[i] = e
                                /\ \A j \in 1..(i - 1) : Vec[j] # e
                                /\ Vec' = [Vec EXCEPT ![i] = f]
      BY <2>1, <2>3
    <2>5. Abstract!ReplaceFound(e, f)
      BY <2>4 DEF Abstract!ReplaceFound, Vec
    <2> QED BY <2>1, <2>5 DEF Abstract!Next
  <1>4. ASSUME NEW skip \in 0..Capacity, NEW n \in 0..Capacity, NEW f \in Elements,
               Overwrite(skip, n, f)
        PROVE  VecInv' /\ [Abstract!Next]_Vec
    <2> DEFINE s == Contents(len, data)
    <2>1. /\ VecInv' /\ ~Running' /\ skip + n <= Len(s)
          /\ Contents(len', data') =
               [i \in 1..Len(s) |-> IF i \in (skip + 1)..(skip + n) THEN f ELSE s[i]]
      BY <1>4, OverwriteStep
    <2>2. ~Running
      BY <1>4 DEF Overwrite
    <2>3. Vec = s /\ Vec' = Contents(len', data')
      BY <2>1, <2>2 DEF Vec
    <2> HIDE DEF s
    <2>4. /\ skip + n <= Len(Vec)
          /\ Vec' = [i \in 1..Len(Vec) |-> IF i \in (skip + 1)..(skip + n) THEN f ELSE Vec[i]]
      BY <2>1, <2>3
    <2>5. Abstract!Overwrite(skip, n, f)
      BY <2>4 DEF Abstract!Overwrite, Vec
    <2> QED BY <2>1, <2>5 DEF Abstract!Next
  <1>5. ASSUME NEW D \in SUBSET Elements, RetainBegin(D)
        PROVE  VecInv' /\ [Abstract!Next]_Vec
    <2>1. VecInv'
      BY <1>5, BeginStep
    <2>2. ~Running /\ Running' /\ before' = Contents(len, data)
      BY <1>5 DEF RetainBegin, Running
    <2>3. UNCHANGED Vec
      BY <2>2 DEF Vec
    <2> QED BY <2>1, <2>3
  <1>6. CASE RetainKeep \/ RetainDrop
    <2>1. VecInv'
      BY <1>6, KeepStep, DropStep
    <2>2. Running /\ pos \in Nat
      BY <1>6 DEF RetainKeep, RetainDrop, VecInv, VecOK
    <2>3. Running' /\ before' = before
      BY <1>6, <2>2 DEF RetainKeep, RetainDrop, Running
    <2>4. UNCHANGED Vec
      BY <2>2, <2>3 DEF Vec
    <2> QED BY <2>1, <2>4
  <1>7. CASE RetainEnd
    <2> DEFINE stay == {i \in DOMAIN before : before[i] \notin dropped}
    <2>1. /\ VecInv' /\ len' = Cardinality(stay)
          /\ \A i \in stay : /\ Cardinality(stay \cap 1..i) \in 1..len'
                             /\ data'[Cardinality(stay \cap 1..i) - 1] = before[i]
      BY <1>7, EndStep
    <2>2. Running /\ ~Running' /\ dropped \in SUBSET Elements
      BY <1>7 DEF RetainEnd, Running, VecInv, VecOK
    <2>3. Vec = before /\ Vec' = Contents(len', data')
      BY <2>2 DEF Vec
    <2>4. len' \in Nat /\ len' <= Capacity /\ data' \in [0..(Capacity - 1) -> Elements]
      BY <2>1 DEF VecInv, VecOK
    <2>5. Vec' \in [1..len' -> Elements] /\ \A i \in 1..len' : Vec'[i] = data'[i - 1]
      BY <2>3, <2>4, ContentsFacts
    <2>6. Vec' \in [1..Cardinality(stay) -> Elements]
      BY <2>1, <2>5
    <2>7. \A i \in stay : Vec'[Cardinality(stay \cap 1..i)] = before[i]
      <3> HIDE DEF stay
      <3> QED BY <2>1, <2>5
    <2>8. Abstract!Retain(dropped)
      <3> DEFINE kept == {i \in DOMAIN Vec : Vec[i] \notin dropped}
      <3>1. kept = stay /\ \A i \in stay : before[i] = Vec[i]
        BY <2>3
      <3> HIDE DEF stay, kept
      <3>2. /\ Vec' \in [1..Cardinality(kept) -> Elements]
            /\ \A i \in kept : Vec'[Cardinality(kept \cap 1..i)] = Vec[i]
        BY <2>6, <2>7, <3>1, Zenon
      <3>3. \A S : Abstract!Cardinality(S) = Cardinality(S)
        BY Zenon DEF Abstract!Cardinality, Cardinality, Abstract!IsFiniteSet, IsFiniteSet
      <3>4. /\ Vec' \in [1..Abstract!Cardinality(kept) -> Elements]
            /\ \A i \in kept : Vec'[Abstract!Cardinality(kept \cap 1..i)] = Vec[i]
        BY <3>2, <3>3, Zenon
      <3> QED BY <3>4, Zenon DEF Abstract!Retain, Vec, kept
    <2> QED BY <2>1, <2>2, <2>8 DEF Abstract!Next
  <1> QED BY <1>1, <1>2, <1>3, <1>4, <1>5, <1>6, <1>7 DEF Next

\* An empty vector.
LEMMA VecInit == Init => VecInv /\ Abstract!Init
  <1> SUFFICES ASSUME Init PROVE VecInv /\ Abstract!Init
    OBVIOUS
  <1>1. Capacity \in Nat
    BY BigVecAssumption DEF BigVecAssumption
  <1>2. len = 0 /\ dropped = {} /\ pos = -1 /\ removals = 0 /\ dst = 0
        /\ data \in [0..(Capacity - 1) -> Elements]
    BY DEF Init
  <1>3. VecInv
    BY <1>1, <1>2 DEF VecInv, VecOK, RetainInvariant, Running
  <1>4. ~Running /\ Contents(len, data) = <<>>
    BY <1>2 DEF Running, Contents
  <1> QED BY <1>3, <1>4 DEF Abstract!Init

\* In the middle of retain, whatever the predicate has dropped so far, no kept
\* element is lost, doubled or out of order.
THEOREM RetainKeepsItsPlace == Spec => []RetainInvariant
  <1>1. VecInv /\ [Next]_vars => VecInv'
    BY VecStep
  <1>2. VecInv => RetainInvariant
    BY DEF VecInv
  <1> QED BY <1>1, <1>2, VecInit, PTL DEF Spec

\* BigVec, with the memmoves of retain one by one, implements a sequence: for
\* any capacity, any elements and any predicate.
THEOREM VectorIsSequence == Spec => BehavesAsSequence
  <1>1. VecInv /\ [Next]_vars => VecInv' /\ [Abstract!Next]_Vec
    BY VecStep
  <1> QED BY <1>1, VecInit, PTL DEF Spec, BehavesAsSequence, Abstract!Spec, Vec
=============================================================================
