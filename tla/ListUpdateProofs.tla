-------------------------- MODULE ListUpdateProofs --------------------------
(***************************************************************************)
(* Proofs about ListUpdate, for any number of clients, entries, epochs and *)
(* slices in flight: whatever stale slices land on the list, an entry of   *)
(* this epoch holds the balance of its own stake account, a vote account   *)
(* has one entry, and the pool is up to date only with all of its entries. *)
(* None of this depends on what clients send: ListInv leaves inflight and  *)
(* client open. That an update is complete does: ClientInv follows the     *)
(* slices of every client from the list it has read to its last            *)
(* transaction.                                                            *)
(***************************************************************************)
EXTENDS ListUpdate, FiniteSetTheorems, NaturalsInduction, SequenceTheorems,
        WellFoundedInduction, TLAPS

\* Types of what is on the chain.
ChainTypes ==
  /\ epoch \in Nat /\ last_update_epoch \in Nat /\ rewards_active \in BOOLEAN
  /\ list \in Seq(Entry)
  /\ held \in [StakeAddresses -> Nat]

\* No entry is ahead of the clock, and none is of this epoch while rewards
\* are still being paid: a balance that was recorded does not change again.
NotAhead ==
  /\ last_update_epoch <= epoch
  /\ \A i \in DOMAIN list :
       /\ list[i].last_update <= epoch
       /\ rewards_active => list[i].last_update < epoch

ListInv ==
  ChainTypes /\ NotAhead /\ OneEntryPerVote /\ FreshMeansCounted /\ UpToDateMeansFresh
----------------------------------------------------------------------------
(* What retain leaves.                                                     *)

\* A set of positions has an n-th element.
LEMMA NthElement ==
  ASSUME NEW len \in Nat, NEW K \in SUBSET (1..len), NEW n \in 1..Cardinality(K)
  PROVE  \E i \in K : Cardinality(K \cap 1..i) = n
<1> DEFINE count(i) == Cardinality(K \cap 1..i)
           T == {i \in Nat : i <= len /\ n <= count(i)}
<1>1. IsFiniteSet(K) /\ Cardinality(K) \in Nat
  <2>1. IsFiniteSet(1..len)
    BY FS_Interval
  <2>2. IsFiniteSet(K)
    BY ONLY <2>1, K \in SUBSET (1..len), FS_Subset
  <2> QED
    BY <2>2, FS_CardinalityType
<1>2. ASSUME NEW i \in Nat PROVE IsFiniteSet(K \cap 1..i) /\ count(i) \in Nat
  BY <1>1, FS_Intersection, FS_CardinalityType
<1>3. len \in T
  <2>1. K \cap 1..len = K
    OBVIOUS
  <2> QED
    BY <2>1, <1>1
<1>4. PICK i \in T : \A j \in T : ~(j < i)
  <2>1. T \subseteq Nat /\ T # {}
    BY <1>3
  <2>2. PICK i \in T : \A j \in T : ~(<<j, i>> \in OpToRel(<, Nat))
    <3> HIDE DEF T
    <3> QED
      BY <2>1, NatLessThanWellFounded, WFMin
  <2> QED
    BY <2>1, <2>2 DEF OpToRel
<1>5. i \in Nat /\ i <= len /\ n <= count(i) /\ n \in Nat /\ n >= 1
  BY <1>1, <1>4
<1>6. i # 0
  <2>1. SUFFICES ASSUME i = 0 PROVE FALSE
    OBVIOUS
  <2>2. K \cap 1..0 = {}
    OBVIOUS
  <2>3. count(0) = 0
    BY <2>2, FS_EmptySet
  <2> QED
    BY <2>1, <2>3, <1>5
<1>7. i - 1 \in Nat /\ count(i - 1) < n
  <2>1. i - 1 \in Nat /\ i - 1 < i /\ i - 1 <= len
    BY <1>5, <1>6
  <2>2. i - 1 \notin T
    BY <1>4, <2>1
  <2>3. count(i - 1) \in Nat
    BY <1>2, <2>1
  <2> QED
    BY <2>1, <2>2, <2>3, <1>5
<1>8. CASE i \in K
  <2>1. K \cap 1..i = (K \cap 1..(i - 1)) \cup {i} /\ i \notin K \cap 1..(i - 1)
    BY <1>8, <1>5, <1>6
  <2>2. count(i) = count(i - 1) + 1
    BY <2>1, <1>2, <1>7, FS_AddElement
  <2>3. count(i) \in Nat /\ count(i - 1) \in Nat
    BY <1>2, <1>5, <1>7
  <2>4. count(i) = n
    BY ONLY <2>2, <2>3, <1>5, <1>7
  <2> QED
    BY <2>4, <1>8
<1>9. CASE i \notin K
  <2>1. K \cap 1..i = K \cap 1..(i - 1)
    BY <1>9, <1>5, <1>6
  <2>2. count(i) \in Nat /\ count(i - 1) \in Nat
    BY <1>2, <1>5, <1>7
  <2>3. count(i) = count(i - 1)
    BY <2>1
  <2> QED
    BY ONLY <2>2, <2>3, <1>5, <1>7
<1> QED
  BY <1>8, <1>9

\* Retained is a list of entries of the list, each at most once.
LEMMA RetainedFacts ==
  ASSUME list \in Seq(Entry)
  PROVE  /\ Retained \in Seq(Entry)
         /\ \A n \in DOMAIN Retained :
              Nth(Kept, n) \in DOMAIN list /\ Retained[n] = list[Nth(Kept, n)]
         /\ \A m, n \in DOMAIN Retained : Nth(Kept, m) = Nth(Kept, n) => m = n
<1>1. Len(list) \in Nat /\ DOMAIN list = 1..Len(list)
  OBVIOUS
<1>2. Kept \in SUBSET (1..Len(list))
  BY <1>1 DEF Kept
<1>3. Cardinality(Kept) \in Nat
  <2>1. IsFiniteSet(1..Len(list))
    BY <1>1, FS_Interval
  <2>2. IsFiniteSet(Kept)
    BY ONLY <2>1, <1>2, FS_Subset
  <2> QED
    BY <2>2, FS_CardinalityType
<1>4. ASSUME NEW n \in 1..Cardinality(Kept)
      PROVE  Nth(Kept, n) \in Kept /\ Cardinality(Kept \cap 1..Nth(Kept, n)) = n
  <2>1. \E i \in Kept : Cardinality(Kept \cap 1..i) = n
    BY <1>1, <1>2, <1>4, NthElement
  <2> QED
    BY <2>1 DEF Nth
<1>5. DOMAIN Retained = 1..Cardinality(Kept)
  BY DEF Retained
<1>6. \A n \in DOMAIN Retained :
        Nth(Kept, n) \in DOMAIN list /\ Retained[n] = list[Nth(Kept, n)]
  BY <1>1, <1>2, <1>4, <1>5 DEF Retained
<1>7. Retained \in Seq(Entry)
  <2>1. \A n \in 1..Cardinality(Kept) : list[Nth(Kept, n)] \in Entry
    BY <1>5, <1>6
  <2> QED
    BY <1>3, <2>1 DEF Retained
<1>8. ASSUME NEW m \in DOMAIN Retained, NEW n \in DOMAIN Retained, Nth(Kept, m) = Nth(Kept, n)
      PROVE  m = n
  <2>1. Cardinality(Kept \cap 1..Nth(Kept, m)) = m /\ Cardinality(Kept \cap 1..Nth(Kept, n)) = n
    BY <1>4, <1>5
  <2> QED
    BY <2>1, <1>8, Zenon
<1> QED
  BY <1>6, <1>7, <1>8

\* The n-th element of a set of positions, and the position it is at.
LEMMA NthFacts ==
  ASSUME NEW len \in Nat, NEW K \in SUBSET (1..len)
  PROVE  /\ Cardinality(K) \in Nat
         /\ \A n \in 1..Cardinality(K) : Nth(K, n) \in K
         /\ \A k \in K : \E n \in 1..Cardinality(K) : Nth(K, n) = k
<1>1. IsFiniteSet(K) /\ Cardinality(K) \in Nat
  <2>1. IsFiniteSet(1..len)
    BY FS_Interval
  <2>2. IsFiniteSet(K)
    BY ONLY <2>1, K \in SUBSET (1..len), FS_Subset
  <2> QED
    BY <2>2, FS_CardinalityType
<1>2. ASSUME NEW n \in 1..Cardinality(K)
      PROVE  Nth(K, n) \in K /\ Cardinality(K \cap 1..Nth(K, n)) = n
  <2>1. \E i \in K : Cardinality(K \cap 1..i) = n
    BY <1>2, NthElement
  <2> QED
    BY <2>1, Zenon DEF Nth
<1>3. ASSUME NEW i \in Nat
      PROVE  /\ IsFiniteSet(K \cap 1..i) /\ Cardinality(K \cap 1..i) \in Nat
             /\ Cardinality(K \cap 1..i) <= Cardinality(K)
  <2>1. K \cap 1..i \in SUBSET K
    OBVIOUS
  <2>2. IsFiniteSet(K \cap 1..i) /\ Cardinality(K \cap 1..i) <= Cardinality(K)
    BY ONLY <1>1, <2>1, FS_Subset
  <2> QED
    BY <2>2, FS_CardinalityType
<1>4. ASSUME NEW i \in K, NEW j \in K, i < j,
             Cardinality(K \cap 1..i) = Cardinality(K \cap 1..j)
      PROVE  FALSE
  <2> DEFINE A == K \cap 1..i
             B == K \cap 1..j
  <2>1. A \in SUBSET B /\ j \in B /\ j \notin A
    BY <1>4
  <2>2. IsFiniteSet(B) /\ Cardinality(B) = Cardinality(A)
    BY <1>3, <1>4
  <2> HIDE DEF A, B
  <2>3. A = B
    BY ONLY <2>1, <2>2, FS_Subset
  <2> QED
    BY ONLY <2>1, <2>3
<1>5. ASSUME NEW k \in K PROVE \E n \in 1..Cardinality(K) : Nth(K, n) = k
  <2> DEFINE n == Cardinality(K \cap 1..k)
  <2>1. n \in Nat /\ n <= Cardinality(K)
    BY <1>3
  <2>2. n # 0
    <3>1. k \in K \cap 1..k
      BY <1>5
    <3>2. IsFiniteSet(K \cap 1..k)
      BY <1>3
    <3> QED
      BY <3>1, <3>2, FS_EmptySet
  <2>3. n \in 1..Cardinality(K)
    BY <1>1, <2>1, <2>2
  <2>4. Nth(K, n) \in K /\ Cardinality(K \cap 1..Nth(K, n)) = Cardinality(K \cap 1..k)
    BY <1>2, <2>3
  <2>5. ~(Nth(K, n) < k) /\ ~(k < Nth(K, n))
    BY <1>4, <2>4
  <2> HIDE DEF n
  <2>6. Nth(K, n) \in Nat /\ k \in Nat
    <3>1. K \subseteq Nat
      OBVIOUS
    <3> QED
      BY ONLY <3>1, <2>4, k \in K
  <2>7. Nth(K, n) = k
    BY ONLY <2>5, <2>6
  <2> QED
    BY <2>3, <2>7
<1> QED
  BY <1>1, <1>2, <1>5

\* retain leaves the list as it is, or shorter.
LEMMA RetainedShorter ==
  ASSUME list \in Seq(Entry)
  PROVE  Retained = list \/ Len(Retained) < Len(list)
<1> DEFINE len == Len(list)
<1>1. len \in Nat /\ DOMAIN list = 1..len /\ Kept \in SUBSET (1..len)
  BY DEF Kept
<1> HIDE DEF len
<1>2. IsFiniteSet(1..len) /\ Cardinality(1..len) = len
  <2>1. len \in Int /\ 1 \in Int /\ (1 > len => len = 0) /\ len - 1 + 1 = len
    BY <1>1
  <2> QED
    BY <2>1, FS_Interval
<1>3. Cardinality(Kept) \in Nat /\ Cardinality(Kept) <= len
      /\ (len = Cardinality(Kept) => 1..len = Kept)
  <2>1. IsFiniteSet(Kept) /\ Cardinality(Kept) <= Cardinality(1..len)
        /\ (Cardinality(1..len) = Cardinality(Kept) => 1..len = Kept)
    BY ONLY <1>1, <1>2, FS_Subset
  <2> QED
    BY <1>2, <2>1, FS_CardinalityType
<1>4. Len(Retained) = Cardinality(Kept)
  BY <1>3 DEF Retained
<1>5. CASE Kept = 1..len
  <2>1. ASSUME NEW n \in 1..len PROVE Nth(Kept, n) = n
    <3>1. \E i \in Kept : Cardinality(Kept \cap 1..i) = n
      BY <1>1, <1>2, <1>5, NthElement
    <3>2. Nth(Kept, n) \in Kept /\ Cardinality(Kept \cap 1..Nth(Kept, n)) = n
      BY <3>1, Zenon DEF Nth
    <3>3. Nth(Kept, n) \in 1..len
      BY <3>2, <1>5
    <3>4. Kept \cap 1..Nth(Kept, n) = 1..Nth(Kept, n)
      BY <3>3, <1>5, <1>1
    <3>5. Cardinality(1..Nth(Kept, n)) = Nth(Kept, n)
      BY <3>3, <1>1, FS_Interval
    <3> QED
      BY <3>2, <3>4, <3>5
  <2>2. Cardinality(Kept) = len
    BY <1>2, <1>5
  <2>3. Retained = [n \in 1..len |-> list[n]]
    BY <2>1, <2>2 DEF Retained
  <2> QED
    BY <1>1, <2>3 DEF len
<1>6. CASE Kept # 1..len
  BY <1>1, <1>3, <1>4, <1>6 DEF len
<1> QED
  BY <1>5, <1>6
----------------------------------------------------------------------------
(* The slices that clients cut.                                            *)

\* The i-th entry is in the chunk that starts behind start.
InChunk(i, start) == i \in (start + 1)..(start + ChunkSize)

\* A product keeps the order of a factor, and reflects it.
LEMMA Times ==
  ASSUME NEW a \in Nat, NEW b \in Nat, NEW d \in Nat \ {0}
  PROVE  /\ a * d \in Nat /\ (a <= b => a * d <= b * d)
         /\ (a * d < b * d => a < b) /\ (a + 1) * d = a * d + d
OBVIOUS

\* Integer division.
LEMMA Quotient ==
  ASSUME NEW a \in Nat, NEW d \in Nat \ {0}
  PROVE  a \div d \in Nat /\ (a \div d) * d <= a /\ a < (a \div d) * d + d
OBVIOUS

\* slice::chunks: each entry is in a chunk, and no chunk is empty.
LEMMA ChunksCover ==
  ASSUME NEW entries \in Seq(Entry)
  PROVE  /\ Chunks(entries) \in Nat
         /\ \A i \in DOMAIN entries :
              \E k \in 1..Chunks(entries) : InChunk(i, (k - 1) * ChunkSize)
         /\ \A k \in 1..Chunks(entries) :
              (k - 1) * ChunkSize \in Nat /\ (k - 1) * ChunkSize < Len(entries)
              /\ k * ChunkSize = (k - 1) * ChunkSize + ChunkSize
<1> DEFINE d == ChunkSize
           len == Len(entries)
           m == Chunks(entries)
<1>0. d \in Nat \ {0} /\ len \in Nat /\ DOMAIN entries = 1..len
  BY ListAssumption
<1>1. m \in Nat /\ m * d <= len + d - 1 /\ len + d - 1 < m * d + d
  <2>1. len + d - 1 \in Nat
    BY <1>0
  <2> QED
    BY <1>0, <2>1, Quotient DEF Chunks
<1>2. ASSUME NEW i \in DOMAIN entries
      PROVE  \E k \in 1..m : InChunk(i, (k - 1) * d)
  <2> DEFINE q == (i - 1) \div d
  <2>1. i - 1 \in Nat
    BY <1>0
  <2>2. q \in Nat /\ q * d <= i - 1 /\ i - 1 < q * d + d
    BY <1>0, <2>1, Quotient
  <2> HIDE DEF q, d, m, len
  <2>3. q * d \in Nat /\ m * d \in Nat
    BY <1>0, <1>1, <2>2, Times
  <2>4. q * d < m * d
    BY <1>0, <1>1, <2>2, <2>3
  <2>5. q < m
    BY ONLY <1>0, <1>1, <2>2, <2>4, Times
  <2>6. q + 1 \in 1..m /\ (q + 1) - 1 = q
    BY <1>1, <2>2, <2>5
  <2>7. i \in (q * d + 1)..(q * d + d)
    BY <1>0, <2>1, <2>2, <2>3
  <2> QED
    BY <2>6, <2>7 DEF InChunk, d
<1>3. ASSUME NEW k \in 1..m
      PROVE  (k - 1) * d \in Nat /\ (k - 1) * d < len /\ k * d = (k - 1) * d + d
  <2> HIDE DEF d, m, len
  <2>1. k \in Nat /\ k - 1 \in Nat /\ k <= m /\ (k - 1) + 1 = k
    BY <1>1
  <2>2. k * d = (k - 1) * d + d /\ (k - 1) * d \in Nat
    BY <1>0, <2>1, Times
  <2>3. k * d <= m * d /\ m * d \in Nat
    BY ONLY <1>0, <1>1, <2>1, Times
  <2> QED
    BY <1>0, <1>1, <2>2, <2>3
<1> QED
  BY <1>1, <1>2, <1>3

\* A chunk has the entries that are in it.
LEMMA ChunkFacts ==
  ASSUME NEW entries \in Seq(Entry), NEW k \in 1..Chunks(entries)
  PROVE  /\ Chunk(entries, k) \in Seq(Entry)
         /\ \A i \in DOMAIN entries : InChunk(i, (k - 1) * ChunkSize) =>
              /\ i - (k - 1) * ChunkSize \in DOMAIN Chunk(entries, k)
              /\ Chunk(entries, k)[i - (k - 1) * ChunkSize] = entries[i]
<1> DEFINE d == ChunkSize
           len == Len(entries)
           from == (k - 1) * ChunkSize
           to == IF k * ChunkSize < Len(entries) THEN k * ChunkSize ELSE Len(entries)
<1>0. d \in Nat \ {0} /\ len \in Nat /\ DOMAIN entries = 1..len
  BY ListAssumption
<1>1. from \in Nat /\ from < len /\ k * ChunkSize = from + d
  BY ChunksCover
<1>2. to \in Nat /\ to <= len /\ from < to /\ (to = from + d \/ to = len)
  <2>1. to = IF from + d < len THEN from + d ELSE len
    BY <1>1
  <2> HIDE DEF from, to, d, len
  <2> QED
    BY <1>0, <1>1, <2>1
<1>3. Chunk(entries, k) = SubSeq(entries, from + 1, to)
  BY DEF Chunk
<1>4. \A j \in (from + 1)..to : entries[j] \in Entry
  <2> HIDE DEF from, to, d, len
  <2>1. \A j \in (from + 1)..to : j \in 1..len
    BY <1>0, <1>1, <1>2
  <2> QED
    BY <2>1, <1>0
<1> HIDE DEF from, to, d, len
<1>5. from + 1 \in Int /\ to \in Int /\ from + 1 <= to /\ to - (from + 1) + 1 = to - from
  BY <1>1, <1>2
<1>6. /\ Chunk(entries, k) \in Seq(Entry)
      /\ Len(Chunk(entries, k)) = to - from
      /\ \A j \in 1..(to - from) : Chunk(entries, k)[j] = entries[(from + 1) + j - 1]
  BY <1>3, <1>4, <1>5, SubSeqProperties
<1>7. ASSUME NEW i \in DOMAIN entries, InChunk(i, from)
      PROVE  i - from \in 1..(to - from) /\ (from + 1) + (i - from) - 1 = i
  <2>1. i \in Nat /\ i <= len /\ from + 1 <= i /\ i <= from + d
    BY <1>0, <1>1, <1>7 DEF InChunk, d
  <2> QED
    BY <1>0, <1>1, <1>2, <2>1
<1>8. DOMAIN Chunk(entries, k) = 1..(to - from)
  BY <1>6
<1> QED
  BY <1>6, <1>7, <1>8 DEF from

\* update_validator_list_balance_chunk has the addresses of its chunk.
LEMMA SliceFacts ==
  ASSUME NEW entries \in Seq(Entry), NEW k \in 1..Chunks(entries), NEW library
  PROVE  LET slice == SliceFor(library, entries, k)
         IN /\ slice \in Slice /\ slice.start = (k - 1) * ChunkSize
            /\ \A i \in DOMAIN entries : InChunk(i, slice.start) =>
                 /\ i \in (slice.start + 1)..(slice.start + Len(slice.pairs))
                 /\ slice.pairs[i - slice.start] = AddressPair(library, entries[i])
<1> DEFINE slice == SliceFor(library, entries, k)
           chunk == Chunk(entries, k)
           from == (k - 1) * ChunkSize
           pairs == [j \in DOMAIN chunk |-> AddressPair(library, chunk[j])]
<1>1. chunk \in Seq(Entry) /\ from \in Nat
  BY ChunkFacts, ChunksCover
<1>2. slice = [start |-> from, pairs |-> pairs]
  BY DEF SliceFor
<1>3. \A i \in DOMAIN entries : InChunk(i, from) =>
        i - from \in DOMAIN chunk /\ chunk[i - from] = entries[i]
  BY ChunkFacts
<1> HIDE DEF chunk, from, slice
<1>4. DOMAIN chunk = 1..Len(chunk) /\ Len(chunk) \in Nat
  BY <1>1
<1>5. \A j \in DOMAIN chunk : AddressPair(library, chunk[j]) \in Pair
  <2> SUFFICES ASSUME NEW j \in DOMAIN chunk PROVE AddressPair(library, chunk[j]) \in Pair
    OBVIOUS
  <2>1. chunk[j] \in Entry
    BY <1>1
  <2> QED
    BY <2>1, ListAssumption DEF AddressPair, Entry, Pair, StakeAddress, TransientAddress,
                                StakeAddresses, TransientAddresses
<1>6. pairs \in Seq(Pair) /\ Len(pairs) = Len(chunk)
  BY <1>4, <1>5
<1>7. slice \in Slice
  BY <1>1, <1>2, <1>6 DEF Slice
<1>8. ASSUME NEW i \in DOMAIN entries, InChunk(i, from)
      PROVE  /\ i \in (from + 1)..(from + Len(pairs))
             /\ pairs[i - from] = AddressPair(library, entries[i])
  <2>1. i - from \in 1..Len(chunk) /\ chunk[i - from] = entries[i] /\ i \in Nat
    BY <1>3, <1>4, <1>8
  <2> QED
    BY <2>1, <1>1, <1>4, <1>6
<1> HIDE DEF pairs
<1> QED
  BY <1>2, <1>7, <1>8 DEF slice, from

\* update_stake_pool and update_stale_stake_pool: the instructions have the
\* addresses of their chunks, and every entry is in the chunk of one or is of
\* the epoch that was read.
LEMMA InstructionFacts ==
  ASSUME NEW entries \in Seq(Entry), NEW mode, NEW now \in Nat
  PROVE  LET todo == UpdateInstructions(mode, entries, now)
         IN /\ todo \in Seq(Slice)
            /\ \A n \in DOMAIN todo, i \in DOMAIN entries : InChunk(i, todo[n].start) =>
                 /\ i \in (todo[n].start + 1)..(todo[n].start + Len(todo[n].pairs))
                 /\ todo[n].pairs[i - todo[n].start] = AddressPair(mode.library, entries[i])
            /\ \A i \in DOMAIN entries :
                 \/ entries[i].last_update >= now
                 \/ \E n \in DOMAIN todo : InChunk(i, todo[n].start)
<1> DEFINE W == WantedChunks(mode, entries, now)
           todo == UpdateInstructions(mode, entries, now)
<1>1. Chunks(entries) \in Nat /\ W \in SUBSET (1..Chunks(entries))
  BY ChunksCover DEF WantedChunks
<1>2. /\ Cardinality(W) \in Nat
      /\ \A n \in 1..Cardinality(W) : Nth(W, n) \in W
      /\ \A k \in W : \E n \in 1..Cardinality(W) : Nth(W, n) = k
  <2> HIDE DEF W
  <2> QED
    BY <1>1, NthFacts
<1>3. todo = [n \in 1..Cardinality(W) |-> SliceFor(mode.library, entries, Nth(W, n))]
  BY DEF UpdateInstructions
<1>w. \A k \in 1..Chunks(entries) : k \in W \/ ~StaleChunk(Chunk(entries, k), now)
  BY DEF WantedChunks
<1> HIDE DEF W, todo
<1>4. ASSUME NEW n \in DOMAIN todo
      PROVE  /\ Nth(W, n) \in 1..Chunks(entries)
             /\ todo[n] = SliceFor(mode.library, entries, Nth(W, n))
  BY <1>1, <1>2, <1>3, <1>4
<1>5. todo \in Seq(Slice)
  <2>1. \A n \in 1..Cardinality(W) : SliceFor(mode.library, entries, Nth(W, n)) \in Slice
    BY <1>1, <1>2, SliceFacts
  <2> QED
    BY <1>2, <1>3, <2>1
<1>6. ASSUME NEW n \in DOMAIN todo, NEW i \in DOMAIN entries, InChunk(i, todo[n].start)
      PROVE  /\ i \in (todo[n].start + 1)..(todo[n].start + Len(todo[n].pairs))
             /\ todo[n].pairs[i - todo[n].start] = AddressPair(mode.library, entries[i])
  BY <1>4, <1>6, SliceFacts
<1>7. ASSUME NEW i \in DOMAIN entries
      PROVE  \/ entries[i].last_update >= now
             \/ \E n \in DOMAIN todo : InChunk(i, todo[n].start)
  <2>1. PICK k \in 1..Chunks(entries) : InChunk(i, (k - 1) * ChunkSize)
    BY ChunksCover
  <2>2. CASE k \in W
    <3>1. PICK n \in 1..Cardinality(W) : Nth(W, n) = k
      BY <1>2, <2>2
    <3>2. n \in DOMAIN todo /\ todo[n] = SliceFor(mode.library, entries, k)
      BY <1>3, <3>1
    <3>3. todo[n].start = (k - 1) * ChunkSize
      BY <3>2, SliceFacts
    <3> QED
      BY <2>1, <3>2, <3>3
  <2>3. CASE ~StaleChunk(Chunk(entries, k), now)
    <3>1. \E j \in DOMAIN Chunk(entries, k) : Chunk(entries, k)[j] = entries[i]
      BY <2>1, ChunkFacts
    <3>2. ~(entries[i].last_update < now)
      BY <2>3, <3>1 DEF StaleChunk
    <3>3. entries[i] \in Entry
      OBVIOUS
    <3>4. entries[i].last_update \in Nat
      BY ONLY <3>3 DEF Entry
    <3> QED
      BY <3>2, <3>4
  <2> QED
    BY <1>w, <2>2, <2>3
<1> QED
  BY <1>5, <1>6, <1>7 DEF todo
----------------------------------------------------------------------------
(* The steps.                                                              *)

\* The fields of an entry.
LEMMA EntryAt ==
  ASSUME ChainTypes, NEW i \in DOMAIN list
  PROVE  /\ list[i] \in Entry
         /\ list[i].vote \in Votes /\ list[i].suffix \in Suffixes
         /\ list[i].lamports \in Nat /\ list[i].last_update \in Nat
         /\ StakeAddress(list[i]) \in StakeAddresses
<1>1. list[i] \in Entry
  BY DEF ChainTypes
<1> QED
  BY <1>1 DEF Entry, StakeAddress, StakeAddresses

\* The empty list.
LEMMA InitListInv == Init => ListInv
<1> SUFFICES ASSUME Init PROVE ListInv
  OBVIOUS
<1>1. list = <<>> /\ DOMAIN list = {}
  BY DEF Init
<1>2. ChainTypes
  <2>1. list \in Seq(Entry)
    BY <1>1
  <2>2. held \in [StakeAddresses -> Nat]
    BY DEF Init
  <2> QED
    BY <2>1, <2>2 DEF Init, ChainTypes
<1>3. last_update_epoch <= epoch
  BY DEF Init
<1> QED
  BY <1>1, <1>2, <1>3
     DEF ListInv, NotAhead, OneEntryPerVote, FreshMeansCounted, UpToDateMeansFresh

\* A slice that lands, whoever cut it and whenever: it passes over the
\* entries that moved, and an entry it does change gets this epoch and the
\* balance of its own account.
LEMMA UpdatedStep ==
  ASSUME ListInv, NEW t, Accepted(t), list' = Updated(t),
         UNCHANGED <<epoch, rewards_active, last_update_epoch, held>>
  PROVE  ListInv'
<1>t. ChainTypes /\ ~rewards_active
  BY DEF ListInv, Accepted
<1>1. DOMAIN list' = DOMAIN list
  BY DEF Updated
<1>2. ASSUME NEW i \in DOMAIN list
      PROVE  /\ list'[i] \in Entry
             /\ list'[i].vote = list[i].vote
             /\ StakeAddress(list'[i]) = StakeAddress(list[i])
             /\ \/ list'[i] = list[i]
                \/ /\ list'[i].last_update = epoch
                   /\ list'[i].lamports = held[StakeAddress(list[i])]
  <2> DEFINE pair == t.pairs[i - t.start]
  <2>1. \/ list'[i] = list[i]
        \/ /\ Matches(list[i], pair)
           /\ list'[i] = [list[i] EXCEPT !.lamports = held[pair.stake], !.last_update = epoch]
    BY DEF Updated
  <2> HIDE DEF pair
  <2>2. CASE list'[i] = list[i]
    BY <2>2, <1>t, EntryAt
  <2>3. CASE /\ Matches(list[i], pair)
             /\ list'[i] = [list[i] EXCEPT !.lamports = held[pair.stake],
                                           !.last_update = epoch]
    <3>1. pair.stake = StakeAddress(list[i])
      BY <2>3 DEF Matches
    <3>2. list[i] \in Entry /\ StakeAddress(list[i]) \in StakeAddresses
      BY <1>t, EntryAt
    <3>3. held[pair.stake] \in Nat /\ epoch \in Nat
      BY <1>t, <3>1, <3>2 DEF ChainTypes
    <3> QED
      BY <2>3, <3>1, <3>2, <3>3 DEF Entry, StakeAddress
  <2> QED
    BY <2>1, <2>2, <2>3
<1>3. list' \in Seq(Entry)
  <2>1. DOMAIN list = 1..Len(list) /\ Len(list) \in Nat
    BY <1>t DEF ChainTypes
  <2>2. list' = [i \in 1..Len(list) |-> list'[i]]
    BY <2>1 DEF Updated
  <2> QED
    BY <1>2, <2>1, <2>2
<1>4. ChainTypes'
  BY <1>t, <1>3 DEF ChainTypes
<1>5. NotAhead'
  BY <1>t, <1>1, <1>2 DEF ListInv, NotAhead, ChainTypes
<1>6. OneEntryPerVote'
  BY <1>1, <1>2 DEF ListInv, OneEntryPerVote
<1>7. FreshMeansCounted'
  BY <1>1, <1>2 DEF ListInv, FreshMeansCounted
<1>8. UpToDateMeansFresh'
  BY <1>1, <1>2 DEF ListInv, UpToDateMeansFresh, UpToDate
<1> QED
  BY <1>4, <1>5, <1>6, <1>7, <1>8 DEF ListInv

\* Entries dropped by retain, with the pool's epoch left alone or moved to
\* the current one when all entries are of it.
LEMMA RetainedStep ==
  ASSUME ListInv, list' = Retained,
         UNCHANGED <<epoch, rewards_active, held>>,
         \/ last_update_epoch' = last_update_epoch
         \/ AllFresh /\ last_update_epoch' = epoch
  PROVE  ListInv'
<1>t. ChainTypes
  BY DEF ListInv
<1>1. /\ list' \in Seq(Entry)
      /\ \A n \in DOMAIN list' : Nth(Kept, n) \in DOMAIN list /\ list'[n] = list[Nth(Kept, n)]
      /\ \A m, n \in DOMAIN list' : Nth(Kept, m) = Nth(Kept, n) => m = n
  BY <1>t, RetainedFacts DEF ChainTypes
<1>2. ChainTypes'
  BY <1>t, <1>1 DEF ChainTypes
<1>3. NotAhead'
  BY <1>t, <1>1 DEF ListInv, NotAhead, ChainTypes
<1>4. OneEntryPerVote'
  BY <1>1 DEF ListInv, OneEntryPerVote
<1>5. FreshMeansCounted'
  BY <1>1 DEF ListInv, FreshMeansCounted
<1>6. UpToDateMeansFresh'
  <2>1. ASSUME NEW i \in DOMAIN list, AllFresh PROVE list[i].last_update = epoch
    BY <1>t, <2>1, EntryAt DEF ListInv, NotAhead, AllFresh, ChainTypes
  <2> QED
    BY <1>1, <2>1 DEF ListInv, UpToDateMeansFresh, UpToDate
<1> QED
  BY <1>2, <1>3, <1>4, <1>5, <1>6 DEF ListInv

\* The pool is marked when all of its entries are of this epoch.
LEMMA PoolBalanceStep == ListInv /\ UpdateStakePoolBalance => ListInv'
<1> SUFFICES ASSUME ListInv, UpdateStakePoolBalance PROVE ListInv'
  OBVIOUS
<1>1. /\ AllFresh /\ last_update_epoch' = epoch
      /\ UNCHANGED <<epoch, rewards_active, list, held>>
  BY DEF UpdateStakePoolBalance
<1>2. ChainTypes' /\ NotAhead'
  BY <1>1 DEF ListInv, ChainTypes, NotAhead
<1>3. OneEntryPerVote' /\ FreshMeansCounted'
  BY <1>1 DEF ListInv, OneEntryPerVote, FreshMeansCounted
<1>4. ASSUME NEW i \in DOMAIN list PROVE list[i].last_update = epoch
  BY <1>1, EntryAt DEF ListInv, NotAhead, AllFresh, ChainTypes
<1>5. UpToDateMeansFresh'
  BY <1>1, <1>4 DEF UpToDateMeansFresh
<1> QED
  BY <1>2, <1>3, <1>5 DEF ListInv

\* The new entry is the only one of its vote account, so that no other entry
\* counts the stake account it opens.
LEMMA AddStep ==
  ASSUME ListInv, NEW vote \in Votes, NEW suffix \in Suffixes,
         AddValidatorToPool(vote, suffix)
  PROVE  ListInv'
<1> DEFINE new == [vote |-> vote, suffix |-> suffix, seed |-> FirstSeed,
                   lamports |-> 1, last_update |-> epoch, status |-> "Active"]
           last == Len(list) + 1
<1>t. ChainTypes
  BY DEF ListInv
<1>1. /\ UpToDate /\ ~rewards_active
      /\ \A i \in DOMAIN list : list[i].vote # vote
      /\ list' = Append(list, new)
      /\ held' = [held EXCEPT ![<<vote, suffix>>] = 1]
      /\ UNCHANGED <<epoch, rewards_active, last_update_epoch>>
  BY DEF AddValidatorToPool, Find
<1>2. new \in Entry /\ new.vote = vote /\ new.lamports = 1 /\ new.last_update = epoch
      /\ StakeAddress(new) = <<vote, suffix>> /\ <<vote, suffix>> \in StakeAddresses
  BY <1>t, ListAssumption DEF ChainTypes, Entry, StakeAddress, StakeAddresses
<1> HIDE DEF new
<1>3. /\ list' \in Seq(Entry)
      /\ DOMAIN list' = DOMAIN list \cup {last} /\ last \notin DOMAIN list
      /\ list'[last] = new
      /\ \A i \in DOMAIN list : list'[i] = list[i]
  BY <1>t, <1>1, <1>2 DEF ChainTypes
<1> HIDE DEF last
<1>4. /\ held' \in [StakeAddresses -> Nat]
      /\ held'[<<vote, suffix>>] = 1
      /\ \A a \in StakeAddresses : a # <<vote, suffix>> => held'[a] = held[a]
  BY <1>t, <1>1, <1>2 DEF ChainTypes
<1>5. \A i \in DOMAIN list :
        /\ list[i].last_update = epoch
        /\ held'[StakeAddress(list[i])] = held[StakeAddress(list[i])]
  <2> SUFFICES ASSUME NEW i \in DOMAIN list
               PROVE  /\ list[i].last_update = epoch
                      /\ held'[StakeAddress(list[i])] = held[StakeAddress(list[i])]
    OBVIOUS
  <2>1. list[i].last_update = epoch
    BY <1>1 DEF ListInv, UpToDateMeansFresh
  <2>2. StakeAddress(list[i]) \in StakeAddresses
    BY <1>t, EntryAt
  <2>3. StakeAddress(list[i]) # <<vote, suffix>>
    BY <1>1 DEF StakeAddress
  <2> QED
    BY <2>1, <2>2, <2>3, <1>4
<1>6. ChainTypes'
  BY <1>t, <1>1, <1>3, <1>4 DEF ChainTypes
<1>7. NotAhead'
  BY <1>t, <1>1, <1>2, <1>3 DEF ListInv, NotAhead, ChainTypes
<1>8. OneEntryPerVote'
  BY <1>1, <1>2, <1>3 DEF ListInv, OneEntryPerVote
<1>9. FreshMeansCounted'
  <2> SUFFICES ASSUME NEW i \in DOMAIN list'
               PROVE  list'[i].lamports = held'[StakeAddress(list'[i])]
    BY DEF FreshMeansCounted, StakeAddress
  <2>1. CASE i = last
    BY <2>1, <1>2, <1>3, <1>4
  <2>2. CASE i \in DOMAIN list
    <3>1. list'[i] = list[i] /\ list[i].last_update = epoch
          /\ held'[StakeAddress(list[i])] = held[StakeAddress(list[i])]
      BY <2>2, <1>3, <1>5
    <3>2. list[i].lamports = held[StakeAddress(list[i])]
      BY <2>2, <3>1 DEF ListInv, FreshMeansCounted
    <3> QED
      BY <3>1, <3>2
  <2> QED
    BY <1>3, <2>1, <2>2
<1>10. UpToDateMeansFresh'
  BY <1>1, <1>2, <1>3, <1>5 DEF UpToDateMeansFresh
<1> QED
  BY <1>6, <1>7, <1>8, <1>9, <1>10 DEF ListInv

\* Another seed changes the address of the transient stake only.
LEMMA MoveStep ==
  ASSUME ListInv, NEW i \in DOMAIN list, NEW seed \in Seeds, MoveStake(i, seed)
  PROVE  ListInv'
<1>t. ChainTypes
  BY DEF ListInv
<1>1. /\ list' = [list EXCEPT ![i].seed = seed]
      /\ UNCHANGED <<epoch, rewards_active, last_update_epoch, held>>
  BY DEF MoveStake
<1>2. list[i] \in Entry /\ [list[i] EXCEPT !.seed = seed] \in Entry
  BY <1>t, EntryAt DEF Entry
<1>3. list' \in Seq(Entry) /\ DOMAIN list' = DOMAIN list
  BY <1>t, <1>1, <1>2 DEF ChainTypes
<1>4. \A j \in DOMAIN list :
        /\ list'[j].vote = list[j].vote /\ list'[j].last_update = list[j].last_update
        /\ list'[j].lamports = list[j].lamports
        /\ StakeAddress(list'[j]) = StakeAddress(list[j])
  BY <1>t, <1>1, <1>2 DEF ChainTypes, Entry, StakeAddress
<1>5. ChainTypes'
  BY <1>t, <1>1, <1>3 DEF ChainTypes
<1> QED
  BY <1>1, <1>3, <1>4, <1>5
     DEF ListInv, NotAhead, OneEntryPerVote, FreshMeansCounted, UpToDateMeansFresh, UpToDate

\* The account that is emptied is counted by no other entry.
LEMMA WithdrawStep ==
  ASSUME ListInv, NEW i \in DOMAIN list, WithdrawWholeValidator(i)
  PROVE  ListInv'
<1> DEFINE at == StakeAddress(list[i])
<1>t. ChainTypes
  BY DEF ListInv
<1>1. /\ list' = [list EXCEPT ![i].lamports = 0, ![i].status = "ReadyForRemoval"]
      /\ held' = [held EXCEPT ![at] = 0]
      /\ UNCHANGED <<epoch, rewards_active, last_update_epoch>>
  BY DEF WithdrawWholeValidator
<1>2. list[i] \in Entry /\ at \in StakeAddresses
  BY <1>t, EntryAt
<1>3. list' = [list EXCEPT ![i] = [list[i] EXCEPT !.lamports = 0, !.status = "ReadyForRemoval"]]
      /\ [list[i] EXCEPT !.lamports = 0, !.status = "ReadyForRemoval"] \in Entry
  BY <1>t, <1>1, <1>2 DEF ChainTypes, Entry
<1>4. list' \in Seq(Entry) /\ DOMAIN list' = DOMAIN list
  BY <1>t, <1>3 DEF ChainTypes
<1>5. \A j \in DOMAIN list :
        /\ list'[j].vote = list[j].vote /\ list'[j].last_update = list[j].last_update
        /\ list'[j].lamports = IF j = i THEN 0 ELSE list[j].lamports
        /\ StakeAddress(list'[j]) = StakeAddress(list[j])
  BY <1>t, <1>2, <1>3 DEF ChainTypes, Entry, StakeAddress
<1>6. held' \in [StakeAddresses -> Nat] /\ held'[at] = 0
  BY <1>t, <1>1, <1>2 DEF ChainTypes
<1>7. \A j \in DOMAIN list : j # i =>
        held'[StakeAddress(list[j])] = held[StakeAddress(list[j])]
  <2> SUFFICES ASSUME NEW j \in DOMAIN list, j # i
               PROVE  held'[StakeAddress(list[j])] = held[StakeAddress(list[j])]
    OBVIOUS
  <2>1. list[j].vote # list[i].vote
    BY DEF ListInv, OneEntryPerVote
  <2>2. StakeAddress(list[j]) # at
    BY <2>1 DEF StakeAddress
  <2>3. StakeAddress(list[j]) \in StakeAddresses
    BY <1>t, EntryAt
  <2> QED
    BY <1>t, <1>1, <2>2, <2>3 DEF ChainTypes
<1> HIDE DEF at
<1>8. ChainTypes'
  BY <1>t, <1>1, <1>4, <1>6 DEF ChainTypes
<1>9. NotAhead' /\ OneEntryPerVote' /\ UpToDateMeansFresh'
  BY <1>1, <1>4, <1>5 DEF ListInv, NotAhead, OneEntryPerVote, UpToDateMeansFresh, UpToDate
<1>10. FreshMeansCounted'
  BY <1>1, <1>4, <1>5, <1>6, <1>7 DEF ListInv, FreshMeansCounted, at
<1> QED
  BY <1>8, <1>9, <1>10 DEF ListInv

\* Rewards change balances when no entry is of this epoch.
LEMMA RewardsStep ==
  ASSUME ListInv, NEW W, DistributeRewards(W)
  PROVE  ListInv'
<1>t. ChainTypes
  BY DEF ListInv
<1>1. /\ rewards_active /\ rewards_active' = FALSE
      /\ held' = [a \in StakeAddresses |-> IF a \in W THEN held[a] + 1 ELSE held[a]]
      /\ UNCHANGED <<epoch, last_update_epoch, list>>
  BY DEF DistributeRewards
<1>2. \A i \in DOMAIN list : list[i].last_update < epoch
  BY <1>1 DEF ListInv, NotAhead
<1>3. ChainTypes'
  <2>1. held' \in [StakeAddresses -> Nat]
    BY <1>t, <1>1 DEF ChainTypes
  <2> QED
    BY <1>t, <1>1, <2>1 DEF ChainTypes
<1>4. \A i \in DOMAIN list : list[i].last_update # epoch
  BY <1>t, <1>2, EntryAt DEF ChainTypes
<1> QED
  BY <1>1, <1>3, <1>4
     DEF ListInv, NotAhead, OneEntryPerVote, FreshMeansCounted, UpToDateMeansFresh, UpToDate

\* In a new epoch no entry is of it.
LEMMA EpochStep == ListInv /\ NewEpoch => ListInv'
<1> SUFFICES ASSUME ListInv, NewEpoch PROVE ListInv'
  OBVIOUS
<1>t. ChainTypes
  BY DEF ListInv
<1>1. epoch' = epoch + 1 /\ rewards_active' = TRUE
      /\ UNCHANGED <<last_update_epoch, list, held>>
  BY DEF NewEpoch
<1>2. \A i \in DOMAIN list : list[i].last_update \in Nat /\ list[i].last_update < epoch'
  BY <1>t, <1>1, EntryAt DEF ListInv, NotAhead, ChainTypes
<1>3. ChainTypes' /\ last_update_epoch < epoch'
  BY <1>t, <1>1 DEF ListInv, NotAhead, ChainTypes
<1>4. NotAhead'
  BY <1>1, <1>2, <1>3 DEF NotAhead, ChainTypes
<1>5. FreshMeansCounted'
  BY <1>1, <1>2, <1>3 DEF FreshMeansCounted, ChainTypes
<1>6. UpToDateMeansFresh'
  BY <1>1, <1>3 DEF UpToDateMeansFresh, UpToDate, ChainTypes
<1> QED
  BY <1>1, <1>3, <1>4, <1>5, <1>6 DEF ListInv, OneEntryPerVote

\* Steps of the clients alone.
LEMMA QuietStep == ListInv /\ UNCHANGED chainVars => ListInv'
  BY DEF ListInv, chainVars, ChainTypes, NotAhead, OneEntryPerVote, FreshMeansCounted,
         UpToDateMeansFresh, UpToDate

\* The clients touch the list only by slices that are accepted and by the
\* final transaction.
LEMMA ClientKeeps ==
  ASSUME ListInv, NEW c \in Clients, ClientStep(c)
  PROVE  ListInv'
<1>1. CASE UNCHANGED chainVars
  BY <1>1, QuietStep
<1>2. CASE LastConfirmed(c)
  <2>1. Accepted(Head(client[c].todo)) /\ list' = Updated(Head(client[c].todo))
        /\ UNCHANGED <<epoch, rewards_active, last_update_epoch, held>>
    BY <1>2 DEF LastConfirmed
  <2> QED
    BY <2>1, UpdatedStep
<1>3. CASE FinalConfirmed(c)
  <2>1. AllFresh /\ last_update_epoch' = epoch /\ list' = Retained
        /\ UNCHANGED <<epoch, rewards_active, held>>
    BY <1>3 DEF FinalConfirmed
  <2> QED
    BY <2>1, RetainedStep
<1>4. CASE \/ \E mode \in ModeChoices : ReadPool(c, mode)
           \/ ReadEpoch(c) \/ ReadList(c) \/ SendNoWait(c)
           \/ LastFailed(c) \/ FinalFailed(c)
  <2>1. UNCHANGED chainVars
    BY <1>4 DEF ReadPool, ReadEpoch, ReadList, SendNoWait, LastFailed, FinalFailed, Abort
  <2> QED
    BY <2>1, QuietStep
<1> QED
  BY <1>2, <1>3, <1>4 DEF ClientStep

\* Every step keeps the invariant.
LEMMA NextListInv == ListInv /\ [Next]_vars => ListInv'
<1> SUFFICES ASSUME ListInv, [Next]_vars PROVE ListInv'
  OBVIOUS
<1>1. CASE \E vote \in Votes, suffix \in Suffixes : AddValidatorToPool(vote, suffix)
  BY <1>1, AddStep
<1>2. ASSUME NEW i \in DOMAIN list, OthersUpdate(i) PROVE ListInv'
  <2> DEFINE t == [start |-> i - 1, pairs |-> <<AddressPair("rust", list[i])>>]
  <2>1. Accepted(t) /\ list' = Updated(t)
        /\ UNCHANGED <<epoch, rewards_active, last_update_epoch, held>>
    BY <1>2 DEF OthersUpdate
  <2> HIDE DEF t
  <2> QED
    BY <2>1, UpdatedStep
<1>3. ASSUME NEW i \in DOMAIN list, WithdrawWholeValidator(i) PROVE ListInv'
  BY <1>3, WithdrawStep
<1>4. ASSUME NEW i \in DOMAIN list, NEW seed \in Seeds, MoveStake(i, seed) PROVE ListInv'
  BY <1>4, MoveStep
<1>5. CASE UpdateStakePoolBalance
  BY <1>5, PoolBalanceStep
<1>6. CASE Cleanup
  <2>1. list' = Retained /\ UNCHANGED <<epoch, rewards_active, last_update_epoch, held>>
    BY <1>6 DEF Cleanup
  <2> QED
    BY <2>1, RetainedStep
<1>7. CASE \E c \in Clients : ClientStep(c)
  BY <1>7, ClientKeeps
<1>8. ASSUME NEW t \in inflight, Land(t) PROVE ListInv'
  <2>1. Accepted(t) /\ list' = Updated(t)
        /\ UNCHANGED <<epoch, rewards_active, last_update_epoch, held>>
    BY <1>8 DEF Land
  <2> QED
    BY <2>1, UpdatedStep
<1>9. ASSUME NEW t \in inflight, Drop(t) PROVE ListInv'
  BY <1>9, QuietStep DEF Drop
<1>10. CASE NewEpoch
  BY <1>10, EpochStep
<1>11. CASE \E W \in SUBSET Staked : DistributeRewards(W)
  BY <1>11, RewardsStep
<1>12. CASE UNCHANGED vars
  BY <1>12, QuietStep DEF vars
<1> QED
  BY <1>1, <1>2, <1>3, <1>4, <1>5, <1>6, <1>7, <1>8, <1>9, <1>10, <1>11, <1>12 DEF Next

\* The inductive invariant holds throughout.
THEOREM ListInvariant == Spec => []ListInv
BY InitListInv, NextListInv, PTL DEF Spec

\* However stale the slice of UpdateValidatorListBalance that lands, an
\* entry marked with this epoch holds the balance of its own stake account.
THEOREM CountedWhenFresh == Spec => []FreshMeansCounted
BY ListInvariant, PTL DEF ListInv

\* AddValidatorToPool and CleanupRemovedValidatorEntries keep one entry for
\* each vote account, through any sequence of removals and returns.
THEOREM VotesUnique == Spec => []OneEntryPerVote
BY ListInvariant, PTL DEF ListInv

\* UpdateStakePoolBalance marks the pool only when every entry is of this
\* epoch, and nothing makes an entry stale before the epoch ends.
THEOREM UpToDateIsFresh == Spec => []UpToDateMeansFresh
BY ListInvariant, PTL DEF ListInv
----------------------------------------------------------------------------
(* A complete update. What is known of a client r depends on the list L,   *)
(* the epoch e and the transactions in flight F.                           *)

ClientStates == [pc : {"idle", "epoch", "list", "send", "final"},
                 seen : Nat, now : Nat, addresses : Seq(Pair),
                 todo : Seq(Slice), missed : SUBSET Nat, mode : Modes]

\* The slice has the addresses of every entry in its chunk.
Answers(slice, library, L) ==
  \A i \in DOMAIN L : InChunk(i, slice.start) =>
    /\ i \in (slice.start + 1)..(slice.start + Len(slice.pairs))
    /\ slice.pairs[i - slice.start] = AddressPair(library, L[i])

\* An entry is of this epoch, beyond the library, or in the chunk of a slice
\* that was lost, is in flight or is still to be sent. Any slice in flight
\* with the right addresses will do, whichever client sent it.
Served(r, i, L, e, F) ==
  \/ L[i].last_update = e
  \/ r.mode.library = "js" /\ L[i].suffix # NoSuffix
  \/ \E start \in r.missed : InChunk(i, start)
  \/ \E slice \in F : InChunk(i, slice.start) /\ Answers(slice, r.mode.library, L)
  \/ \E n \in DOMAIN r.todo : InChunk(i, r.todo[n].start)

\* The list is the one that was read.
Follows(r, L, e, F) ==
  /\ r.addresses = Addresses(L)
  /\ \A n \in DOMAIN r.todo : Answers(r.todo[n], r.mode.library, L)
  /\ \A i \in DOMAIN L : Served(r, i, L, e, F)

AllOf(L, e) == \A i \in DOMAIN L : L[i].last_update = e

\* Within an epoch a list that is not up to date only gets shorter, since
\* entries are added and changed when the pool is up to date: it is the one
\* that was read, or has fewer entries, or was all updated in between.
Standing(r, L, e, F) ==
  AllOf(L, e) \/ Len(L) < Len(r.addresses) \/ Follows(r, L, e, F)

Sound(r, L, e, F) ==
  /\ r.now <= e
  /\ r.pc = "send" => r.todo # <<>>
  /\ r.pc = "final" => r.todo = <<>>
  /\ r.pc \in {"send", "final"} /\ r.now = e => Standing(r, L, e, F)

ClientInv ==
  /\ inflight \subseteq Slice
  /\ client \in [Clients -> ClientStates]
  /\ \A c \in Clients : Sound(client[c], list, epoch, inflight)

UpdateInv == ListInv /\ ClientInv

\* A slice has done its work on the list, which is now M.
Landed(slice, library, L, M, e) ==
  Answers(slice, library, L) =>
    \A i \in DOMAIN L : InChunk(i, slice.start) =>
      M[i].last_update = e \/ (library = "js" /\ L[i].suffix # NoSuffix)

\* Same entries at the same addresses, none of them less fresh.
Shape(L, M, e) ==
  /\ DOMAIN M = DOMAIN L /\ Len(M) = Len(L)
  /\ \A i \in DOMAIN L :
       /\ M[i].suffix = L[i].suffix
       /\ \A library \in {"rust", "js"} : AddressPair(library, M[i]) = AddressPair(library, L[i])
       /\ L[i].last_update = e => M[i].last_update = e

\* A client stands where it stood when the list keeps its shape and every
\* slice that was to be sent, in flight or lost is accounted for.
LEMMA StandingKept ==
  ASSUME NEW L, NEW M, NEW e, NEW F, NEW G, NEW r, NEW q,
         Shape(L, M, e), Standing(r, L, e, F),
         q.mode = r.mode, q.addresses = r.addresses, r.mode.library \in {"rust", "js"},
         \A n \in DOMAIN q.todo : \E m \in DOMAIN r.todo : q.todo[n] = r.todo[m],
         \A n \in DOMAIN r.todo :
           \/ \E m \in DOMAIN q.todo : q.todo[m] = r.todo[n]
           \/ r.todo[n] \in G
           \/ Landed(r.todo[n], r.mode.library, L, M, e),
         \A slice \in F : \/ slice \in G
                          \/ slice.start \in q.missed
                          \/ Landed(slice, r.mode.library, L, M, e),
         \A start \in r.missed :
           \/ start \in q.missed
           \/ \E n \in DOMAIN r.todo : r.todo[n] \in G /\ r.todo[n].start = start
  PROVE  Standing(q, M, e, G)
<1> DEFINE lib == r.mode.library
<1>1. CASE AllOf(L, e)
  BY <1>1 DEF AllOf, Shape, Standing
<1>2. CASE Len(L) < Len(r.addresses)
  BY <1>2 DEF Shape, Standing
<1>3. CASE Follows(r, L, e, F)
  <2>1. q.addresses = Addresses(M)
    BY <1>3 DEF Follows, Addresses, Shape
  <2>2. ASSUME NEW slice, Answers(slice, lib, L) PROVE Answers(slice, q.mode.library, M)
    BY <2>2 DEF Answers, Shape
  <2>3. \A n \in DOMAIN r.todo : Answers(r.todo[n], lib, L)
    BY <1>3 DEF Follows
  <2>4. \A n \in DOMAIN q.todo : Answers(q.todo[n], q.mode.library, M)
    BY <2>2, <2>3
  <2>5. ASSUME NEW i \in DOMAIN L PROVE Served(q, i, M, e, G)
    <3>0. Served(r, i, L, e, F)
      BY <1>3 DEF Follows
    <3>1. ASSUME NEW slice, slice \in G, InChunk(i, slice.start), Answers(slice, lib, L)
          PROVE  Served(q, i, M, e, G)
      BY <3>1, <2>2 DEF Served
    <3>2. ASSUME NEW slice, Landed(slice, lib, L, M, e), InChunk(i, slice.start),
                 Answers(slice, lib, L)
          PROVE  Served(q, i, M, e, G)
      <4>1. M[i].last_update = e \/ (lib = "js" /\ M[i].suffix # NoSuffix)
        BY <3>2 DEF Landed, Shape
      <4> QED
        BY <4>1 DEF Served
    <3>3. CASE L[i].last_update = e \/ (lib = "js" /\ L[i].suffix # NoSuffix)
      BY <3>3 DEF Served, Shape
    <3>4. ASSUME NEW start \in r.missed, InChunk(i, start) PROVE Served(q, i, M, e, G)
      <4>1. CASE start \in q.missed
        BY <4>1, <3>4 DEF Served
      <4>2. ASSUME NEW n \in DOMAIN r.todo, r.todo[n] \in G, r.todo[n].start = start
            PROVE  Served(q, i, M, e, G)
        BY <4>2, <3>4, <3>1, <2>3
      <4> QED
        BY <4>1, <4>2
    <3>5. ASSUME NEW slice \in F, InChunk(i, slice.start), Answers(slice, lib, L)
          PROVE  Served(q, i, M, e, G)
      <4>1. CASE slice.start \in q.missed
        BY <4>1, <3>5 DEF Served
      <4> QED
        BY <4>1, <3>5, <3>1, <3>2
    <3>6. ASSUME NEW n \in DOMAIN r.todo, InChunk(i, r.todo[n].start)
          PROVE  Served(q, i, M, e, G)
      <4>1. Answers(r.todo[n], lib, L)
        BY <2>3
      <4>2. ASSUME NEW m \in DOMAIN q.todo, q.todo[m] = r.todo[n]
            PROVE  Served(q, i, M, e, G)
        BY <4>2, <3>6 DEF Served
      <4> QED
        BY <4>1, <4>2, <3>6, <3>1, <3>2
    <3> QED
      BY <3>0, <3>3, <3>4, <3>5, <3>6 DEF Served
  <2>6. \A i \in DOMAIN M : Served(q, i, M, e, G)
    BY <2>5 DEF Shape
  <2> QED
    BY <2>1, <2>4, <2>6 DEF Follows, Standing
<1> QED
  BY <1>1, <1>2, <1>3 DEF Standing

\* The shape does not change when the list does not.
LEMMA SameShape ==
  ASSUME NEW L, NEW e
  PROVE  Shape(L, L, e)
BY DEF Shape

\* A client that does nothing, while slices land, are sent or are lost.
LEMMA SoundKept ==
  ASSUME NEW L, NEW M, NEW e, NEW F, NEW G, NEW r \in ClientStates,
         Shape(L, M, e), Sound(r, L, e, F),
         \A slice \in F : slice \in G \/ Landed(slice, r.mode.library, L, M, e)
  PROVE  Sound(r, M, e, G)
<1>1. r.mode.library \in {"rust", "js"}
  BY DEF ClientStates, Modes
<1>2. Standing(r, L, e, F) => Standing(r, M, e, G)
  BY <1>1, StandingKept
<1> QED
  BY <1>2 DEF Sound

\* The list is all of this epoch.
LEMMA SoundWhenFresh ==
  ASSUME NEW L, NEW M, NEW e, NEW F, NEW G, NEW r, Sound(r, L, e, F), AllOf(M, e)
  PROVE  Sound(r, M, e, G)
BY DEF Sound, Standing

\* A client that is not running.
LEMMA IdleSound ==
  ASSUME NEW L, NEW e \in Nat, NEW F, NEW library \in {"rust", "js"}
  PROVE  Idle(library) \in ClientStates /\ Sound(Idle(library), L, e, F)
<1>1. Idle(library) \in ClientStates
  BY DEF Idle, ClientStates, Modes
<1>2. Idle(library).pc = "idle" /\ Idle(library).now = 0
  BY DEF Idle
<1> QED
  BY <1>1, <1>2 DEF Sound

\* A client steps and the others stand where they stood.
LEMMA OneClient ==
  ASSUME ClientInv, inflight' \subseteq Slice, NEW c \in Clients, NEW q \in ClientStates,
         client' = [client EXCEPT ![c] = q],
         Sound(q, list', epoch', inflight'),
         \A d \in Clients : Sound(client[d], list', epoch', inflight')
  PROVE  ClientInv'
<1>1. client' \in [Clients -> ClientStates]
  BY DEF ClientInv
<1>2. \A d \in Clients : client'[d] = IF d = c THEN q ELSE client[d]
  BY DEF ClientInv
<1>3. \A d \in Clients : Sound(client'[d], list', epoch', inflight')
  BY <1>2
<1> QED
  BY <1>1, <1>3 DEF ClientInv

\* No client steps.
LEMMA NoClient ==
  ASSUME ClientInv, inflight' \subseteq Slice, UNCHANGED client,
         \A d \in Clients : Sound(client[d], list', epoch', inflight')
  PROVE  ClientInv'
BY DEF ClientInv

\* What a slice that lands does to the list.
LEMMA LandingFacts ==
  ASSUME ListInv, NEW t \in Slice, list' = Updated(t), NEW library \in {"rust", "js"}
  PROVE  Shape(list, list', epoch) /\ Landed(t, library, list, list', epoch)
<1>t. ChainTypes
  BY DEF ListInv
<1>1. DOMAIN list' = DOMAIN list /\ Len(list') = Len(list)
  <2>1. DOMAIN list = 1..Len(list) /\ Len(list) \in Nat
    BY <1>t DEF ChainTypes
  <2>2. DOMAIN list' = 1..Len(list)
    BY <2>1 DEF Updated
  <2> QED
    BY <2>1, <2>2
<1>2. ASSUME NEW i \in DOMAIN list
      PROVE  /\ list'[i].suffix = list[i].suffix /\ list'[i].vote = list[i].vote
             /\ list'[i].seed = list[i].seed
             /\ list'[i].last_update = list[i].last_update \/ list'[i].last_update = epoch
  <2> DEFINE pair == t.pairs[i - t.start]
  <2>1. \/ list'[i] = list[i]
        \/ list'[i] = [list[i] EXCEPT !.lamports = held[pair.stake], !.last_update = epoch]
    BY DEF Updated
  <2>2. list[i] \in Entry
    BY <1>t, EntryAt
  <2> HIDE DEF pair
  <2> QED
    BY <2>1, <2>2 DEF Entry
<1>3. Shape(list, list', epoch)
  <2>1. \A i \in DOMAIN list, lib \in {"rust", "js"} :
          AddressPair(lib, list'[i]) = AddressPair(lib, list[i])
    BY <1>2 DEF AddressPair, StakeAddress, TransientAddress
  <2> QED
    BY <1>1, <1>2, <2>1 DEF Shape
<1>4. ASSUME Answers(t, library, list), NEW i \in DOMAIN list, InChunk(i, t.start)
      PROVE  list'[i].last_update = epoch \/ (library = "js" /\ list[i].suffix # NoSuffix)
  <2> DEFINE pair == t.pairs[i - t.start]
  <2>1. i \in (t.start + 1)..(t.start + Len(t.pairs)) /\ pair = AddressPair(library, list[i])
    BY <1>4 DEF Answers
  <2>2. SUFFICES ASSUME ~(library = "js" /\ list[i].suffix # NoSuffix)
                 PROVE  list'[i].last_update = epoch
    OBVIOUS
  <2>3. pair.stake = StakeAddress(list[i]) /\ pair.transient = TransientAddress(list[i])
    BY <2>1, <2>2 DEF AddressPair, StakeAddress
  <2>4. Matches(list[i], pair)
    BY <2>3 DEF Matches
  <2>5. list'[i] = [list[i] EXCEPT !.lamports = held[pair.stake], !.last_update = epoch]
    BY <2>1, <2>4 DEF Updated
  <2>6. list[i] \in Entry
    BY <1>t, EntryAt
  <2> HIDE DEF pair
  <2> QED
    BY <2>5, <2>6 DEF Entry
<1> QED
  BY <1>3, <1>4 DEF Landed

\* Clients start idle.
LEMMA InitUpdateInv == Init => UpdateInv
<1> SUFFICES ASSUME Init PROVE UpdateInv
  OBVIOUS
<1>1. ListInv
  BY InitListInv
<1>2. ASSUME NEW c \in Clients
      PROVE  client[c] \in ClientStates /\ Sound(client[c], list, epoch, inflight)
  <2>1. PICK mode \in ModeChoices : client[c] = Idle(mode.library)
    BY DEF Init
  <2>2. mode.library \in {"rust", "js"} /\ epoch \in Nat
    BY ListAssumption DEF Modes, Init
  <2> QED
    BY <2>1, <2>2, IdleSound
<1>3. client \in [Clients -> ClientStates] /\ inflight \subseteq Slice
  <2>1. client = [c \in Clients |-> client[c]]
    BY DEF Init
  <2> QED
    BY <1>2, <2>1 DEF Init
<1> QED
  BY <1>1, <1>2, <1>3 DEF UpdateInv, ClientInv

\* The types of a client and of the chain.
LEMMA ClientAt ==
  ASSUME UpdateInv, NEW c \in Clients
  PROVE  /\ client[c] \in ClientStates
         /\ client[c].mode \in Modes /\ client[c].mode.library \in {"rust", "js"}
         /\ client[c].todo \in Seq(Slice)
         /\ client[c].now \in Nat /\ client[c].missed \subseteq Nat
         /\ Sound(client[c], list, epoch, inflight)
         /\ epoch \in Nat /\ list \in Seq(Entry) /\ inflight \subseteq Slice
<1>1. client[c] \in ClientStates
  BY DEF UpdateInv, ClientInv
<1>2. /\ client[c].mode \in Modes /\ client[c].todo \in Seq(Slice)
      /\ client[c].now \in Nat /\ client[c].missed \subseteq Nat
  BY <1>1 DEF ClientStates
<1>3. client[c].mode.library \in {"rust", "js"}
  BY <1>2 DEF Modes
<1> QED
  BY <1>1, <1>2, <1>3 DEF UpdateInv, ClientInv, ListInv, ChainTypes

\* Steps after which the pool is up to date: entries are added and changed by
\* such steps only.
LEMMA FreshSteps ==
  ASSUME UpdateInv, ListInv', UpToDate', UNCHANGED <<epoch, inflight>>,
         \/ UNCHANGED client
         \/ \E c \in Clients : client' = [client EXCEPT ![c] = Idle(client[c].mode.library)]
  PROVE  ClientInv'
<1>1. AllOf(list', epoch')
  BY DEF ListInv, UpToDateMeansFresh, AllOf
<1>2. \A d \in Clients : Sound(client[d], list', epoch', inflight')
  BY <1>1, SoundWhenFresh DEF UpdateInv, ClientInv
<1>3. ClientInv /\ inflight' \subseteq Slice
  BY DEF UpdateInv, ClientInv
<1>4. CASE UNCHANGED client
  BY <1>2, <1>3, <1>4, NoClient
<1>5. ASSUME NEW c \in Clients, client' = [client EXCEPT ![c] = Idle(client[c].mode.library)]
      PROVE  ClientInv'
  <2> DEFINE q == Idle(client[c].mode.library)
  <2>1. client[c].mode.library \in {"rust", "js"} /\ epoch' \in Nat
    BY ClientAt
  <2>2. q \in ClientStates /\ Sound(q, list', epoch', inflight')
    BY <2>1, IdleSound
  <2> HIDE DEF q
  <2>3. client' = [client EXCEPT ![c] = q]
    BY <1>5 DEF q
  <2> QED
    BY <1>2, <1>3, <2>2, <2>3, OneClient
<1> QED
  BY <1>4, <1>5

\* CleanupRemovedValidatorEntries on a pool that is not up to date.
LEMMA CleanupClients ==
  ASSUME UpdateInv, Cleanup
  PROVE  ClientInv'
<1>1. list' = Retained /\ UNCHANGED <<epoch, inflight, client>>
  BY DEF Cleanup
<1>2. list \in Seq(Entry)
  BY DEF UpdateInv, ListInv, ChainTypes
<1>3. list' = list \/ Len(list') < Len(list)
  BY <1>1, <1>2, RetainedShorter
<1>4. /\ list' \in Seq(Entry)
      /\ \A n \in DOMAIN list' : \E i \in DOMAIN list : list'[n] = list[i]
  BY <1>1, <1>2, RetainedFacts
<1>5. ASSUME NEW d \in Clients PROVE Sound(client[d], list', epoch', inflight')
  <2> DEFINE r == client[d]
  <2>1. Sound(r, list, epoch, inflight)
    BY DEF UpdateInv, ClientInv
  <2> HIDE DEF r
  <2>2. CASE list' = list
    BY <2>1, <2>2, <1>1 DEF r
  <2>3. CASE Len(list') < Len(list)
    <3>1. AllOf(list, epoch) => AllOf(list', epoch)
      BY <1>4 DEF AllOf
    <3>2. Len(list) \in Nat /\ Len(list') \in Nat
      BY <1>2, <1>4
    <3>3. Follows(r, list, epoch, inflight) => Len(r.addresses) = Len(list)
      <4>1. Len(Addresses(list)) = Len(list)
        BY <1>2 DEF Addresses
      <4> QED
        BY <4>1 DEF Follows
    <3>4. Len(list) < Len(r.addresses) => Len(list') < Len(r.addresses)
      <4>1. r.addresses \in Seq(Pair)
        BY DEF UpdateInv, ClientInv, ClientStates, r
      <4>2. Len(r.addresses) \in Nat
        BY <4>1
      <4> QED
        BY <2>3, <3>2, <4>2
    <3>5. Standing(r, list, epoch, inflight) => Standing(r, list', epoch, inflight')
      BY <2>3, <3>1, <3>3, <3>4 DEF Standing
    <3>6. Sound(r, list', epoch', inflight')
      BY <2>1, <3>5, <1>1 DEF Sound
    <3> QED
      BY <3>6 DEF r
  <2> QED
    BY <1>3, <2>2, <2>3
<1> QED
  BY <1>1, <1>5, NoClient DEF UpdateInv, ClientInv

\* A slice lands that no client waits for: it was in flight, or somebody
\* else's.
LEMMA SliceLands ==
  ASSUME UpdateInv, NEW t \in Slice, list' = Updated(t), UNCHANGED <<epoch, client>>,
         inflight' = inflight \/ inflight' = inflight \ {t}
  PROVE  ClientInv'
<1>1. ASSUME NEW d \in Clients PROVE Sound(client[d], list', epoch', inflight')
  <2>1. client[d] \in ClientStates /\ client[d].mode.library \in {"rust", "js"}
        /\ Sound(client[d], list, epoch, inflight)
    BY ClientAt
  <2>2. Shape(list, list', epoch) /\ Landed(t, client[d].mode.library, list, list', epoch)
    BY <2>1, LandingFacts DEF UpdateInv
  <2>3. \A slice \in inflight :
          slice \in inflight' \/ Landed(slice, client[d].mode.library, list, list', epoch)
    BY <2>2
  <2>4. Sound(client[d], list', epoch, inflight')
    BY ONLY <2>1, <2>2, <2>3, SoundKept
  <2> QED
    BY <2>4
<1>2. ClientInv /\ inflight' \subseteq Slice
  BY DEF UpdateInv, ClientInv
<1> QED
  BY <1>1, <1>2, NoClient

\* The slice that a client waits for lands.
LEMMA LastLands ==
  ASSUME UpdateInv, NEW c \in Clients, LastConfirmed(c)
  PROVE  ClientInv'
<1> DEFINE r == client[c]
           t == Head(r.todo)
           q == [r EXCEPT !.pc = "final", !.todo = <<>>]
<1>1. /\ r.pc = "send" /\ Len(r.todo) = 1 /\ list' = Updated(t)
      /\ client' = [client EXCEPT ![c].pc = "final", ![c].todo = <<>>]
      /\ UNCHANGED <<epoch, inflight>>
  BY DEF LastConfirmed
<1>2. /\ r \in ClientStates /\ r.mode.library \in {"rust", "js"} /\ r.todo \in Seq(Slice)
      /\ Sound(r, list, epoch, inflight) /\ r.now \in Nat /\ epoch \in Nat
  BY ClientAt
<1>3. t \in Slice /\ \A n \in DOMAIN r.todo : r.todo[n] = t
  BY <1>1, <1>2
<1>4. client' = [client EXCEPT ![c] = q]
  BY <1>1 DEF UpdateInv, ClientInv
<1>5. /\ q \in ClientStates /\ q.mode = r.mode /\ q.addresses = r.addresses
      /\ q.now = r.now /\ q.missed = r.missed /\ q.todo = <<>> /\ q.pc = "final"
  <2> HIDE DEF r
  <2>1. <<>> \in Seq(Slice)
    OBVIOUS
  <2> QED
    BY ONLY <1>2, <2>1 DEF ClientStates, q
<1> HIDE DEF q, t, r
<1>6. Shape(list, list', epoch) /\ Landed(t, r.mode.library, list, list', epoch)
  BY <1>1, <1>2, <1>3, LandingFacts DEF UpdateInv
<1>7. Standing(r, list, epoch, inflight) => Standing(q, list', epoch, inflight)
  <2>1. DOMAIN q.todo = {}
    BY <1>5
  <2> QED
    BY ONLY <1>2, <1>3, <1>5, <1>6, <2>1, StandingKept
<1>8. Sound(q, list', epoch', inflight')
  BY <1>1, <1>2, <1>5, <1>7 DEF Sound
<1>9. ASSUME NEW d \in Clients PROVE Sound(client[d], list', epoch', inflight')
  <2>1. client[d] \in ClientStates /\ client[d].mode.library \in {"rust", "js"}
        /\ Sound(client[d], list, epoch, inflight)
    BY ClientAt
  <2>2. Sound(client[d], list', epoch, inflight)
    BY ONLY <2>1, <1>6, SoundKept
  <2> QED
    BY <2>2, <1>1
<1> QED
  BY <1>1, <1>4, <1>5, <1>8, <1>9, OneClient DEF UpdateInv, ClientInv

\* A client that gives up.
LEMMA AbortClients ==
  ASSUME UpdateInv, NEW c \in Clients, Abort(c)
  PROVE  ClientInv'
<1> DEFINE q == Idle(client[c].mode.library)
<1>1. client' = [client EXCEPT ![c] = q] /\ UNCHANGED <<list, epoch, inflight>>
  BY DEF Abort, chainVars, UpdateInv, ClientInv
<1>2. client[c].mode.library \in {"rust", "js"} /\ epoch \in Nat
  BY ClientAt
<1>3. q \in ClientStates /\ Sound(q, list', epoch', inflight')
  BY <1>1, <1>2, IdleSound
<1> HIDE DEF q
<1>4. \A d \in Clients : Sound(client[d], list', epoch', inflight')
  BY <1>1, ClientAt
<1> QED
  BY <1>1, <1>3, <1>4, OneClient DEF UpdateInv, ClientInv

\* A slice is sent without waiting: it is in flight now.
LEMMA SendClients ==
  ASSUME UpdateInv, NEW c \in Clients, SendNoWait(c)
  PROVE  ClientInv'
<1> DEFINE r == client[c]
           t == Head(r.todo)
           q == [r EXCEPT !.todo = Tail(r.todo), !.missed = r.missed \ {t.start}]
<1>1. CASE Abort(c)
  BY <1>1, AbortClients
<1>2. CASE /\ Len(r.todo) > 1 /\ r.pc = "send" /\ inflight' = inflight \cup {t}
           /\ client' = [client EXCEPT ![c].todo = Tail(@), ![c].missed = @ \ {t.start}]
           /\ UNCHANGED chainVars
  <2>1. /\ r \in ClientStates /\ r.mode.library \in {"rust", "js"} /\ r.todo \in Seq(Slice)
        /\ Sound(r, list, epoch, inflight) /\ r.missed \subseteq Nat
        /\ inflight \subseteq Slice
    BY ClientAt
  <2>2. r.todo # <<>> /\ 1 \in DOMAIN r.todo /\ r.todo[1] = t
    BY <1>2, <2>1
  <2>3. /\ t \in Slice /\ Tail(r.todo) \in Seq(Slice)
        /\ Len(Tail(r.todo)) = Len(r.todo) - 1
        /\ \A n \in 1..Len(Tail(r.todo)) : Tail(r.todo)[n] = r.todo[n + 1]
    BY <2>1, <2>2, HeadTailProperties
  <2>4. client' = [client EXCEPT ![c] = q]
    BY <1>2 DEF UpdateInv, ClientInv
  <2>5. /\ q \in ClientStates /\ q.mode = r.mode /\ q.addresses = r.addresses
        /\ q.now = r.now /\ q.missed = r.missed \ {t.start} /\ q.todo = Tail(r.todo)
        /\ q.pc = r.pc
    BY <2>1, <2>3 DEF ClientStates
  <2>6. UNCHANGED <<list, epoch>>
    BY <1>2 DEF chainVars
  <2>7. inflight' \subseteq Slice /\ inflight \subseteq inflight' /\ t \in inflight'
    BY <1>2, <2>1, <2>3
  <2> HIDE DEF q, t, r
  <2>8. DOMAIN r.todo = 1..Len(r.todo) /\ DOMAIN q.todo = 1..(Len(r.todo) - 1)
        /\ Len(r.todo) \in Nat
    BY <2>1, <2>3, <2>5
  <2>9. \A n \in DOMAIN q.todo : \E m \in DOMAIN r.todo : q.todo[n] = r.todo[m]
    <3> SUFFICES ASSUME NEW n \in DOMAIN q.todo
                 PROVE  \E m \in DOMAIN r.todo : q.todo[n] = r.todo[m]
      OBVIOUS
    <3>1. n + 1 \in DOMAIN r.todo
      BY <2>8
    <3>2. q.todo[n] = r.todo[n + 1]
      BY <2>3, <2>5, <2>8
    <3> QED
      BY <3>1, <3>2
  <2>10. \A n \in DOMAIN r.todo :
           (\E m \in DOMAIN q.todo : q.todo[m] = r.todo[n]) \/ r.todo[n] \in inflight'
    <3> SUFFICES ASSUME NEW n \in DOMAIN r.todo
                 PROVE  (\E m \in DOMAIN q.todo : q.todo[m] = r.todo[n])
                        \/ r.todo[n] \in inflight'
      OBVIOUS
    <3>1. CASE n = 1
      BY <3>1, <2>2, <2>7
    <3>2. CASE n # 1
      <4>1. n - 1 \in DOMAIN q.todo /\ (n - 1) + 1 = n
        BY <2>8, <3>2
      <4>2. q.todo[n - 1] = r.todo[n]
        BY <2>3, <2>5, <2>8, <4>1
      <4> QED
        BY <4>1, <4>2
    <3> QED
      BY <3>1, <3>2
  <2>11. \A start \in r.missed :
           \/ start \in q.missed
           \/ \E n \in DOMAIN r.todo : r.todo[n] \in inflight' /\ r.todo[n].start = start
    BY <2>2, <2>5, <2>7
  <2>12. Standing(r, list, epoch, inflight) => Standing(q, list, epoch, inflight')
    <3>1. Shape(list, list, epoch)
      BY SameShape
    <3>2. \A n \in DOMAIN r.todo :
            \/ \E m \in DOMAIN q.todo : q.todo[m] = r.todo[n]
            \/ r.todo[n] \in inflight'
            \/ Landed(r.todo[n], r.mode.library, list, list, epoch)
      BY <2>10
    <3>3. \A slice \in inflight : \/ slice \in inflight'
                                 \/ slice.start \in q.missed
                                 \/ Landed(slice, r.mode.library, list, list, epoch)
      BY <2>7
    <3>4. q.mode = r.mode /\ q.addresses = r.addresses /\ r.mode.library \in {"rust", "js"}
      BY <2>1, <2>5
    <3> QED
      BY ONLY <3>1, <3>2, <3>3, <3>4, <2>9, <2>11, StandingKept
  <2>13. Sound(q, list, epoch, inflight')
    <3>1. q.todo # <<>>
      BY <1>2, <2>8 DEF r
    <3>2. q.pc = "send"
      BY <1>2, <2>5 DEF r
    <3> QED
      BY <3>1, <3>2, <2>1, <2>5, <2>12 DEF Sound
  <2>14. ASSUME NEW d \in Clients PROVE Sound(client[d], list, epoch, inflight')
    <3>1. client[d] \in ClientStates /\ Sound(client[d], list, epoch, inflight)
      BY ClientAt
    <3> QED
      BY ONLY <3>1, <2>7, SameShape, SoundKept
  <2> QED
    BY <2>4, <2>5, <2>6, <2>7, <2>13, <2>14, OneClient DEF UpdateInv
<1> QED
  BY <1>1, <1>2 DEF SendNoWait

\* The three reads. The list is cut into slices that answer for it.
LEMMA ReadClients ==
  ASSUME UpdateInv, NEW c \in Clients,
         (\E mode \in ModeChoices : ReadPool(c, mode)) \/ ReadEpoch(c) \/ ReadList(c)
  PROVE  ClientInv'
<1> DEFINE r == client[c]
<1>0. /\ r \in ClientStates /\ r.mode \in Modes /\ r.mode.library \in {"rust", "js"}
      /\ Sound(r, list, epoch, inflight) /\ r.now \in Nat
      /\ epoch \in Nat /\ list \in Seq(Entry) /\ inflight \subseteq Slice
  BY ClientAt
<1>1. UNCHANGED <<list, epoch, inflight>>
  BY DEF ReadPool, ReadEpoch, ReadList, chainVars
<1>2. \A d \in Clients : Sound(client[d], list', epoch', inflight')
  BY <1>1, ClientAt
<1>3. SUFFICES \E q \in ClientStates :
                 client' = [client EXCEPT ![c] = q] /\ Sound(q, list, epoch, inflight)
  BY <1>0, <1>1, <1>2, OneClient DEF UpdateInv
<1>4. ASSUME NEW mode \in ModeChoices, ReadPool(c, mode)
      PROVE  \E q \in ClientStates :
               client' = [client EXCEPT ![c] = q] /\ Sound(q, list, epoch, inflight)
  <2> DEFINE q == [r EXCEPT !.pc = "epoch", !.seen = last_update_epoch, !.mode = mode]
  <2>1. client' = [client EXCEPT ![c] = q]
    BY <1>4 DEF ReadPool, UpdateInv, ClientInv
  <2>2. mode \in Modes /\ last_update_epoch \in Nat
    BY ListAssumption DEF UpdateInv, ListInv, ChainTypes
  <2>3. q \in ClientStates /\ q.pc = "epoch" /\ q.now = r.now
    BY <1>0, <2>2 DEF ClientStates
  <2> HIDE DEF q, r
  <2>4. Sound(q, list, epoch, inflight)
    BY <1>0, <2>3 DEF Sound
  <2> QED
    BY <2>1, <2>3, <2>4
<1>5. CASE ReadEpoch(c)
  <2> DEFINE q == IF r.seen = epoch /\ ~r.mode.force THEN Idle(r.mode.library)
                  ELSE [r EXCEPT !.pc = "list", !.seen = 0, !.now = epoch]
  <2>1. client' = [client EXCEPT ![c] = q]
    BY <1>5 DEF ReadEpoch, UpdateInv, ClientInv
  <2>2. CASE q = Idle(r.mode.library)
    <3> HIDE DEF q, r
    <3>1. q \in ClientStates /\ Sound(q, list, epoch, inflight)
      BY <2>2, <1>0, IdleSound
    <3> QED
      BY <2>1, <3>1
  <2>3. CASE q = [r EXCEPT !.pc = "list", !.seen = 0, !.now = epoch]
    <3> HIDE DEF q, r
    <3>1. q \in ClientStates /\ q.pc = "list" /\ q.now = epoch
      BY <1>0, <2>3 DEF ClientStates
    <3>2. Sound(q, list, epoch, inflight)
      BY <1>0, <3>1 DEF Sound
    <3> QED
      BY <2>1, <3>1, <3>2
  <2> QED
    BY <2>2, <2>3
<1>6. CASE ReadList(c)
  <2> DEFINE todo == UpdateInstructions(r.mode, list, r.now)
             q == [r EXCEPT !.pc = IF todo = <<>> THEN "final" ELSE "send",
                            !.addresses = Addresses(list), !.todo = todo]
  <2>1. client' = [client EXCEPT ![c] = q]
    BY <1>6 DEF ReadList, UpdateInv, ClientInv
  <2>2. /\ todo \in Seq(Slice)
        /\ \A n \in DOMAIN todo : Answers(todo[n], r.mode.library, list)
        /\ \A i \in DOMAIN list : \/ list[i].last_update >= r.now
                                  \/ \E n \in DOMAIN todo : InChunk(i, todo[n].start)
    BY <1>0, InstructionFacts DEF Answers
  <2>3. Addresses(list) \in Seq(Pair)
    <3>1. \A i \in DOMAIN list : AddressPair("rust", list[i]) \in Pair
      <4> SUFFICES ASSUME NEW i \in DOMAIN list PROVE AddressPair("rust", list[i]) \in Pair
        OBVIOUS
      <4>1. list[i] \in Entry
        BY <1>0
      <4> QED
        BY <4>1, ListAssumption DEF AddressPair, Entry, Pair, StakeAddress, TransientAddress,
                                    StakeAddresses, TransientAddresses
    <3>2. DOMAIN list = 1..Len(list) /\ Len(list) \in Nat
      BY <1>0
    <3> QED
      BY <3>1, <3>2 DEF Addresses
  <2> HIDE DEF todo, r
  <2>4. /\ q \in ClientStates /\ q.mode = r.mode /\ q.now = r.now
        /\ q.addresses = Addresses(list) /\ q.todo = todo
        /\ q.pc = IF todo = <<>> THEN "final" ELSE "send"
    BY <1>0, <2>2, <2>3 DEF ClientStates
  <2> HIDE DEF q
  <2>5. ASSUME r.now = epoch, NEW i \in DOMAIN list PROVE Served(q, i, list, epoch, inflight)
    <3>1. CASE list[i].last_update >= epoch
      <4>1. list[i].last_update <= epoch /\ list[i].last_update \in Nat
        BY EntryAt DEF UpdateInv, ListInv, NotAhead
      <4>2. list[i].last_update = epoch
        BY <4>1, <3>1, <1>0
      <4> QED
        BY <4>2 DEF Served
    <3>2. CASE \E n \in DOMAIN todo : InChunk(i, todo[n].start)
      BY <3>2, <2>4 DEF Served
    <3> QED
      BY <2>2, <2>5, <3>1, <3>2
  <2>6. r.now = epoch => Standing(q, list, epoch, inflight)
    BY <2>2, <2>4, <2>5 DEF Standing, Follows
  <2>7. Sound(q, list, epoch, inflight)
    BY <1>0, <2>4, <2>6 DEF Sound
  <2> QED
    BY <2>1, <2>4, <2>7
<1> QED
  BY <1>4, <1>5, <1>6

\* A lost slice is remembered by the clients that may count on it.
LEMMA DropClients ==
  ASSUME UpdateInv, NEW t \in inflight, Drop(t)
  PROVE  ClientInv'
<1>1. /\ inflight' = inflight \ {t} /\ UNCHANGED <<list, epoch>>
      /\ client' = [c \in Clients |->
           IF client[c].pc \in {"send", "final"}
             THEN [client[c] EXCEPT !.missed = @ \cup {t.start}] ELSE client[c]]
  BY DEF Drop, chainVars
<1>2. ASSUME NEW d \in Clients
      PROVE  client'[d] \in ClientStates /\ Sound(client'[d], list, epoch, inflight')
  <2> DEFINE r == client[d]
             q == client'[d]
  <2>1. /\ r \in ClientStates /\ r.mode.library \in {"rust", "js"} /\ r.missed \subseteq Nat
        /\ Sound(r, list, epoch, inflight) /\ t \in Slice
    BY ClientAt
  <2>2. CASE r.pc \in {"send", "final"}
    <3>1. q = [r EXCEPT !.missed = r.missed \cup {t.start}]
      BY <1>1, <2>2
    <3>2. t.start \in Nat
      BY <2>1 DEF Slice
    <3> HIDE DEF q, r
    <3>3. /\ q \in ClientStates /\ q.mode = r.mode /\ q.addresses = r.addresses
          /\ q.now = r.now /\ q.todo = r.todo /\ q.pc = r.pc
          /\ q.missed = r.missed \cup {t.start}
      BY <2>1, <3>1, <3>2 DEF ClientStates
    <3>4. \A slice \in inflight : slice \in inflight' \/ slice.start \in q.missed
      BY <1>1, <3>3
    <3>5. Standing(r, list, epoch, inflight) => Standing(q, list, epoch, inflight')
      <4>1. Shape(list, list, epoch)
        BY SameShape
      <4>2. \A start \in r.missed : start \in q.missed
        BY <3>3
      <4> QED
        BY ONLY <4>1, <4>2, <2>1, <3>3, <3>4, StandingKept
    <3>6. Sound(q, list, epoch, inflight')
      BY <2>1, <3>3, <3>5 DEF Sound
    <3> QED
      BY <3>3, <3>6 DEF q
  <2>3. CASE r.pc \notin {"send", "final"}
    <3>1. q = r
      BY <1>1, <2>3
    <3> HIDE DEF q, r
    <3> QED
      BY <3>1, <2>1, <2>3 DEF Sound, q
  <2> QED
    BY <2>2, <2>3
<1>3. client' \in [Clients -> ClientStates]
  <2>1. client' = [c \in Clients |-> client'[c]]
    BY <1>1
  <2> QED
    BY <1>2, <2>1
<1> QED
  BY <1>1, <1>2, <1>3 DEF UpdateInv, ClientInv

\* A new epoch: no client has read it yet.
LEMMA EpochClients ==
  ASSUME UpdateInv, NewEpoch
  PROVE  ClientInv'
<1>1. epoch' = epoch + 1 /\ UNCHANGED <<list, inflight, client>>
  BY DEF NewEpoch
<1>2. ASSUME NEW d \in Clients PROVE Sound(client[d], list', epoch', inflight')
  <2>1. client[d].now \in Nat /\ epoch \in Nat /\ Sound(client[d], list, epoch, inflight)
    BY ClientAt
  <2>2. client[d].now <= epoch
    BY <2>1 DEF Sound
  <2>3. client[d].now <= epoch' /\ client[d].now # epoch'
    BY <1>1, <2>1, <2>2
  <2> QED
    BY <2>1, <2>3 DEF Sound
<1> QED
  BY <1>1, <1>2, NoClient DEF UpdateInv, ClientInv

\* The steps of a client.
LEMMA ClientsKeep ==
  ASSUME UpdateInv, ListInv', NEW c \in Clients, ClientStep(c)
  PROVE  ClientInv'
<1>1. CASE (\E mode \in ModeChoices : ReadPool(c, mode)) \/ ReadEpoch(c) \/ ReadList(c)
  BY <1>1, ReadClients
<1>2. CASE SendNoWait(c)
  BY <1>2, SendClients
<1>3. CASE LastConfirmed(c)
  BY <1>3, LastLands
<1>4. CASE LastFailed(c) \/ FinalFailed(c)
  BY <1>4, AbortClients DEF LastFailed, FinalFailed
<1>5. CASE FinalConfirmed(c)
  <2>1. /\ last_update_epoch' = epoch /\ UNCHANGED <<epoch, inflight>>
        /\ client' = [client EXCEPT ![c] = Idle(client[c].mode.library)]
    BY <1>5 DEF FinalConfirmed, UpdateInv, ClientInv
  <2>2. UpToDate'
    BY <2>1 DEF UpToDate, UpdateInv, ListInv, ChainTypes
  <2> QED
    BY <2>1, <2>2, FreshSteps
<1> QED
  BY <1>1, <1>2, <1>3, <1>4, <1>5 DEF ClientStep

\* Every step keeps the invariant.
LEMMA NextUpdateInv == UpdateInv /\ [Next]_vars => UpdateInv'
<1> SUFFICES ASSUME UpdateInv, [Next]_vars PROVE UpdateInv'
  OBVIOUS
<1>0. ListInv'
  BY NextListInv DEF UpdateInv
<1>t. epoch \in Nat /\ list \in Seq(Entry) /\ ListInv
  BY DEF UpdateInv, ListInv, ChainTypes
<1>s. SUFFICES ClientInv'
  BY <1>0 DEF UpdateInv
<1>1. ASSUME NEW vote \in Votes, NEW suffix \in Suffixes, AddValidatorToPool(vote, suffix)
      PROVE  ClientInv'
  BY <1>1, <1>0, FreshSteps DEF AddValidatorToPool, UpToDate
<1>2. ASSUME NEW i \in DOMAIN list, OthersUpdate(i) PROVE ClientInv'
  <2> DEFINE t == [start |-> i - 1, pairs |-> <<AddressPair("rust", list[i])>>]
  <2>1. list' = Updated(t) /\ UNCHANGED <<epoch, inflight, client>>
    BY <1>2 DEF OthersUpdate
  <2>2. AddressPair("rust", list[i]) \in Pair
    <3>1. list[i] \in Entry
      BY <1>t
    <3> QED
      BY <3>1 DEF AddressPair, Entry, Pair, StakeAddress, TransientAddress,
                  StakeAddresses, TransientAddresses
  <2>3. t \in Slice
    <3>1. i - 1 \in Nat /\ <<AddressPair("rust", list[i])>> \in Seq(Pair)
      BY <1>t, <2>2
    <3> QED
      BY <3>1 DEF Slice
  <2> HIDE DEF t
  <2> QED
    BY <2>1, <2>3, SliceLands
<1>3. ASSUME NEW i \in DOMAIN list, WithdrawWholeValidator(i) PROVE ClientInv'
  BY <1>3, <1>0, FreshSteps DEF WithdrawWholeValidator, UpToDate
<1>4. ASSUME NEW i \in DOMAIN list, NEW seed \in Seeds, MoveStake(i, seed) PROVE ClientInv'
  BY <1>4, <1>0, FreshSteps DEF MoveStake, UpToDate
<1>5. CASE UpdateStakePoolBalance
  <2>1. last_update_epoch' = epoch /\ UNCHANGED <<epoch, inflight, client>>
    BY <1>5 DEF UpdateStakePoolBalance
  <2>2. UpToDate'
    BY <2>1, <1>t DEF UpToDate
  <2> QED
    BY <2>1, <2>2, <1>0, FreshSteps
<1>6. CASE Cleanup
  BY <1>6, CleanupClients
<1>7. CASE \E c \in Clients : ClientStep(c)
  BY <1>7, <1>0, ClientsKeep
<1>8. ASSUME NEW t \in inflight, Land(t) PROVE ClientInv'
  <2>1. list' = Updated(t) /\ inflight' = inflight \ {t} /\ UNCHANGED <<epoch, client>>
    BY <1>8 DEF Land
  <2>2. t \in Slice
    BY DEF UpdateInv, ClientInv
  <2> QED
    BY <2>1, <2>2, SliceLands
<1>9. ASSUME NEW t \in inflight, Drop(t) PROVE ClientInv'
  BY <1>9, DropClients
<1>10. CASE NewEpoch
  BY <1>10, EpochClients
<1>11. CASE UNCHANGED <<list, epoch, inflight, client>>
  BY <1>11, ClientAt, NoClient DEF UpdateInv, ClientInv
<1>12. CASE \E W \in SUBSET Staked : DistributeRewards(W)
  BY <1>11, <1>12 DEF DistributeRewards
<1>13. CASE UNCHANGED vars
  BY <1>11, <1>13 DEF vars, chainVars
<1> QED
  BY <1>1, <1>2, <1>3, <1>4, <1>5, <1>6, <1>7, <1>8, <1>9, <1>10, <1>12, <1>13 DEF Next

\* The invariant of the clients holds throughout.
THEOREM UpdateInvariant == Spec => []UpdateInv
BY InitUpdateInv, NextUpdateInv, PTL DEF Spec

\* command_update and updateStakePool keep their types.
THEOREM UpdateTypeCorrect == Spec => []TypeOK
<1>1. UpdateInv => TypeOK
  BY DEF UpdateInv, ListInv, ClientInv, ChainTypes, ClientStates, TypeOK
<1> QED
  BY <1>1, UpdateInvariant, PTL

\* command_update, update_stale_stake_pool and updateStakePool: when a client
\* comes to its final transaction and the list is the one it read, every entry
\* is updated, or its slice is late or lost, or it has a suffix that the
\* JavaScript library leaves out.
THEOREM UpdateIsComplete == Spec => []CompleteUpdate
<1>1. UpdateInv => CompleteUpdate
  <2> SUFFICES ASSUME UpdateInv, NEW c \in Clients,
                      client[c].pc = "final", client[c].now = epoch,
                      client[c].addresses = Addresses(list),
                      NEW i \in DOMAIN list
               PROVE  \/ list[i].last_update = epoch
                      \/ client[c].mode.library = "js" /\ list[i].suffix # NoSuffix
                      \/ \E start \in {tx.start : tx \in inflight} \cup client[c].missed :
                           i \in start + 1..start + ChunkSize
    BY DEF CompleteUpdate
  <2> DEFINE r == client[c]
  <2>1. Sound(r, list, epoch, inflight) /\ list \in Seq(Entry)
    BY ClientAt
  <2>2. r.todo = <<>> /\ Standing(r, list, epoch, inflight)
    BY <2>1 DEF Sound
  <2>3. ~(Len(list) < Len(r.addresses))
    <3>1. Len(Addresses(list)) = Len(list) /\ Len(list) \in Nat
      BY <2>1 DEF Addresses
    <3> QED
      BY <3>1
  <2>4. CASE AllOf(list, epoch)
    BY <2>4 DEF AllOf
  <2>5. CASE Follows(r, list, epoch, inflight)
    <3>1. Served(r, i, list, epoch, inflight)
      BY <2>5 DEF Follows
    <3>2. ~ \E n \in DOMAIN r.todo : InChunk(i, r.todo[n].start)
      BY <2>2
    <3> QED
      BY <3>1, <3>2 DEF Served, InChunk
  <2> QED
    BY <2>2, <2>3, <2>4, <2>5 DEF Standing
<1> QED
  BY <1>1, UpdateInvariant, PTL
=============================================================================
