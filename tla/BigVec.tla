------------------------------- MODULE BigVec -------------------------------
(***************************************************************************)
(* The vector over account data that holds the validator list              *)
(* (big_vec.rs). The data is a length and Capacity cells of one element    *)
(* each; offsets are counted in elements. retain works in place, with one  *)
(* memmove per dropped element; a step of the model is one round of its    *)
(* loop. The other operations are single steps.                            *)
(***************************************************************************)
EXTENDS Integers, Sequences, FiniteSets

CONSTANTS
  Elements,  \* what a cell holds
  Capacity   \* cells of the data

ASSUME BigVecAssumption == Elements # {} /\ Capacity \in Nat

VARIABLES
  len,       \* the length stored in front of the data
  data,      \* the cells, from 0
  dropped,   \* the elements retain's predicate rejects
  pos,       \* retain's start_index, -1 when it does not run
  removals,  \* removals_found
  dst,       \* dst_start_index
  before     \* history: the elements when retain began

cells == <<len, data>>
loop == <<dropped, pos, removals, dst, before>>
vars == <<cells, loop>>

Contents(n, cell) == [i \in 1..n |-> cell[i - 1]]
Running == pos # -1

\* Mutant of Memmove: one cell too few.
MemmoveShort(to, from, n) ==
  [i \in DOMAIN data |-> IF i \in to..(to + n - 2) THEN data[from + i - to] ELSE data[i]]
\* sol_memmove of n elements.
Memmove(to, from, n) ==
  [i \in DOMAIN data |-> IF i \in to..(to + n - 1) THEN data[from + i - to] ELSE data[i]]

\* Mutant of Close: only the last gap is closed.
CloseLast(end) ==
  IF removals > 0 THEN Memmove(dst, dst + 1, end - 1 - dst) ELSE data
\* The elements between the last gap and end move down over the gap.
Close(end) ==
  IF removals > 0 THEN Memmove(dst, dst + removals, end - removals - dst) ELSE data

\* push: fails when the data has no room. (It has written the new length by
\* then, which is undone with the transaction.)
Push(e) ==
  /\ ~Running
  /\ len < Capacity
  /\ data' = [data EXCEPT ![len] = e]
  /\ len' = len + 1
  /\ UNCHANGED loop

\* find_mut, and a write to what it returns.
ReplaceFound(e, f) ==
  /\ ~Running
  /\ \E i \in 0..(len - 1) :
       /\ data[i] = e
       /\ \A j \in 0..(i - 1) : data[j] # e
       /\ data' = [data EXCEPT ![i] = f]
  /\ UNCHANGED <<len, loop>>

\* deserialize_mut_slice fails otherwise.
SliceFits(skip, n) == skip + n <= len
\* deserialize_mut_slice, and a write to all of the slice.
Overwrite(skip, n, f) ==
  /\ ~Running
  /\ SliceFits(skip, n)
  /\ data' = [i \in DOMAIN data |-> IF i \in skip..(skip + n - 1) THEN f ELSE data[i]]
  /\ UNCHANGED <<len, loop>>

RetainBegin(D) ==
  /\ ~Running
  /\ dropped' = D /\ pos' = 0 /\ removals' = 0 /\ dst' = 0
  /\ before' = Contents(len, data)
  /\ UNCHANGED cells

RetainKeep ==
  /\ Running /\ pos < len
  /\ data[pos] \notin dropped
  /\ pos' = pos + 1
  /\ UNCHANGED <<cells, dropped, removals, dst, before>>

RetainDrop ==
  /\ Running /\ pos < len
  /\ data[pos] \in dropped
  /\ data' = Close(pos)
  /\ dst' = pos - removals
  /\ removals' = removals + 1
  /\ pos' = pos + 1
  /\ UNCHANGED <<len, dropped, before>>

RetainEnd ==
  /\ Running /\ pos = len
  /\ data' = Close(len)
  /\ len' = len - removals
  /\ dropped' = {} /\ pos' = -1 /\ removals' = 0 /\ dst' = 0 /\ before' = <<>>

Init ==
  /\ len = 0
  /\ data \in {[i \in 0..(Capacity - 1) |-> e] : e \in Elements}
  /\ dropped = {} /\ pos = -1 /\ removals = 0 /\ dst = 0 /\ before = <<>>

Next ==
  \/ \E e \in Elements : Push(e)
  \/ \E e, f \in Elements : ReplaceFound(e, f)
  \/ \E skip, n \in 0..Capacity, f \in Elements : Overwrite(skip, n, f)
  \/ \E D \in SUBSET Elements : RetainBegin(D)
  \/ RetainKeep \/ RetainDrop \/ RetainEnd

Spec == Init /\ [][Next]_vars

Abstract == INSTANCE EntryVec WITH
  vec <- IF Running THEN before ELSE Contents(len, data)
----------------------------------------------------------------------------
\* BigVec behaves as a sequence: the memmoves of a whole retain amount to
\* dropping the rejected elements and keeping the order of the others, and no
\* operation touches anything beyond what it names.
BehavesAsSequence == Abstract!Spec

\* While retain runs, the cells are what the code relies on: the elements kept
\* so far stand in front, in their order, but for those after the last gap,
\* which are still removals cells further on, as are all that the predicate has
\* yet to see in their place.
RetainInvariant ==
  Running =>
    LET kept == {i \in 1..pos : before[i] \notin dropped}
        rank(i) == Cardinality(kept \cap 1..i)
        cell(n) == IF n <= dst THEN n - 1 ELSE n - 1 + removals
    IN /\ \A i \in pos..(len - 1) : data[i] = before[i + 1]
       /\ Cardinality(kept) = pos - removals
       /\ \A i \in kept : data[cell(rank(i))] = before[i]
============================================================================
