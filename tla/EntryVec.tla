------------------------------ MODULE EntryVec ------------------------------
(***************************************************************************)
(* What the validator list promises as a container: a sequence of entries  *)
(* of bounded length, to which entries are appended, in which the first    *)
(* match or a slice is rewritten, and from which entries are dropped       *)
(* without disturbing the others. BigVec implements it on raw memory.      *)
(***************************************************************************)
EXTENDS Integers, Sequences, FiniteSets

CONSTANTS Elements, Capacity
VARIABLE vec

Init == vec = <<>>

Push(e) == Len(vec) < Capacity /\ vec' = Append(vec, e)

\* The new position of an element that stays: how many stay up to it.
Retain(Dropped) ==
  LET stay == {i \in DOMAIN vec : vec[i] \notin Dropped}
  IN /\ vec' \in [1..Cardinality(stay) -> Elements]
     /\ \A i \in stay : vec'[Cardinality(stay \cap 1..i)] = vec[i]

\* The first e becomes f.
ReplaceFound(e, f) ==
  \E i \in DOMAIN vec :
    /\ vec[i] = e
    /\ \A j \in 1..(i - 1) : vec[j] # e
    /\ vec' = [vec EXCEPT ![i] = f]

Overwrite(skip, len, f) ==
  /\ skip + len <= Len(vec)
  /\ vec' = [i \in 1..Len(vec) |-> IF i \in (skip + 1)..(skip + len) THEN f ELSE vec[i]]

Next ==
  \/ \E e \in Elements : Push(e)
  \/ \E Dropped \in SUBSET Elements : Retain(Dropped)
  \/ \E e, f \in Elements : ReplaceFound(e, f)
  \/ \E skip, len \in 0..Capacity, f \in Elements : Overwrite(skip, len, f)

Spec == Init /\ [][Next]_vec
============================================================================
