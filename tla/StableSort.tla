------------------------------ MODULE StableSort ------------------------------
(***************************************************************************)
(* The sort of Python's standard library, sorted() and list.sort(): the    *)
(* position of one member is before that of another if the member comes    *)
(* before the other, or was given earlier and does not come after it.  A   *)
(* position's place is one more than the number of positions before it.    *)
(***************************************************************************)
EXTENDS Integers, FiniteSets, Sequences

Positions(seq, Before(_, _)) ==
  {p \in (1..Len(seq)) \X (1..Len(seq)) :
     \/ Before(seq[p[1]], seq[p[2]])
     \/ p[1] < p[2] /\ ~Before(seq[p[2]], seq[p[1]])}

Place(order, n, i) == Cardinality({j \in 1..n : <<j, i>> \in order}) + 1

Placed(order, n) == [m \in 1..n |-> CHOOSE i \in 1..n : Place(order, n, i) = m]

Arranged(seq, order) == [m \in 1..Len(seq) |-> seq[Placed(order, Len(seq))[m]]]

Sorted(seq, Before(_, _)) == Arranged(seq, Positions(seq, Before))
=============================================================================
