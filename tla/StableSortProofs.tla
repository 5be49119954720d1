--------------------------- MODULE StableSortProofs ---------------------------
(***************************************************************************)
(* What sorting does: in a strict total order every member has a place of  *)
(* its own, so sorting is a permutation, and what is sorted depends only   *)
(* on the set of the members.  Counting the members below one is all it    *)
(* takes; there is no induction.                                           *)
(***************************************************************************)
EXTENDS StableSort, FiniteSetTheorems, WellFoundedInduction, TLAPS

(* R is a strict total order of S; Below are the members of S before x.      *)
StrictOrder(R, S) ==
  /\ \A x \in S : <<x, x>> \notin R
  /\ \A x, y, z \in S : <<x, y>> \in R /\ <<y, z>> \in R => <<x, z>> \in R
  /\ \A x, y \in S : x # y => <<x, y>> \in R \/ <<y, x>> \in R
Below(R, S, x) == {y \in S : <<y, x>> \in R}

(* A sequence of n members in that order, and its members.                   *)
Increasing(R, n, s) == \A i, j \in 1..n : i < j => <<s[i], s[j]>> \in R
Members(n, s) == {s[i] : i \in 1..n}
Distinct(n, s) == \A i, j \in 1..n : s[i] = s[j] => i = j
Ranked(R, n, s) == \A i \in 1..n : Cardinality(Below(R, Members(n, s), s[i])) = i - 1

(* The ways to rearrange n members, and a sequence so rearranged.            *)
Rearrangements(n) == {at \in [1..n -> 1..n] : \A i \in 1..n : \E m \in 1..n : at[m] = i}
Rearranged(n, seq, at) == [m \in 1..n |-> seq[at[m]]]

(* The rearrangement that sorts a sequence by an order of its positions.     *)
Arranges(at, seq, R) ==
  Increasing(R, Len(seq), at) /\ Arranged(seq, R) = Rearranged(Len(seq), seq, at)

(* A set of natural numbers has a least one. *)
LEMMA Least ==
  ASSUME NEW S, S \subseteq Nat, S # {}
  PROVE  \E m \in S : \A n \in S : m <= n
<1>1. PICK m \in S : \A n \in S : <<n, m>> \notin OpToRel(<, Nat)
  BY WFMin, NatLessThanWellFounded, Zenon
<1>2. \A n \in S : m \in Nat /\ n \in Nat /\ ~(n < m)
  BY <1>1, Zenon DEF OpToRel
<1> QED BY <1>2

(* The more members are below one, the later it comes. *)
LEMMA Counting ==
  ASSUME NEW S, IsFiniteSet(S), NEW R, StrictOrder(R, S)
  PROVE  /\ \A x \in S : /\ IsFiniteSet(Below(R, S, x))
                         /\ Cardinality(Below(R, S, x)) \in Nat
                         /\ Cardinality(Below(R, S, x)) < Cardinality(S)
         /\ \A x, y \in S : <<x, y>> \in R =>
              Cardinality(Below(R, S, x)) < Cardinality(Below(R, S, y))
<1>1. ASSUME NEW T, IsFiniteSet(T), NEW U, U \subseteq T, NEW x \in T, x \notin U
      PROVE  /\ IsFiniteSet(U) /\ Cardinality(U) \in Nat
             /\ Cardinality(T) \in Nat /\ Cardinality(U) < Cardinality(T)
  <2>1. /\ IsFiniteSet(U) /\ Cardinality(U) <= Cardinality(T)
        /\ Cardinality(T) = Cardinality(U) => T = U
    BY <1>1, FS_Subset
  <2>2. Cardinality(U) \in Nat /\ Cardinality(T) \in Nat
    BY <1>1, <2>1, FS_CardinalityType
  <2> QED BY <1>1, <2>1, <2>2
<1>2. ASSUME NEW x \in S
      PROVE  /\ IsFiniteSet(Below(R, S, x)) /\ Cardinality(Below(R, S, x)) \in Nat
             /\ Cardinality(Below(R, S, x)) < Cardinality(S)
  <2>1. Below(R, S, x) \subseteq S /\ x \notin Below(R, S, x)
    BY DEF Below, StrictOrder
  <2> QED BY <1>1, <2>1
<1>3. ASSUME NEW x \in S, NEW y \in S, <<x, y>> \in R
      PROVE  Cardinality(Below(R, S, x)) < Cardinality(Below(R, S, y))
  <2>1. /\ Below(R, S, x) \subseteq Below(R, S, y)
        /\ x \in Below(R, S, y) /\ x \notin Below(R, S, x)
    BY <1>3 DEF Below, StrictOrder
  <2> QED BY <1>1, <1>2, <2>1
<1> QED BY <1>2, <1>3

(* Every place is taken, by one position, and places go with the order. *)
LEMMA Places ==
  ASSUME NEW n \in Nat, NEW R, StrictOrder(R, 1..n)
  PROVE  /\ Placed(R, n) \in [1..n -> 1..n]
         /\ \A i \in 1..n : \E m \in 1..n : Placed(R, n)[m] = i
         /\ Increasing(R, n, Placed(R, n))
<1> DEFINE place == [i \in 1..n |-> Cardinality(Below(R, 1..n, i)) + 1]
<1>1. IsFiniteSet(1..n) /\ Cardinality(1..n) = n
  BY FS_Interval
<1>2. /\ \A i \in 1..n : /\ Cardinality(Below(R, 1..n, i)) \in Nat
                        /\ Cardinality(Below(R, 1..n, i)) < Cardinality(1..n)
      /\ \A i, j \in 1..n : <<i, j>> \in R =>
           Cardinality(Below(R, 1..n, i)) < Cardinality(Below(R, 1..n, j))
  <2> DEFINE S == 1..n
  <2>1. IsFiniteSet(S) /\ StrictOrder(R, S)
    BY <1>1
  <2> HIDE DEF S
  <2>2. /\ \A i \in S : /\ Cardinality(Below(R, S, i)) \in Nat
                       /\ Cardinality(Below(R, S, i)) < Cardinality(S)
        /\ \A i, j \in S : <<i, j>> \in R =>
             Cardinality(Below(R, S, i)) < Cardinality(Below(R, S, j))
    BY <2>1, Counting
  <2> QED BY <2>2 DEF S
<1>3. /\ place \in [1..n -> 1..n]
      /\ \A i, j \in 1..n : <<i, j>> \in R => place[i] < place[j]
  BY <1>1, <1>2
<1> HIDE DEF place
<1>4. \A i, j \in 1..n : i # j => <<i, j>> \in R \/ <<j, i>> \in R
  BY DEF StrictOrder
<1>5. ASSUME NEW i \in 1..n, NEW j \in 1..n
      PROVE  /\ place[i] = place[j] => i = j
             /\ place[i] < place[j] => <<i, j>> \in R
  <2>1. place[i] \in 1..n /\ place[j] \in 1..n
    BY <1>3
  <2>2. CASE <<i, j>> \in R
    BY <1>3, <2>1, <2>2
  <2>3. CASE <<j, i>> \in R
    <3>1. place[j] < place[i]
      BY <1>3, <2>3
    <3> QED BY <2>1, <2>3, <3>1
  <2>4. CASE i = j
    BY <2>1, <2>4
  <2> QED BY <1>4, <2>2, <2>3, <2>4
<1>6. IsInjective(place)
  BY <1>3, <1>5 DEF IsInjective
<1>7. place \in Injection(1..n, 1..n)
  BY <1>3, <1>6 DEF Injection
<1>8. place \in Surjection(1..n, 1..n)
  BY <1>1, <1>7, FS_Injection
<1>9. \A m \in 1..n : \E i \in 1..n : place[i] = m
  BY <1>8 DEF Surjection
<1> DEFINE at == Placed(R, n)
<1>10. at \in [1..n -> 1..n] /\ \A m \in 1..n : place[at[m]] = m
  <2>1. \A i \in 1..n : Place(R, n, i) = place[i]
    BY DEF Place, Below, place
  <2>2. at = [m \in 1..n |-> CHOOSE i \in 1..n : Place(R, n, i) = m]
    BY DEF Placed
  <2> HIDE DEF at
  <2>3. ASSUME NEW m \in 1..n
        PROVE  at[m] \in 1..n /\ place[at[m]] = m
    <3>1. PICK i \in 1..n : Place(R, n, i) = m
      BY <1>9, <2>1
    <3>2. at[m] = CHOOSE j \in 1..n : Place(R, n, j) = m
      BY <2>2
    <3>3. at[m] \in 1..n /\ Place(R, n, at[m]) = m
      BY <3>1, <3>2
    <3> QED BY <2>1, <3>3
  <2> QED BY <2>2, <2>3
<1> HIDE DEF at
<1>11. \A i \in 1..n : \E m \in 1..n : at[m] = i
  BY <1>3, <1>5, <1>10
<1>12. Increasing(R, n, at)
  BY <1>5, <1>10 DEF Increasing
<1> QED BY <1>10, <1>11, <1>12 DEF at

(* A sequence arranged by a strict total order of its positions holds the   *)
(* members it held, each from one position, in that order.                   *)
LEMMA Arranging ==
  ASSUME NEW T, NEW seq \in Seq(T), NEW R, StrictOrder(R, 1..Len(seq))
  PROVE  \E at \in Rearrangements(Len(seq)) : Arranges(at, seq, R)
<1>1. Len(seq) \in Nat
  OBVIOUS
<1>2. /\ Placed(R, Len(seq)) \in [1..Len(seq) -> 1..Len(seq)]
      /\ \A i \in 1..Len(seq) : \E m \in 1..Len(seq) : Placed(R, Len(seq))[m] = i
      /\ Increasing(R, Len(seq), Placed(R, Len(seq)))
  BY <1>1, Places
<1>3. Placed(R, Len(seq)) \in Rearrangements(Len(seq))
  BY <1>2 DEF Rearrangements
<1>4. Arranged(seq, R) = Rearranged(Len(seq), seq, Placed(R, Len(seq)))
  BY DEF Arranged, Rearranged
<1> QED BY <1>2, <1>3, <1>4 DEF Arranges

(* A stable sort by a key, which is what the code's sorts are.               *)
KeyOrder(R, n, key) ==
  {p \in (1..n) \X (1..n) :
     \/ <<key[p[1]], key[p[2]]>> \in R
     \/ p[1] < p[2] /\ <<key[p[2]], key[p[1]]>> \notin R}

SortsByKey(at, seq, key, R) ==
  /\ Increasing(R, Len(seq), Rearranged(Len(seq), key, at))
  /\ Arranged(seq, KeyOrder(R, Len(seq), key)) = Rearranged(Len(seq), seq, at)

(* When no two members have one key, the keys of the result ascend.          *)
LEMMA SortingByKey ==
  ASSUME NEW T, NEW seq \in Seq(T), NEW K, NEW R, StrictOrder(R, K),
         NEW key \in [1..Len(seq) -> K], Distinct(Len(seq), key)
  PROVE  \E at \in Rearrangements(Len(seq)) : SortsByKey(at, seq, key, R)
<1> DEFINE n == Len(seq)
           S == KeyOrder(R, n, key)
<1>1. n \in Nat
  OBVIOUS
<1>2. ASSUME NEW i \in 1..n, NEW j \in 1..n
      PROVE  <<i, j>> \in S <=> <<key[i], key[j]>> \in R
  <2>1. <<i, j>> \in S <=> <<key[i], key[j]>> \in R \/ (i < j /\ <<key[j], key[i]>> \notin R)
    BY DEF KeyOrder
  <2>2. CASE i = j
    BY <1>1, <2>1, <2>2
  <2>3. CASE i # j
    <3>1. key[i] \in K /\ key[j] \in K /\ key[i] # key[j]
      BY <2>3 DEF Distinct
    <3>2. <<key[i], key[j]>> \in R \/ <<key[j], key[i]>> \in R
      BY <3>1 DEF StrictOrder
    <3>3. ~(<<key[i], key[j]>> \in R /\ <<key[j], key[i]>> \in R)
      BY <3>1 DEF StrictOrder
    <3> QED BY <2>1, <3>2, <3>3
  <2> QED BY <2>2, <2>3
<1>3. StrictOrder(S, 1..n)
  <2>1. ASSUME NEW i \in 1..n PROVE <<i, i>> \notin S
    BY <1>2 DEF StrictOrder
  <2>2. ASSUME NEW i \in 1..n, NEW j \in 1..n, NEW k \in 1..n, <<i, j>> \in S, <<j, k>> \in S
        PROVE  <<i, k>> \in S
    <3>1. <<key[i], key[j]>> \in R /\ <<key[j], key[k]>> \in R
      BY <1>2, <2>2
    <3>2. <<key[i], key[k]>> \in R
      BY <3>1 DEF StrictOrder
    <3> QED BY <1>2, <3>2
  <2>3. ASSUME NEW i \in 1..n, NEW j \in 1..n, i # j PROVE <<i, j>> \in S \/ <<j, i>> \in S
    <3>1. key[i] \in K /\ key[j] \in K /\ key[i] # key[j]
      BY <2>3 DEF Distinct
    <3>2. <<key[i], key[j]>> \in R \/ <<key[j], key[i]>> \in R
      BY <3>1 DEF StrictOrder
    <3> QED BY <1>2, <3>2
  <2> HIDE DEF S, n
  <2> QED BY <2>1, <2>2, <2>3 DEF StrictOrder
<1> HIDE DEF S
<1>4. PICK at \in Rearrangements(Len(seq)) : Arranges(at, seq, S)
  <2>1. StrictOrder(S, 1..Len(seq))
    BY <1>3
  <2> HIDE DEF n
  <2> QED BY <2>1, Arranging, Zenon
<1>5. Increasing(R, n, Rearranged(n, key, at))
  <2>1. ASSUME NEW i \in 1..n, NEW j \in 1..n, i < j PROVE <<key[at[i]], key[at[j]]>> \in R
    <3>1. at[i] \in 1..n /\ at[j] \in 1..n /\ <<at[i], at[j]>> \in S
      BY <1>4, <2>1 DEF Arranges, Increasing, Rearrangements
    <3> QED BY <1>2, <3>1
  <2> HIDE DEF n
  <2> QED BY <2>1 DEF Increasing, Rearranged
<1> QED BY <1>4, <1>5 DEF S, Arranges, SortsByKey

(* A member of an increasing sequence has the members before it below it.    *)
LEMMA Ascending ==
  ASSUME NEW T, NEW R, StrictOrder(R, T), NEW n \in Nat, NEW s \in [1..n -> T],
         Increasing(R, n, s)
  PROVE  Ranked(R, n, s)
<1> SUFFICES ASSUME NEW i \in 1..n
             PROVE  Cardinality(Below(R, Members(n, s), s[i])) = i - 1
  BY DEF Ranked
<1> DEFINE below == Below(R, Members(n, s), s[i])
           f     == [j \in 1..(i - 1) |-> s[j]]
<1>1. /\ \A j \in 1..n : s[j] \in T
      /\ \A j, k \in 1..n : j < k => <<s[j], s[k]>> \in R /\ <<s[k], s[j]>> \notin R /\ s[j] # s[k]
  BY DEF StrictOrder, Increasing
<1>2. \A j \in 1..n : <<s[j], s[i]>> \in R <=> j < i
  <2>1. <<s[i], s[i]>> \notin R
    BY <1>1 DEF StrictOrder
  <2> TAKE j \in 1..n
  <2>2. CASE j < i
    BY <1>1, <2>2
  <2>3. CASE i < j
    BY <1>1, <2>3
  <2> QED BY <2>1, <2>2, <2>3
<1>3. ASSUME NEW j \in 1..n, NEW k \in 1..n, s[j] = s[k] PROVE j = k
  <2>1. CASE j < k
    BY <1>1, <1>3, <2>1
  <2>2. CASE k < j
    BY <1>1, <1>3, <2>2
  <2> QED BY <2>1, <2>2
<1>4. below = {s[j] : j \in 1..(i - 1)}
  <2>1. ASSUME NEW x \in below PROVE x \in {s[j] : j \in 1..(i - 1)}
    <3>1. PICK j \in 1..n : x = s[j] /\ <<s[j], s[i]>> \in R
      BY DEF Below, Members
    <3>2. j \in 1..(i - 1)
      BY <1>2, <3>1
    <3> QED BY <3>1, <3>2
  <2>2. ASSUME NEW j \in 1..(i - 1) PROVE s[j] \in below
    <3>1. j \in 1..n /\ j < i
      OBVIOUS
    <3>2. <<s[j], s[i]>> \in R
      BY <1>2, <3>1
    <3> QED BY <3>1, <3>2 DEF Below, Members
  <2> QED BY <2>1, <2>2
<1> HIDE DEF below
<1>5. f \in Bijection(1..(i - 1), below)
  <2>1. f \in [1..(i - 1) -> below] /\ \A j \in 1..(i - 1) : f[j] = s[j] /\ j \in 1..n
    BY <1>4
  <2> HIDE DEF f
  <2>2. IsInjective(f)
    BY <1>3, <2>1 DEF IsInjective
  <2>3. f \in Injection(1..(i - 1), below)
    BY <2>1, <2>2 DEF Injection
  <2>4. f \in Surjection(1..(i - 1), below)
    BY <1>4, <2>1 DEF Surjection
  <2> QED BY <2>3, <2>4 DEF Bijection
<1>6. IsFiniteSet(1..(i - 1)) /\ Cardinality(1..(i - 1)) = i - 1
  BY FS_Interval
<1> HIDE DEF f
<1>7. ExistsBijection(1..(i - 1), below)
  BY <1>5 DEF ExistsBijection
<1>8. IsFiniteSet(below) /\ Cardinality(below) = i - 1
  BY <1>6, <1>7, FS_Bijection
<1> QED BY <1>8 DEF below

(* Increasing sequences of the same members are the same sequence.           *)
LEMMA OneAscent ==
  ASSUME NEW T, NEW R, StrictOrder(R, T),
         NEW n \in Nat, NEW s \in [1..n -> T], Increasing(R, n, s),
         NEW m \in Nat, NEW t \in [1..m -> T], Increasing(R, m, t),
         Members(n, s) = Members(m, t)
  PROVE  n = m /\ s = t
<1>1. Ranked(R, n, s)
  BY Ascending, Zenon
<1>2. Ranked(R, m, t)
  BY Ascending, Zenon
<1>3. /\ \A i \in 1..n : \E j \in 1..m : s[i] = t[j]
      /\ \A i \in 1..m : \E j \in 1..n : s[j] = t[i]
  BY DEF Members
<1>4. \A i \in 1..n, j \in 1..m : s[i] = t[j] => i = j
  BY <1>1, <1>2 DEF Ranked
<1>5. \A i \in 1..n : i \in 1..m /\ s[i] = t[i]
  BY <1>3, <1>4
<1>6. \A i \in 1..m : i \in 1..n
  BY <1>3, <1>4
<1>7. n <= m
  BY <1>5
<1>8. m <= n
  BY <1>6
<1> QED BY <1>5, <1>7, <1>8
=============================================================================
