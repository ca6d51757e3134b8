--------------------------- MODULE SubsequenceProofs ---------------------------
(***************************************************************************)
(* What can be said of every subsequence: its elements, its length and     *)
(* that no position is taken twice.                                        *)
(*                                                                         *)
(* There is no induction in it.  The k-th position is the least one with k *)
(* or more of the positions up to it: the one before it has fewer, so that *)
(* it adds itself and nothing else.                                        *)
(***************************************************************************)
EXTENDS Subsequences, SequencesExt, FiniteSetTheorems, WellFoundedInduction, TLAPS

(* A set of numbers that is not empty has a least one. *)
LEMMA LeastNumber ==
  ASSUME NEW S \in SUBSET Nat, S # {}
  PROVE  \E n \in S : \A m \in S : n <= m
<1>1. PICK n \in S : \A m \in S : ~ (<<m, n>> \in OpToRel(<, Nat))
  BY WFMin, NatLessThanWellFounded, Zenon
<1>2. ASSUME NEW m \in S PROVE n <= m
  <2>1. ~ (m < n) BY <1>1, <1>2 DEF OpToRel
  <2>2. QED BY <2>1
<1>3. QED BY <1>2

(* A set of positions is finite, and has its subsets' numbers. *)
LEMMA PositionsFinite ==
  ASSUME NEW m \in Nat, NEW D \in SUBSET (1..m)
  PROVE  /\ IsFiniteSet(D) /\ Cardinality(D) \in 0..m
         /\ \A T \in SUBSET D : IsFiniteSet(T) /\ Cardinality(T) \in Nat
                                /\ Cardinality(T) <= Cardinality(D)
<1>1. IsFiniteSet(1..m) /\ Cardinality(1..m) = m BY FS_Interval
<1>2. IsFiniteSet(D) /\ Cardinality(D) <= m /\ Cardinality(D) \in Nat
  BY <1>1, FS_Subset, FS_CardinalityType
<1>3. ASSUME NEW T \in SUBSET D
      PROVE  IsFiniteSet(T) /\ Cardinality(T) \in Nat /\ Cardinality(T) <= Cardinality(D)
  BY <1>2, FS_Subset, FS_CardinalityType
<1>4. QED BY <1>2, <1>3

(* Every rank up to the number of positions is taken ... *)
LEMMA NthIs ==
  ASSUME NEW m \in Nat, NEW D \in SUBSET (1..m), NEW k \in 1..Cardinality(D)
  PROVE  Nth(D, k) \in D /\ Rank(D, Nth(D, k)) = k
<1> DEFINE Upto(i) == {j \in D : j <= i}
           Far == {i \in 1..m : Cardinality(Upto(i)) >= k}
<1>1. Cardinality(D) \in 0..m /\ k \in Nat /\ k >= 1 /\ k <= Cardinality(D)
  BY PositionsFinite
<1>0. \A j \in D : j \in Nat /\ 1 <= j /\ j <= m OBVIOUS
<1>2. m \in Far
  <2>1. Upto(m) = D BY <1>0
  <2>2. QED BY <1>1, <2>1
<1> HIDE DEF Upto
<1>3. PICK i \in Far : \A o \in Far : i <= o
  <2>1. Far \in SUBSET Nat OBVIOUS
  <2> HIDE DEF Far
  <2>2. QED BY <1>2, <2>1, LeastNumber
<1>4. i \in 1..m /\ Cardinality(Upto(i)) >= k OBVIOUS
<1>5. /\ IsFiniteSet(Upto(i - 1)) /\ Cardinality(Upto(i - 1)) \in Nat
      /\ Cardinality(Upto(i - 1)) < k
  <2>1. IsFiniteSet(Upto(i - 1)) /\ Cardinality(Upto(i - 1)) \in Nat
    <3>1. Upto(i - 1) \in SUBSET D BY DEF Upto
    <3>2. QED BY <3>1, PositionsFinite
  <2>2. CASE i = 1
    <3>1. \A j \in D : ~(j <= i - 1) BY <1>0, <2>2
    <3>2. Upto(i - 1) = {} BY <3>1 DEF Upto
    <3>3. QED BY <1>1, <2>1, <3>2, FS_EmptySet
  <2>3. CASE i # 1
    <3>1. i - 1 \in 1..m /\ ~(i <= i - 1) BY <1>4, <2>3
    <3>2. i - 1 \notin Far BY <1>3, <3>1
    <3>3. QED BY <1>1, <2>1, <3>1, <3>2
  <2>4. QED BY <2>2, <2>3
<1>6. CASE i \in D
  <2>0. /\ \A j \in D : j <= i <=> (j <= i - 1 \/ j = i)
        /\ ~(i <= i - 1)
    BY <1>0, <1>4
  <2>1. Upto(i) = Upto(i - 1) \cup {i} /\ i \notin Upto(i - 1)
    BY <1>6, <2>0 DEF Upto
  <2>2. Cardinality(Upto(i)) = Cardinality(Upto(i - 1)) + 1 BY <1>5, <2>1, FS_AddElement
  <2>3. Cardinality(Upto(i)) = k BY <1>1, <1>4, <1>5, <2>2
  <2>4. \E o \in D : Rank(D, o) = k BY <1>6, <2>3 DEF Rank, Upto
  <2>5. QED BY <2>4 DEF Nth
<1>7. CASE i \notin D
  <2>0. \A j \in D : j <= i <=> j <= i - 1 BY <1>0, <1>4, <1>7
  <2>1. Upto(i) = Upto(i - 1) BY <2>0 DEF Upto
  <2>2. QED BY <1>1, <1>4, <1>5, <2>1
<1>8. QED BY <1>6, <1>7

(* ... and taken by one position only. *)
LEMMA RankIs ==
  ASSUME NEW m \in Nat, NEW D \in SUBSET (1..m), NEW i \in D
  PROVE  Rank(D, i) \in 1..Cardinality(D) /\ Nth(D, Rank(D, i)) = i
<1> DEFINE Upto(o) == {j \in D : j <= o}
<1>1. \A o \in D : /\ Upto(o) \in SUBSET D /\ IsFiniteSet(Upto(o))
                   /\ Cardinality(Upto(o)) \in 0..Cardinality(D)
  BY PositionsFinite
<1>2. ASSUME NEW o \in D, NEW p \in D, o < p
      PROVE  Cardinality(Upto(o)) < Cardinality(Upto(p))
  <2>0. /\ \A j \in D : j <= o => j <= p
        /\ p <= p /\ ~(p <= o)
    <3>1. o \in Nat /\ p \in Nat /\ \A j \in D : j \in Nat OBVIOUS
    <3>2. QED BY <1>2, <3>1
  <2>1. Upto(o) \cup {p} \in SUBSET Upto(p) /\ p \notin Upto(o) BY <2>0
  <2> HIDE DEF Upto
  <2>2. /\ Cardinality(Upto(o) \cup {p}) = Cardinality(Upto(o)) + 1
    BY <1>1, <2>1, FS_AddElement
  <2>3. Cardinality(Upto(o) \cup {p}) <= Cardinality(Upto(p)) BY <1>1, <2>1, FS_Subset
  <2>4. Cardinality(D) \in Nat BY PositionsFinite
  <2>5. QED BY <1>1, <2>2, <2>3, <2>4
<1>3. Cardinality(Upto(i)) # 0
  <2>1. i \in Upto(i) OBVIOUS
  <2> HIDE DEF Upto
  <2>2. QED BY <1>1, <2>1, FS_EmptySet
<1> HIDE DEF Upto
<1>4. Rank(D, i) \in 1..Cardinality(D)
  <2>1. Rank(D, i) = Cardinality(Upto(i)) BY DEF Rank, Upto
  <2>2. Cardinality(D) \in Nat BY PositionsFinite
  <2>3. QED BY <1>1, <1>3, <2>1, <2>2
<1>5. Nth(D, Rank(D, i)) \in D /\ Rank(D, Nth(D, Rank(D, i))) = Rank(D, i)
  BY <1>4, NthIs
<1>6. ASSUME NEW p \in D, Rank(D, p) = Rank(D, i) PROVE p = i
  <2>1. Cardinality(Upto(p)) = Cardinality(Upto(i)) BY <1>6 DEF Rank, Upto
  <2>2. i \in Nat /\ p \in Nat /\ Cardinality(D) \in Nat BY PositionsFinite
  <2>3. ~(p < i) /\ ~(i < p) BY <1>1, <1>2, <2>1, <2>2
  <2>4. QED BY <2>2, <2>3
<1>7. QED BY <1>4, <1>5, <1>6

(* A subsequence has the elements of its positions and no more, each        *)
(* position once.                                                           *)
LEMMA PickedIs ==
  ASSUME NEW S, NEW s \in Seq(S), NEW D \in SUBSET (1..Len(s))
  PROVE  /\ Picked(s, D) \in Seq(S)
         /\ Len(Picked(s, D)) = Cardinality(D) /\ Cardinality(D) <= Len(s)
         /\ \A k \in 1..Len(Picked(s, D)) :
              Nth(D, k) \in D /\ Picked(s, D)[k] = s[Nth(D, k)]
         /\ \A k, l \in 1..Len(Picked(s, D)) : Nth(D, k) = Nth(D, l) => k = l
         /\ ToSet(Picked(s, D)) = {s[i] : i \in D}
<1> DEFINE n == Cardinality(D)
           q == Picked(s, D)
<1>1. n \in Nat /\ n <= Len(s) /\ Len(s) \in Nat BY PositionsFinite
<1>2. \A k \in 1..n : Nth(D, k) \in D /\ Rank(D, Nth(D, k)) = k BY <1>1, NthIs
<1> HIDE DEF n
<1>3. q = [k \in 1..n |-> s[Nth(D, k)]] BY DEF Picked, n
<1> HIDE DEF q
<1>4. \A i \in D : s[i] \in S OBVIOUS
<1>5. q \in [1..n -> S] BY <1>2, <1>3, <1>4
<1>6. q \in Seq(S) /\ Len(q) = n /\ DOMAIN q = 1..n BY <1>1, <1>5
<1>7. \A k \in 1..n : q[k] = s[Nth(D, k)] BY <1>3
<1>8. ToSet(q) = {s[i] : i \in D}
  <2>1. ASSUME NEW i \in D PROVE s[i] \in ToSet(q)
    <3>1. Rank(D, i) \in 1..n /\ Nth(D, Rank(D, i)) = i BY <1>1, RankIs DEF n
    <3>2. q[Rank(D, i)] = s[i] BY <1>7, <3>1
    <3>3. QED BY <1>6, <3>1, <3>2 DEF ToSet
  <2>2. ASSUME NEW x \in ToSet(q) PROVE \E i \in D : x = s[i]
    BY <1>2, <1>6, <1>7, <2>2 DEF ToSet
  <2>3. QED BY <2>1, <2>2
<1>9. QED BY <1>1, <1>2, <1>6, <1>7, <1>8 DEF n, q
-----------------------------------------------------------------------------
(* What an appended sequence is made of. *)
LEMMA AppendSet ==
  ASSUME NEW S, NEW q \in Seq(S), NEW i \in S
  PROVE  Append(q, i) \in Seq(S) /\ ToSet(Append(q, i)) = ToSet(q) \cup {i}
<1>1. Append(q, i) \in Seq(S) OBVIOUS
<1>2. ToSet(q) \cup {i} \subseteq ToSet(Append(q, i))
  <2>1. ASSUME NEW x \in ToSet(q) PROVE x \in ToSet(Append(q, i))
    <3>1. PICK k \in 1..Len(q) : x = q[k] BY <2>1 DEF ToSet
    <3>2. k \in 1..Len(Append(q, i)) /\ Append(q, i)[k] = x BY <3>1
    <3>3. QED BY <3>2 DEF ToSet
  <2>2. i \in ToSet(Append(q, i))
    <3>1. Len(q) + 1 \in 1..Len(Append(q, i)) /\ Append(q, i)[Len(q) + 1] = i OBVIOUS
    <3>2. QED BY <3>1 DEF ToSet
  <2>3. QED BY <2>1, <2>2
<1>3. ToSet(Append(q, i)) \subseteq ToSet(q) \cup {i}
  <2>1. SUFFICES ASSUME NEW k \in 1..Len(q) + 1 PROVE Append(q, i)[k] \in ToSet(q) \cup {i}
    BY DEF ToSet
  <2>2. CASE k = Len(q) + 1 BY <2>2
  <2>3. CASE k # Len(q) + 1
    <3>1. k \in 1..Len(q) /\ Append(q, i)[k] = q[k] BY <2>3
    <3>2. QED BY <3>1 DEF ToSet
  <2>4. QED BY <2>2, <2>3
<1>4. QED BY <1>1, <1>2, <1>3

(* What the rest of a sequence is made of. *)
LEMMA TailSet ==
  ASSUME NEW S, NEW q \in Seq(S), q # <<>>
  PROVE  /\ Head(q) \in S /\ Tail(q) \in Seq(S) /\ Len(Tail(q)) = Len(q) - 1
         /\ Head(q) \in ToSet(q) /\ ToSet(q) = {Head(q)} \cup ToSet(Tail(q))
<1>1. /\ Head(q) \in S /\ Tail(q) \in Seq(S) /\ Len(Tail(q)) = Len(q) - 1
      /\ \A k \in 1..Len(Tail(q)) : Tail(q)[k] = q[k + 1]
      /\ Head(q) = q[1] /\ Len(q) \in Nat \ {0} /\ 1 \in 1..Len(q)
      /\ DOMAIN q = 1..Len(q) /\ DOMAIN Tail(q) = 1..Len(Tail(q))
  OBVIOUS
<1>2. ASSUME NEW k \in 1..Len(q) PROVE q[k] \in {Head(q)} \cup ToSet(Tail(q))
  <2>1. CASE k = 1 BY <1>1, <2>1
  <2>2. CASE k # 1
    <3>1. k - 1 \in 1..Len(Tail(q)) BY <1>1, <2>2
    <3>2. Tail(q)[k - 1] = q[(k - 1) + 1] BY <1>1, <3>1
    <3>3. (k - 1) + 1 = k OBVIOUS
    <3>4. QED BY <1>1, <3>1, <3>2, <3>3 DEF ToSet
  <2>3. QED BY <2>1, <2>2
<1>3. ASSUME NEW k \in 1..Len(Tail(q)) PROVE Tail(q)[k] \in ToSet(q)
  <2>1. k + 1 \in 1..Len(q) /\ Tail(q)[k] = q[k + 1] BY <1>1
  <2>2. QED BY <1>1, <2>1 DEF ToSet
<1>4. Head(q) \in ToSet(q) BY <1>1 DEF ToSet
<1>5. ToSet(q) = {Head(q)} \cup ToSet(Tail(q)) BY <1>1, <1>2, <1>3, <1>4 DEF ToSet
<1>6. QED BY <1>1, <1>4, <1>5

(* There are at most as many elements as there are positions. *)
LEMMA SetOfSeq ==
  ASSUME NEW S, NEW q \in Seq(S)
  PROVE  /\ ToSet(q) \in SUBSET S /\ IsFiniteSet(ToSet(q))
         /\ Cardinality(ToSet(q)) \in 0..Len(q)
<1>1. q \in [1..Len(q) -> S] /\ Len(q) \in Nat OBVIOUS
<1>2. q \in [1..Len(q) -> ToSet(q)] /\ \A x \in ToSet(q) : \E k \in 1..Len(q) : q[k] = x
  BY <1>1 DEF ToSet
<1>3. q \in Surjection(1..Len(q), ToSet(q)) BY <1>2 DEF Surjection
<1>4. IsFiniteSet(1..Len(q)) /\ Cardinality(1..Len(q)) = Len(q)
  <2>1. \A n \in Nat : IsFiniteSet(1..n) /\ Cardinality(1..n) = n BY FS_Interval
  <2>2. QED BY <1>1, <2>1
<1>5. IsFiniteSet(ToSet(q)) /\ Cardinality(ToSet(q)) <= Len(q)
  BY <1>3, <1>4, FS_Surjection
<1>6. Cardinality(ToSet(q)) \in Nat BY <1>5, FS_CardinalityType
<1>7. QED BY <1>1, <1>5, <1>6 DEF ToSet
=============================================================================
