------------------------------ MODULE FaceProofs ------------------------------
(***************************************************************************)
(* The Hungarian method of core/association.py, for every number of tracks *)
(* and faces and every costs of their pairs: its pairs are a matching, and *)
(* no other matching costs less.  The module ends with the sum of all      *)
(* components that follow subjects, as the run subjects checks it: its     *)
(* other parts are proved of in SubjectProofs.                             *)
(***************************************************************************)
EXTENDS MCSubjects, SubjectProofs

(***************************************************************************)
(* Sums over finite sets.  SumFunctionOnSet takes the elements in the      *)
(* order in which CHOOSE finds them; a sum does not depend on the order.   *)
(***************************************************************************)
Folded(g, f, S) ==
  g = [s \in SUBSET S |-> IF s = {} THEN 0
                          ELSE f[CHOOSE x \in s : TRUE] + g[s \ {CHOOSE x \in s : TRUE}]]

Additive(g, f, S) ==
  /\ g \in [SUBSET S -> Int] /\ g[{}] = 0
  /\ \A s \in SUBSET S : \A x \in s : g[s] = f[x] + g[s \ {x}]

LEMMA FewerWithout ==
  ASSUME NEW S, IsFiniteSet(S), NEW s \in SUBSET S, NEW x \in s
  PROVE  /\ s \ {x} \in SUBSET S /\ Cardinality(s) \in Nat \ {0}
         /\ Cardinality(s \ {x}) = Cardinality(s) - 1
<1>1. IsFiniteSet(s) BY FS_Subset
<1>2. Cardinality(s) \in Nat /\ Cardinality(s \ {x}) = Cardinality(s) - 1 /\ Cardinality(s \ {x}) \in Nat
  BY <1>1, FS_RemoveElement, FS_CardinalityType
<1>3. QED BY <1>2

LEMMA FoldExists ==
  ASSUME NEW S, IsFiniteSet(S), NEW f \in [S -> Int]
  PROVE  \E g : Folded(g, f, S)
<1> DEFINE AnyOf(s) == CHOOSE x \in s : TRUE
           Upto(n) == {s \in SUBSET S : Cardinality(s) <= n}
           Good(g, n) == \A s \in Upto(n) : g[s] = IF s = {} THEN 0 ELSE f[AnyOf(s)] + g[s \ {AnyOf(s)}]
           Bad == {n \in Nat : ~ \E g \in [Upto(n) -> Int] : Good(g, n)}
<1>1. \A s \in SUBSET S : s # {} => AnyOf(s) \in s OBVIOUS
<1> HIDE DEF AnyOf
<1>2. Bad = {}
  <2>1. SUFFICES ASSUME Bad # {} PROVE FALSE OBVIOUS
  <2>2. PICK n \in Bad : \A m \in Bad : n <= m
    <3>1. Bad \in SUBSET Nat OBVIOUS
    <3>2. QED BY <2>1, <3>1, LeastNumber
  <2>3. CASE n = 0
    <3>1. \A s \in Upto(0) : s = {}
      <4>1. SUFFICES ASSUME NEW s \in Upto(0), s # {} PROVE FALSE OBVIOUS
      <4>2. PICK x \in s : TRUE BY <4>1
      <4>3. Cardinality(s) \in Nat \ {0} BY <4>1, <4>2, FewerWithout
      <4>4. QED BY <4>1, <4>3
    <3>2. [s \in Upto(0) |-> 0] \in [Upto(0) -> Int] /\ Good([s \in Upto(0) |-> 0], 0) BY <3>1
    <3>3. QED BY <2>2, <2>3, <3>2
  <2>4. CASE n # 0
    <3>1. n - 1 \in Nat /\ n - 1 \notin Bad
      <4>1. n \in Nat OBVIOUS
      <4> HIDE DEF Bad
      <4>2. QED BY <2>2, <2>4, <4>1
    <3>2. PICK g \in [Upto(n - 1) -> Int] : Good(g, n - 1) BY <3>1
    <3> DEFINE h == [s \in Upto(n) |-> IF s = {} THEN 0 ELSE f[AnyOf(s)] + g[s \ {AnyOf(s)}]]
    <3>3. ASSUME NEW s \in Upto(n), s # {} PROVE s \ {AnyOf(s)} \in Upto(n - 1) /\ AnyOf(s) \in S
      <4>1. AnyOf(s) \in s BY <1>1, <3>3
      <4>2. /\ s \ {AnyOf(s)} \in SUBSET S /\ Cardinality(s) \in Nat
            /\ Cardinality(s \ {AnyOf(s)}) = Cardinality(s) - 1
        BY <4>1, FewerWithout
      <4>3. QED BY <2>2, <4>1, <4>2
    <3>4. h \in [Upto(n) -> Int]
      <4>1. ASSUME NEW s \in Upto(n)
            PROVE  (IF s = {} THEN 0 ELSE f[AnyOf(s)] + g[s \ {AnyOf(s)}]) \in Int
        <5>1. CASE s = {} BY <5>1
        <5>2. CASE s # {}
          <6>1. f[AnyOf(s)] \in Int /\ g[s \ {AnyOf(s)}] \in Int BY <3>2, <3>3, <5>2
          <6>2. QED BY <5>2, <6>1
        <5>3. QED BY <5>1, <5>2
      <4> HIDE DEF Upto
      <4>2. QED BY <4>1
    <3>5. \A s \in Upto(n - 1) : s \in Upto(n) /\ h[s] = g[s]
      <4>1. SUFFICES ASSUME NEW s \in Upto(n - 1) PROVE s \in Upto(n) /\ h[s] = g[s] OBVIOUS
      <4>2. Cardinality(s) \in Nat BY FS_Subset, FS_CardinalityType
      <4>3. s \in Upto(n) BY <2>2, <4>2
      <4>4. g[s] = IF s = {} THEN 0 ELSE f[AnyOf(s)] + g[s \ {AnyOf(s)}] BY <3>2
      <4>5. h[s] = IF s = {} THEN 0 ELSE f[AnyOf(s)] + g[s \ {AnyOf(s)}] BY <4>3, Zenon
      <4>6. QED BY <4>3, <4>4, <4>5
    <3>6. Good(h, n)
      <4>1. SUFFICES ASSUME NEW s \in Upto(n)
                     PROVE  h[s] = IF s = {} THEN 0 ELSE f[AnyOf(s)] + h[s \ {AnyOf(s)}]
        BY Zenon
      <4>2. h[s] = IF s = {} THEN 0 ELSE f[AnyOf(s)] + g[s \ {AnyOf(s)}] BY Zenon
      <4>3. s # {} => h[s \ {AnyOf(s)}] = g[s \ {AnyOf(s)}] BY <3>3, <3>5
      <4> HIDE DEF h
      <4>4. QED BY <4>2, <4>3
    <3>7. QED BY <2>2, <3>4, <3>6
  <2>5. QED BY <2>3, <2>4
<1>3. Cardinality(S) \in Nat /\ Upto(Cardinality(S)) = SUBSET S
  <2>1. \A s \in SUBSET S : Cardinality(s) <= Cardinality(S) BY FS_Subset
  <2>2. QED BY <2>1, FS_CardinalityType
<1>4. PICK g \in [SUBSET S -> Int] : Good(g, Cardinality(S)) BY <1>2, <1>3
<1>5. \A s \in SUBSET S : g[s] = IF s = {} THEN 0 ELSE f[AnyOf(s)] + g[s \ {AnyOf(s)}]
  BY <1>3, <1>4
<1>6. QED BY <1>4, <1>5 DEF Folded, AnyOf

LEMMA FoldAdds ==
  ASSUME NEW S, IsFiniteSet(S), NEW f \in [S -> Int], NEW g, Folded(g, f, S)
  PROVE  Additive(g, f, S)
<1> DEFINE AnyOf(s) == CHOOSE x \in s : TRUE
           Good(s) == g[s] \in Int /\ \A x \in s : g[s] = f[x] + g[s \ {x}]
           Bad == {n \in Nat : \E s \in SUBSET S : Cardinality(s) = n /\ ~Good(s)}
<1>1. \A s \in SUBSET S : s # {} => AnyOf(s) \in s OBVIOUS
<1>2. \A s \in SUBSET S : g[s] = IF s = {} THEN 0 ELSE f[AnyOf(s)] + g[s \ {AnyOf(s)}]
  BY Zenon DEF Folded
<1> HIDE DEF AnyOf
<1>3. Bad = {}
  <2>1. SUFFICES ASSUME Bad # {} PROVE FALSE OBVIOUS
  <2>2. PICK n \in Bad : \A m \in Bad : n <= m
    <3>1. Bad \in SUBSET Nat OBVIOUS
    <3>2. QED BY <2>1, <3>1, LeastNumber
  <2>3. PICK s \in SUBSET S : Cardinality(s) = n /\ ~Good(s) OBVIOUS
  <2>4. \A x \in s : Good(s \ {x})
    <3>1. SUFFICES ASSUME NEW x \in s PROVE Good(s \ {x}) OBVIOUS
    <3>2. s \ {x} \in SUBSET S /\ Cardinality(s) \in Nat \ {0} /\ Cardinality(s \ {x}) = Cardinality(s) - 1
      BY <3>1, FewerWithout
    <3>3. n - 1 \in Nat /\ n - 1 \notin Bad BY <2>2, <2>3, <3>2
    <3>4. QED BY <2>3, <3>2, <3>3
  <2>5. CASE s = {}
    <3>1. g[s] = 0 BY <1>2, <2>5, Zenon
    <3>2. Good(s) BY <2>5, <3>1
    <3>3. QED BY <2>3, <3>2
  <2>6. CASE s # {}
    <3> DEFINE y == AnyOf(s)
    <3>1. y \in s /\ y \in S /\ g[s] = f[y] + g[s \ {y}] BY <1>1, <1>2, <2>6
    <3> HIDE DEF y
    <3>2. g[s \ {y}] \in Int /\ f[y] \in Int BY <2>4, <3>1
    <3>3. ASSUME NEW x \in s PROVE g[s] = f[x] + g[s \ {x}]
      <4>1. CASE x = y BY <3>1, <4>1
      <4>2. CASE x # y
        <5>1. g[s \ {y}] = f[x] + g[(s \ {y}) \ {x}] BY <2>4, <3>1, <3>3, <4>2
        <5>2. g[s \ {x}] = f[y] + g[(s \ {x}) \ {y}] BY <2>4, <3>1, <3>3, <4>2
        <5>3. (s \ {x}) \ {y} = (s \ {y}) \ {x} OBVIOUS
        <5>4. f[x] \in Int /\ g[s \ {x}] \in Int BY <2>4, <3>3
        <5>5. g[(s \ {y}) \ {x}] \in Int
          <6>1. (s \ {y}) \ {x} \in SUBSET S OBVIOUS
          <6>2. s \ {y} \in SUBSET S /\ Cardinality(s \ {y}) = Cardinality(s) - 1 /\ Cardinality(s) \in Nat \ {0}
            BY <3>1, FewerWithout
          <6>3. /\ Cardinality(s \ {y}) \in Nat \ {0}
                /\ Cardinality((s \ {y}) \ {x}) = Cardinality(s \ {y}) - 1
            <7>1. x \in s \ {y} BY <3>3, <4>2
            <7>2. QED BY <6>2, <7>1, FewerWithout
          <6>4. n - 2 \in Nat /\ n - 2 \notin Bad BY <2>2, <2>3, <6>2, <6>3
          <6>5. Cardinality((s \ {y}) \ {x}) = n - 2 BY <2>3, <6>2, <6>3
          <6>6. QED BY <6>1, <6>4, <6>5
        <5>6. g[(s \ {x}) \ {y}] = g[(s \ {y}) \ {x}] BY <5>3
        <5> DEFINE p == g[(s \ {y}) \ {x}]
        <5>7. g[s] = f[y] + g[s \ {y}] /\ g[s \ {y}] = f[x] + p /\ g[s \ {x}] = f[y] + p
          BY <3>1, <5>1, <5>2, <5>6
        <5>8. p \in Int BY <5>5
        <5> HIDE DEF p
        <5>9. QED BY <3>2, <5>4, <5>7, <5>8
      <4>3. QED BY <4>1, <4>2
    <3>4. g[s] \in Int BY <3>1, <3>2
    <3>5. QED BY <2>3, <3>3, <3>4
  <2>7. QED BY <2>5, <2>6
<1>4. ASSUME NEW s \in SUBSET S PROVE Good(s)
  <2>1. Cardinality(s) \in Nat BY FS_Subset, FS_CardinalityType
  <2>2. QED BY <1>3, <2>1
<1>5. DOMAIN g = SUBSET S /\ g = [s \in SUBSET S |-> g[s]] BY Zenon DEF Folded
<1>6. g \in [SUBSET S -> Int] BY <1>4, <1>5
<1>7. g[{}] = 0 BY <1>2
<1>8. QED BY <1>4, <1>6, <1>7 DEF Additive

LEMMA SumIs ==
  ASSUME NEW S, IsFiniteSet(S), NEW f \in [S -> Int]
  PROVE  \E g : Additive(g, f, S) /\ SumFunctionOnSet(f, S) = g[S]
<1>1. PICK it :
         /\ it = CHOOSE g : g = [s \in SUBSET S |->
                                   IF s = {} THEN 0
                                   ELSE f[CHOOSE x \in s : TRUE] + g[s \ {CHOOSE x \in s : TRUE}]]
         /\ SumFunctionOnSet(f, S) = it[S]
  BY DEF SumFunctionOnSet, FoldFunctionOnSet, MapThenFoldSet
<1>2. Folded(it, f, S)
  <2>1. \E g : g = [s \in SUBSET S |-> IF s = {} THEN 0
                                       ELSE f[CHOOSE x \in s : TRUE] + g[s \ {CHOOSE x \in s : TRUE}]]
    <3>1. PICK g : Folded(g, f, S) BY FoldExists
    <3>2. QED BY <3>1, Zenon DEF Folded
  <2>2. it = [s \in SUBSET S |-> IF s = {} THEN 0
                                 ELSE f[CHOOSE x \in s : TRUE] + it[s \ {CHOOSE x \in s : TRUE}]]
    BY <1>1, <2>1, Zenon
  <2>3. QED BY <2>2, Zenon DEF Folded
<1>3. QED BY <1>1, <1>2, FoldAdds

(* What is chosen one by one adds up. *)
Choice(r, Q, m, w, u, v) ==
  /\ r \in Nat /\ m \in [1..r -> Q] /\ \A i, k \in 1..r : m[i] = m[k] => i = k
  /\ w \in [1..r -> Int] /\ u \in [1..r -> Int] /\ v \in [Q -> Int]
  /\ \A i \in 1..r : w[i] >= u[i] + v[m[i]]

LEMMA SumOfChosen ==
  ASSUME NEW r, NEW Q, NEW m, NEW w, NEW u, NEW v, Choice(r, Q, m, w, u, v),
         NEW a, Additive(a, w, 1..r), NEW b, Additive(b, u, 1..r), NEW d, Additive(d, v, Q)
  PROVE  /\ a[1..r] >= b[1..r] + d[{m[i] : i \in 1..r}]
         /\ (\A i \in 1..r : w[i] = u[i] + v[m[i]]) => a[1..r] = b[1..r] + d[{m[i] : i \in 1..r}]
<1> DEFINE Chosen(n) == {m[i] : i \in 1..n}
           Good(n) == /\ a[1..n] >= b[1..n] + d[Chosen(n)]
                      /\ (\A i \in 1..r : w[i] = u[i] + v[m[i]]) => a[1..n] = b[1..n] + d[Chosen(n)]
           Bad == {n \in Nat : n <= r /\ ~Good(n)}
<1>0. /\ r \in Nat /\ m \in [1..r -> Q] /\ \A i, k \in 1..r : m[i] = m[k] => i = k
      /\ w \in [1..r -> Int] /\ u \in [1..r -> Int] /\ v \in [Q -> Int]
      /\ \A i \in 1..r : w[i] >= u[i] + v[m[i]]
  BY DEF Choice
<1>1. Bad = {}
  <2>1. SUFFICES ASSUME Bad # {} PROVE FALSE OBVIOUS
  <2>2. PICK n \in Bad : \A k \in Bad : n <= k
    <3>1. Bad \in SUBSET Nat OBVIOUS
    <3>2. QED BY <2>1, <3>1, LeastNumber
  <2>3. CASE n = 0
    <3>1. 1..n = {} /\ Chosen(n) = {} BY <2>3
    <3>2. a[{}] = 0 /\ b[{}] = 0 /\ d[{}] = 0 BY DEF Additive
    <3>3. Good(n)
      <4>1. a[1..n] = 0 /\ b[1..n] = 0 /\ d[Chosen(n)] = 0 BY <3>1, <3>2, Zenon
      <4> HIDE DEF Chosen
      <4>2. QED BY <4>1
    <3>4. QED BY <2>2, <3>3
  <2>4. CASE n # 0
    <3>1. n - 1 \in Nat /\ n - 1 <= r /\ n \in 1..r /\ Good(n - 1)
      <4>1. n \in Nat /\ n <= r BY <1>0
      <4>2. n - 1 \in Nat /\ n - 1 <= r /\ n \in 1..r /\ ~(n <= n - 1) BY <1>0, <2>4, <4>1
      <4>3. n - 1 \notin Bad BY <2>2, <4>2, Zenon
      <4>4. QED BY <4>2, <4>3
    <3>2. 1..n \in SUBSET (1..r) /\ n \in 1..n /\ (1..n) \ {n} = 1..n - 1
      <4>1. r \in Nat /\ n \in Nat BY <1>0, <3>1
      <4>2. QED BY <3>1, <4>1
    <3>3. Chosen(n) \in SUBSET Q /\ m[n] \in Chosen(n) /\ Chosen(n) \ {m[n]} = Chosen(n - 1) BY <1>0, <3>1, <3>2
    <3>4. a[1..n] = w[n] + a[1..n - 1] /\ b[1..n] = u[n] + b[1..n - 1]
      <4>1. a[1..n] = w[n] + a[(1..n) \ {n}] /\ b[1..n] = u[n] + b[(1..n) \ {n}] BY <3>2, Zenon DEF Additive
      <4>2. QED BY <3>2, <4>1, Zenon
    <3>5. d[Chosen(n)] = v[m[n]] + d[Chosen(n - 1)]
      <4> HIDE DEF Chosen
      <4>1. d[Chosen(n)] = v[m[n]] + d[Chosen(n) \ {m[n]}] BY <3>3, Zenon DEF Additive
      <4>2. QED BY <3>3, <4>1, Zenon
    <3>6. /\ a[1..n - 1] \in Int /\ b[1..n - 1] \in Int /\ d[Chosen(n - 1)] \in Int
          /\ w[n] \in Int /\ u[n] \in Int /\ v[m[n]] \in Int
      <4>1. 1..n - 1 \in SUBSET (1..r) /\ Chosen(n - 1) \in SUBSET Q BY <3>2, <3>3
      <4> HIDE DEF Chosen
      <4>2. QED BY <1>0, <3>1, <4>1 DEF Additive
    <3>7. w[n] >= u[n] + v[m[n]] BY <1>0, <3>1
    <3>8. Good(n)
      <4> DEFINE p == a[1..n]
                 p1 == a[1..n - 1]
                 q == b[1..n]
                 q1 == b[1..n - 1]
                 e == d[Chosen(n)]
                 e1 == d[Chosen(n - 1)]
                 x == v[m[n]]
                 y == w[n]
                 z == u[n]
                 Equal == \A i \in 1..r : w[i] = u[i] + v[m[i]]
      <4>1. p1 >= q1 + e1 /\ (Equal => p1 = q1 + e1) BY <3>1
      <4>2. p = y + p1 /\ q = z + q1 /\ e = x + e1 BY <3>4, <3>5
      <4>3. y >= z + x /\ (Equal => y = z + x) BY <1>0, <3>1
      <4>4. p1 \in Int /\ q1 \in Int /\ e1 \in Int /\ y \in Int /\ z \in Int /\ x \in Int BY <3>6
      <4> HIDE DEF p, p1, q, q1, e, e1, x, y, z, Equal
      <4>5. p >= q + e /\ (Equal => p = q + e) BY <4>1, <4>2, <4>3, <4>4
      <4>6. QED BY <4>5 DEF p, q, e, Equal
    <3>9. QED BY <2>2, <3>8
  <2>5. QED BY <2>3, <2>4
<1>2. r <= r BY <1>0
<1>3. Good(r) BY <1>0, <1>1, <1>2
<1>4. QED BY <1>3

(* Of numbers that are not positive, more have no larger sum. *)
LEMMA SumOfMore ==
  ASSUME NEW Q, IsFiniteSet(Q), NEW v \in [Q -> Int], \A x \in Q : v[x] <= 0,
         NEW d, Additive(d, v, Q), NEW T \in SUBSET Q
  PROVE  /\ d[Q] \in Int /\ d[T] \in Int /\ d[Q] <= d[T]
         /\ (\A x \in Q \ T : v[x] = 0) => d[Q] = d[T]
<1> DEFINE Good(s) == d[s] \in Int /\ d[s] <= d[T] /\ ((\A x \in Q \ T : v[x] = 0) => d[s] = d[T])
           Bad == {n \in Nat : \E s \in SUBSET Q : T \subseteq s /\ Cardinality(s) = n /\ ~Good(s)}
<1>1. d[T] \in Int /\ Q \in SUBSET Q BY DEF Additive
<1>2. Bad = {}
  <2>1. SUFFICES ASSUME Bad # {} PROVE FALSE OBVIOUS
  <2>2. PICK n \in Bad : \A k \in Bad : n <= k
    <3>1. Bad \in SUBSET Nat OBVIOUS
    <3>2. QED BY <2>1, <3>1, LeastNumber
  <2>3. PICK s \in SUBSET Q : T \subseteq s /\ Cardinality(s) = n /\ ~Good(s) OBVIOUS
  <2>4. s # T BY <1>1, <2>3
  <2>5. PICK x \in s : x \notin T BY <2>3, <2>4
  <2>6. s \ {x} \in SUBSET Q /\ Cardinality(s) \in Nat \ {0} /\ Cardinality(s \ {x}) = Cardinality(s) - 1
    BY FewerWithout
  <2>7. n - 1 \in Nat /\ n - 1 \notin Bad BY <2>2, <2>3, <2>6
  <2>8. Good(s \ {x}) BY <2>3, <2>5, <2>6, <2>7
  <2>9. d[s] = v[x] + d[s \ {x}] /\ v[x] \in Int /\ v[x] <= 0 BY DEF Additive
  <2>10. Good(s) BY <1>1, <2>5, <2>8, <2>9
  <2>11. QED BY <2>3, <2>10
<1>3. Cardinality(Q) \in Nat BY FS_CardinalityType
<1>4. Good(Q) BY <1>2, <1>3
<1>5. QED BY <1>1, <1>4

(***************************************************************************)
(* Faces.  The potentials price every pair at its cost at most, and the    *)
(* pairs that are matched at their cost; a column that is not matched has  *)
(* the price 0.  While a path is searched, mins are the least distances    *)
(* from its rows, and links lead back to the row that is added, each over  *)
(* a pair that is priced at its cost.                                      *)
(***************************************************************************)
Single == faFrame.tracks = 1 /\ faFrame.faces = 1
Slack(i, j) == CostAt(i, j) - faU[i] - faV[j]
OnPath == faStep \in {"scan", "augment"}
Hole == IF faStep = "augment" THEN faMark[2] ELSE 0
Added == IF OnPath THEN 1..faRow - 1 ELSE 1..faRow
NewPath == faStep = "scan" /\ faSeen = {}
Taken == {j \in Columns : j # Hole /\ faP[j] # 0}
RowBefore(j) == IF j = 0 THEN faRow ELSE faP[j]

Feasible ==
  /\ \A j \in Columns : faV[j] <= 0 /\ (faP[j] = 0 => faV[j] = 0)
  /\ \A i \in 1..faRow, j \in Columns : (i = faRow => ~NewPath) => Slack(i, j) >= 0
  /\ \A i \in Rows : (i > faRow \/ (i = faRow /\ NewPath)) => faU[i] = 0

Matching ==
  /\ \A j \in Taken : faP[j] \in Added /\ Slack(faP[j], j) = 0
  /\ \A j, k \in Taken : faP[j] = faP[k] => j = k
  /\ \A i \in Added : \E j \in Taken : faP[j] = i

Scanning ==
  faStep = "scan" =>
    /\ faSeen \subseteq Taken
    /\ faMark[2] \in {0} \cup faSeen /\ faMark[1] = RowBefore(faMark[2])
    /\ faMark[2] = 0 <=> faSeen = {}
    /\ \A j \in Columns \ faSeen :
         /\ NewPath => faMins[j] = Infinity /\ faLinks[j] = 0
         /\ ~NewPath => /\ faLinks[j] \in {0} \cup faSeen
                      /\ faMins[j] = Slack(RowBefore(faLinks[j]), j)
         /\ \A k \in ({0} \cup faSeen) \ {faMark[2]} : faMins[j] <= Slack(RowBefore(k), j)

(* The links of what is still to be walked lead to the added row. *)
LeadsBack(rank, j) ==
  /\ faLinks[j] \in {0} \cup faSeen
  /\ faLinks[j] # 0 => rank[faLinks[j]] < rank[j] /\ faP[faLinks[j]] # 0
  /\ Slack(RowBefore(faLinks[j]), j) = 0

Path ==
  OnPath =>
    /\ Hole \in {0} \cup faSeen
    /\ \E rank \in [Columns -> Nat], n \in Nat :
       \A j \in faSeen : rank[j] < n /\ (Hole = 0 \/ rank[j] <= rank[Hole] => LeadsBack(rank, j))

Stages ==
  /\ OnPath => ~Single /\ faRow # 0
  /\ faStep = "augment" => Hole # 0
  /\ faStep \in {"link", "done"} => faRow + 1 \notin Rows
  /\ Single => faP = [j \in Columns |-> faRow]

FaceInv ==
  /\ FaceTypeOK /\ Stages
  /\ ~Single => Feasible /\ Matching /\ Scanning /\ Path

(* There are no more rows than columns. *)
LEMMA SizesAre ==
  ASSUME faFrame \in Frame
  PROVE  \E r, c \in Nat \ {0} : r <= c /\ Rows = 1..r /\ Columns = 1..c
<1>1. faFrame.tracks \in Nat \ {0} /\ faFrame.faces \in Nat \ {0} BY FaceAssumption
<1>2. QED BY <1>1 DEF Rows, Columns, Transposed, Tracks, Faces

LEMMA FarIs == FarCost \in Nat /\ FarCost > 100 /\ Infinity > 2 * FarCost + 100 /\ Infinity \in Nat
  BY SMT DEF FarCost, Infinity

LEMMA CostIs ==
  ASSUME faFrame \in Frame, NEW i \in Rows, NEW j \in Columns
  PROVE  CostAt(i, j) \in Int /\ CostAt(i, j) >= -30 /\ CostAt(i, j) <= FarCost
<1>1. ASSUME NEW t \in Tracks, NEW f \in Faces
      PROVE  PairCost(t, f) \in Int /\ PairCost(t, f) >= -30 /\ PairCost(t, f) <= FarCost
  <2>1. faFrame.cost[<<t, f>>] \in 0..FarCost BY FaceAssumption DEF Tracks, Faces
  <2>2. Bonus(t) = 0 \/ Bonus(t) = 18 \/ Bonus(t) = 30 BY DEF Bonus
  <2>3. QED BY <2>1, <2>2, FarIs DEF PairCost
<1>2. QED BY <1>1 DEF CostAt, Rows, Columns

LEMMA SlackIs ==
  ASSUME FaceTypeOK, NEW i \in Rows, NEW j \in Columns
  PROVE  Slack(i, j) \in Int
  BY CostIs DEF FaceTypeOK, Slack

(* While a row has no column, a column has no row. *)
LEMMA FreeColumn ==
  ASSUME FaceTypeOK, NEW k \in Nat, k + 1 \in Rows,
         \A j \in Columns : faP[j] # 0 => faP[j] \in 1..k,
         \A i, j \in Columns : faP[i] # 0 /\ faP[i] = faP[j] => i = j
  PROVE  \E j \in Columns : faP[j] = 0
<1>1. PICK r \in Nat \ {0}, c \in Nat \ {0} : r <= c /\ Rows = 1..r /\ Columns = 1..c
  BY SizesAre DEF FaceTypeOK
<1>2. ASSUME \A j \in Columns : faP[j] # 0 PROVE FALSE
  <2>1. faP \in [Columns -> 1..k] BY <1>2 DEF FaceTypeOK
  <2>2. IsFiniteSet(Columns) /\ Cardinality(Columns) = c BY <1>1, FS_Interval
  <2>3. IsFiniteSet(1..k) /\ Cardinality(1..k) = k BY FS_Interval
  <2>4. Cardinality(1..k) < Cardinality(Columns) BY <1>1, <2>2, <2>3
  <2>5. \E i, j \in Columns : i # j /\ faP[i] = faP[j] BY <2>1, <2>2, <2>3, <2>4, FS_PigeonHole
  <2>6. QED BY <1>2, <2>5
<1>3. QED BY <1>2

(* A set of numbers that are not below b has a least one. *)
LEMMA LeastOf ==
  ASSUME NEW S \in SUBSET Int, S # {}, NEW b \in Int, \A x \in S : b <= x
  PROVE  Min(S) \in S /\ \A x \in S : Min(S) <= x
<1> DEFINE T == {n \in Nat : n + b \in S}
<1>1. T # {}
  <2>1. PICK x \in S : TRUE OBVIOUS
  <2>2. x - b \in T OBVIOUS
  <2>3. QED BY <2>2
<1>2. PICK n \in T : \A m \in T : n <= m BY <1>1, LeastNumber
<1>3. n + b \in S /\ \A x \in S : n + b <= x
  <2>1. ASSUME NEW x \in S PROVE n + b <= x
    <3>1. x - b \in T OBVIOUS
    <3>2. n <= x - b BY <1>2, <3>1
    <3>3. QED BY <3>2
  <2>2. QED BY <2>1
<1>4. QED BY <1>3, Zenon DEF Min

(* What a scan is before. *)
LEMMA BeforeScan ==
  ASSUME FaceInv, faStep = "scan"
  PROVE  /\ faRow \in Rows /\ faRow \in Nat \ {0} /\ 1..faRow \subseteq Rows /\ Hole = 0 /\ Added = 1..faRow - 1
         /\ Taken = {j \in Columns : faP[j] # 0}
         /\ Feasible /\ Matching /\ Scanning /\ Path
         /\ faSeen \subseteq Columns /\ \A j \in faSeen : faP[j] \in 1..faRow - 1
         /\ \A k \in {0} \cup faSeen : RowBefore(k) \in 1..faRow
         /\ \E j \in Columns \ faSeen : faP[j] = 0
<1>1. PICK r \in Nat \ {0}, c \in Nat \ {0} : r <= c /\ Rows = 1..r /\ Columns = 1..c
  BY SizesAre DEF FaceInv, FaceTypeOK
<1>2. faRow \in Rows /\ faRow \in Nat \ {0} /\ ~Single BY <1>1 DEF FaceInv, FaceTypeOK, Stages, OnPath
<1>3. 1..faRow \subseteq Rows BY <1>1, <1>2
<1>4. Hole = 0 /\ Added = 1..faRow - 1 /\ Taken = {j \in Columns : faP[j] # 0}
  BY <1>1 DEF Hole, Added, OnPath, Taken
<1>5. Feasible /\ Matching /\ Scanning /\ Path BY <1>2 DEF FaceInv
<1>6. faSeen \subseteq Columns /\ \A j \in faSeen : faP[j] \in 1..faRow - 1
  BY <1>4, <1>5 DEF Matching, Scanning
<1>7. \A k \in {0} \cup faSeen : RowBefore(k) \in 1..faRow
  BY <1>1, <1>2, <1>6 DEF RowBefore
<1>8. \E j \in Columns : faP[j] = 0
  <2>1. \A j \in Columns : faP[j] # 0 => faP[j] \in 1..faRow - 1 BY <1>4, <1>5 DEF Matching
  <2>2. \A i, j \in Columns : faP[i] # 0 /\ faP[i] = faP[j] => i = j BY <1>4, <1>5 DEF Matching
  <2>3. faRow - 1 \in Nat /\ (faRow - 1) + 1 \in Rows BY <1>1, <1>2
  <2>4. FaceTypeOK BY DEF FaceInv
  <2>5. QED BY <2>1, <2>2, <2>3, <2>4, FreeColumn
<1>9. QED BY <1>2, <1>3, <1>4, <1>5, <1>6, <1>7, <1>8

(* The first distances are far from Infinity. *)
LEMMA FreshSlack ==
  ASSUME FaceInv, NewPath, NEW j \in Columns
  PROVE  Slack(faRow, j) < Infinity /\ Slack(faRow, j) >= -30
<1>1. faStep = "scan" BY DEF NewPath
<1>2. PICK f \in Columns : faP[f] = 0 BY <1>1, BeforeScan
<1>3. faRow \in Rows /\ faU[faRow] = 0 BY <1>1, BeforeScan DEF Feasible
<1>4. faV[j] <= 0 /\ faV[j] \in Int /\ faV[f] = 0
  BY <1>1, <1>2, BeforeScan DEF Feasible, FaceInv, FaceTypeOK
<1>5. CostAt(faRow, j) \in Int /\ CostAt(faRow, j) >= -30 /\ CostAt(faRow, j) <= FarCost
  BY <1>3, CostIs DEF FaceInv, FaceTypeOK
<1>6. faV[j] >= -30 - FarCost
  <2>1. CASE faP[j] = 0 BY <2>1, <1>1, BeforeScan, FarIs DEF Feasible
  <2>2. CASE faP[j] # 0
    <3> DEFINE i == faP[j]
    <3>0. j \in Taken BY <1>1, <2>2, BeforeScan
    <3>a. faRow \in Nat \ {0} /\ 1..faRow \subseteq Rows /\ Added = 1..faRow - 1 BY <1>1, BeforeScan
    <3>b. i \in Added /\ Slack(i, j) = 0 BY <1>1, <3>0, BeforeScan DEF Matching
    <3>1. i \in 1..faRow - 1 /\ Slack(i, j) = 0 /\ i \in Rows BY <3>a, <3>b
    <3>2. i \in 1..faRow /\ i # faRow BY <3>a, <3>1
    <3>3. Slack(i, f) >= 0 BY <1>1, <3>2, BeforeScan DEF Feasible
    <3>4. /\ CostAt(i, j) \in Int /\ CostAt(i, j) >= -30
          /\ CostAt(i, f) \in Int /\ CostAt(i, f) <= FarCost
      BY <3>1, CostIs DEF FaceInv, FaceTypeOK
    <3>5. faU[i] \in Int BY <3>1 DEF FaceInv, FaceTypeOK
    <3> HIDE DEF i
    <3>6. QED BY <1>4, <3>1, <3>3, <3>4, <3>5, FarIs DEF Slack
  <2>3. QED BY <2>1, <2>2
<1>7. QED BY <1>3, <1>4, <1>5, <1>6, FarIs DEF Slack

(* A turn of the inner loop. *)
LEMMA ScanKeeps == ASSUME FaceInv, Scan PROVE FaceInv'
<1> DEFINE new == Columns \ faSeen
           through(j) == CostAt(faMark[1], j) - faU[faMark[1]] - faV[j]
           mins == [j \in Columns |-> IF j \in new /\ through(j) < faMins[j] THEN through(j)
                                      ELSE faMins[j]]
           delta == Min({mins[j] : j \in new})
           next == Min({j \in new : mins[j] = delta})
           raised == {faP[j] : j \in faSeen} \cup {faRow}
           tree == {0} \cup faSeen
<1>0. FaceTypeOK /\ faStep = "scan" BY DEF FaceInv, Scan
<1>1. /\ faRow \in Rows /\ faRow \in Nat \ {0} /\ 1..faRow \subseteq Rows
      /\ Hole = 0 /\ Added = 1..faRow - 1 /\ Taken = {j \in Columns : faP[j] # 0}
      /\ Feasible /\ Matching /\ Scanning /\ Path /\ faSeen \subseteq Columns
      /\ \A j \in faSeen : faP[j] \in 1..faRow - 1
      /\ \A k \in tree : RowBefore(k) \in 1..faRow
  BY <1>0, BeforeScan
<1>2. new # {} BY <1>0, BeforeScan
<1>3. /\ faMark[2] \in tree /\ faMark[1] = RowBefore(faMark[2]) /\ faMark[1] \in 1..faRow
      /\ faMark[1] \in Rows
  BY <1>0, <1>1 DEF Scanning
<1>4. \A j \in Columns : through(j) = Slack(faMark[1], j) /\ through(j) \in Int
  BY <1>0, <1>3, SlackIs DEF Slack
<1> HIDE DEF through
<1>5. mins \in [Columns -> Int] BY <1>0, <1>4 DEF FaceTypeOK
<1>6. \A j \in new : /\ faLinks'[j] \in tree /\ mins[j] = Slack(RowBefore(faLinks'[j]), j)
                     /\ \A k \in tree : mins[j] <= Slack(RowBefore(k), j)
  <2>1. SUFFICES ASSUME NEW j \in new
                 PROVE  /\ faLinks'[j] \in tree /\ mins[j] = Slack(RowBefore(faLinks'[j]), j)
                        /\ \A k \in tree : mins[j] <= Slack(RowBefore(k), j)
    OBVIOUS
  <2>2. j \in Columns /\ faMins[j] \in Int BY <1>0 DEF FaceTypeOK
  <2>3. faLinks'[j] = IF through(j) < faMins[j] THEN faMark[2] ELSE faLinks[j]
    BY <2>2 DEF Scan, through
  <2>4. mins[j] = IF through(j) < faMins[j] THEN through(j) ELSE faMins[j] BY <2>2
  <2>5. through(j) = Slack(RowBefore(faMark[2]), j) /\ through(j) \in Int BY <1>3, <1>4, <2>2
  <2>6. \A k \in tree : Slack(RowBefore(k), j) \in Int BY <1>0, <1>1, <2>2, SlackIs
  <2>7. CASE NewPath
    <3>1. faMins[j] = Infinity /\ tree = {0} /\ faMark[2] = 0
      BY <1>0, <1>1, <1>3, <2>2, <2>7 DEF Scanning, NewPath
    <3>2. Slack(RowBefore(0), j) < Infinity BY <2>2, <2>7, FreshSlack DEF RowBefore
    <3>3. through(j) < faMins[j] BY <3>1, <3>2, <2>5
    <3>4. QED BY <2>3, <2>4, <2>5, <2>6, <3>1, <3>3
  <2>8. CASE ~NewPath
    <3>1. /\ faLinks[j] \in tree /\ faMins[j] = Slack(RowBefore(faLinks[j]), j)
          /\ \A k \in tree \ {faMark[2]} : faMins[j] <= Slack(RowBefore(k), j)
      BY <1>0, <1>1, <2>2, <2>8 DEF Scanning
    <3>2. QED BY <1>3, <2>2, <2>3, <2>4, <2>5, <2>6, <3>1
  <2>9. QED BY <2>7, <2>8
<1>7. \A j \in new : mins[j] >= -30 /\ (~NewPath => mins[j] >= 0)
  <2>1. SUFFICES ASSUME NEW j \in new PROVE mins[j] >= -30 /\ (~NewPath => mins[j] >= 0)
    OBVIOUS
  <2>2. j \in Columns /\ mins[j] \in Int BY <1>5
  <2>3. CASE NewPath
    <3>1. faLinks'[j] = 0 BY <1>6, <2>3 DEF NewPath
    <3>2. mins[j] = Slack(faRow, j) BY <1>6, <3>1 DEF RowBefore
    <3>3. QED BY <2>2, <2>3, <3>2, FreshSlack
  <2>4. CASE ~NewPath
    <3>1. RowBefore(faLinks'[j]) \in 1..faRow BY <1>1, <1>6
    <3>2. Slack(RowBefore(faLinks'[j]), j) >= 0 BY <1>1, <2>2, <2>4, <3>1 DEF Feasible
    <3>3. QED BY <1>6, <2>2, <2>4, <3>2
  <2>5. QED BY <2>3, <2>4
<1>8. /\ delta \in Int /\ \A j \in new : delta <= mins[j]
      /\ \E j \in new : mins[j] = delta
  <2> DEFINE S == {mins[j] : j \in new}
  <2>1. S \in SUBSET Int /\ S # {} /\ -30 \in Int /\ \A x \in S : -30 <= x
    BY <1>2, <1>5, <1>7
  <2>2. Min(S) \in S /\ \A x \in S : Min(S) <= x
    <3> HIDE DEF S
    <3>1. QED BY <2>1, LeastOf
  <2>3. QED BY <1>5, <2>2
<1>9. next \in new /\ mins[next] = delta
  <2> HIDE DEF mins, delta
  <2> DEFINE S == {j \in new : mins[j] = delta}
  <2>1. S \in SUBSET Int /\ S # {} /\ \A x \in S : 0 <= x
    <3>1. Columns \subseteq Nat BY SizesAre, <1>0 DEF FaceTypeOK
    <3>2. S \subseteq Columns OBVIOUS
    <3>3. S # {} BY <1>8
    <3> HIDE DEF S
    <3>4. QED BY <3>1, <3>2, <3>3
  <2>2. Min(S) \in S
    <3> HIDE DEF S
    <3>1. QED BY <2>1, LeastOf
  <2>3. QED BY <2>2
<1>10. /\ UNCHANGED <<faFrame, faLock, faRow, faP, faGiven>> /\ faSeen' = faSeen \cup {next}
       /\ faMark' = <<faP[next], next>> /\ faStep' = IF faP[next] = 0 THEN "augment" ELSE "scan"
       /\ faU' = [i \in Rows |-> IF i \in raised THEN faU[i] + delta ELSE faU[i]]
       /\ faV' = [j \in Columns |-> IF j \in faSeen THEN faV[j] - delta ELSE faV[j]]
       /\ faMins' = [j \in Columns |-> IF j \in new THEN mins[j] - delta ELSE mins[j]]
       /\ faLinks' = [j \in Columns |-> IF j \in new /\ through(j) < faMins[j] THEN faMark[2]
                                        ELSE faLinks[j]]
  BY DEF Scan, Lowered, inputVars, through
<1> HIDE DEF mins, delta, next
<1>11. /\ Rows' = Rows /\ Columns' = Columns /\ Tracks' = Tracks /\ Faces' = Faces
       /\ \A i, j : CostAt(i, j)' = CostAt(i, j)
  BY <1>10 DEF Rows, Columns, Transposed, Tracks, Faces, CostAt, PairCost, Bonus
<1>12. next \in Columns /\ next \notin faSeen /\ next # 0
  BY <1>0, <1>9, SizesAre DEF FaceTypeOK
<1>13. FaceTypeOK'
  <2>1. faU' \in [Rows -> Int] BY <1>0, <1>8, <1>10 DEF FaceTypeOK
  <2>2. faV' \in [Columns -> Int] BY <1>0, <1>8, <1>10 DEF FaceTypeOK
  <2>3. faMins' \in [Columns -> Int] BY <1>5, <1>8, <1>10
  <2>4. faLinks' \in [Columns -> {0} \cup Columns] BY <1>0, <1>1, <1>3, <1>10 DEF FaceTypeOK
  <2>5. faMark' \in ({0} \cup Rows) \X ({0} \cup Columns) BY <1>0, <1>10, <1>12 DEF FaceTypeOK
  <2>6. faSeen' \subseteq Columns /\ faStep' \in {"row", "scan", "augment", "link", "done"}
    BY <1>1, <1>10, <1>12
  <2>7. QED BY <1>0, <1>10, <1>11, <2>1, <2>2, <2>3, <2>4, <2>5, <2>6 DEF FaceTypeOK
<1>14. ASSUME NEW i \in Rows, NEW j \in Columns
       PROVE  /\ Slack(i, j) \in Int /\ Slack(i, j)' \in Int
              /\ Slack(i, j)' = (Slack(i, j) - (IF i \in raised THEN delta ELSE 0))
                                  + (IF j \in faSeen THEN delta ELSE 0)
  <2>1. CostAt(i, j) \in Int /\ faU[i] \in Int /\ faV[j] \in Int /\ CostAt(i, j)' = CostAt(i, j)
    BY <1>0, <1>11, CostIs DEF FaceTypeOK
  <2>2. faU'[i] = faU[i] + (IF i \in raised THEN delta ELSE 0) BY <1>8, <1>10, <2>1
  <2>3. faV'[j] = faV[j] - (IF j \in faSeen THEN delta ELSE 0) BY <1>8, <1>10, <2>1
  <2> HIDE DEF raised
  <2>4. QED BY <1>8, <2>1, <2>2, <2>3 DEF Slack
<1>15. /\ \A k \in tree : RowBefore(k) \in raised
       /\ \A i \in raised : \E k \in tree : i = RowBefore(k)
       /\ \A k : RowBefore(k)' = RowBefore(k)
       /\ raised \subseteq 1..faRow /\ faRow \in raised
  <2>1. 0 \notin faSeen BY <1>0, SizesAre DEF FaceTypeOK
  <2>2. \A k : RowBefore(k)' = RowBefore(k) BY <1>10 DEF RowBefore
  <2>3. \A k \in tree : RowBefore(k) \in raised BY DEF RowBefore
  <2>4. \A i \in raised : \E k \in tree : i = RowBefore(k) BY <2>1 DEF RowBefore
  <2>5. QED BY <1>1, <2>2, <2>3, <2>4
<1>16. faSeen # {} => delta >= 0
  <2>1. PICK j \in new : mins[j] = delta BY <1>8
  <2>2. QED BY <1>7, <2>1 DEF NewPath
<1> HIDE DEF raised, tree, new
<1>17. ~NewPath' BY <1>10 DEF NewPath
<1>18. \A j \in Columns : j \in new \/ j \in faSeen BY DEF new
<1>19. Feasible'
  <2>1. ASSUME NEW j \in Columns' PROVE (faV[j] <= 0 /\ (faP[j] = 0 => faV[j] = 0))'
    <3>1. j \in Columns /\ faV[j] \in Int BY <1>0, <1>11, <2>1 DEF FaceTypeOK
    <3>2. faV[j] <= 0 /\ (faP[j] = 0 => faV[j] = 0) BY <1>1, <3>1 DEF Feasible
    <3>3. faV'[j] = IF j \in faSeen THEN faV[j] - delta ELSE faV[j] BY <1>10, <3>1
    <3>4. j \in faSeen => faP[j] # 0 /\ delta >= 0 BY <1>1, <1>16
    <3>5. QED BY <1>8, <1>10, <3>1, <3>2, <3>3, <3>4
  <2>2. ASSUME NEW i \in (1..faRow)', NEW j \in Columns' PROVE (Slack(i, j) >= 0)'
    <3>1. i \in 1..faRow /\ i \in Rows /\ j \in Columns BY <1>1, <1>10, <1>11, <2>2
    <3>2. CASE i \in raised /\ j \in faSeen
      <4>1. Slack(i, j) >= 0 BY <1>1, <3>1, <3>2 DEF Feasible, NewPath
      <4>2. QED BY <1>8, <1>14, <3>1, <3>2, <4>1
    <3>3. CASE i \in raised /\ j \notin faSeen
      <4>1. j \in new BY <1>18, <3>1, <3>3
      <4>2. mins[j] <= Slack(i, j) BY <1>6, <1>15, <3>3, <4>1
      <4>3. delta <= mins[j] /\ mins[j] \in Int BY <1>5, <1>8, <3>1, <4>1
      <4>4. QED BY <1>8, <1>14, <3>1, <3>3, <4>2, <4>3
    <3>4. CASE i \notin raised
      <4>1. i # faRow BY <1>15, <3>4
      <4>2. Slack(i, j) >= 0 BY <1>1, <3>1, <4>1 DEF Feasible
      <4>3. QED BY <1>8, <1>14, <1>16, <3>1, <3>4, <4>2
    <3>5. QED BY <3>2, <3>3, <3>4
  <2>3. ASSUME NEW i \in Rows', (i > faRow)' PROVE (faU[i] = 0)'
    <3>1. i \in Rows /\ i > faRow BY <1>10, <1>11, <2>3
    <3>2. i \notin raised BY <1>1, <1>15, <3>1
    <3>3. faU'[i] = faU[i] BY <1>10, <3>1, <3>2
    <3>4. QED BY <1>1, <3>1, <3>3 DEF Feasible
  <2>4. QED BY <1>17, <2>1, <2>2, <2>3 DEF Feasible
<1>20. Added' = Added /\ Taken' = Taken
  <2>1. Added' = Added BY <1>0, <1>10 DEF Added, OnPath
  <2>2. CASE faP[next] = 0
    <3>1. Hole' = next BY <1>10, <2>2 DEF Hole
    <3>2. QED BY <1>1, <1>10, <1>11, <2>1, <2>2, <3>1 DEF Taken
  <2>3. CASE faP[next] # 0
    <3>1. Hole' = 0 BY <1>10, <2>3 DEF Hole
    <3>2. 0 \notin Columns BY <1>0, SizesAre DEF FaceTypeOK
    <3>3. QED BY <1>1, <1>10, <1>11, <2>1, <3>1, <3>2 DEF Taken
  <2>4. QED BY <2>2, <2>3
<1>21. Matching'
  <2>1. ASSUME NEW j \in Taken PROVE Slack(faP[j], j)' = 0
    <3>1. PICK i \in 1..faRow - 1 : i = faP[j] BY <1>1, <2>1 DEF Matching
    <3>2. j \in Columns /\ i \in Rows /\ Slack(i, j) = 0 BY <1>1, <2>1, <3>1 DEF Matching
    <3>3. i \in raised <=> j \in faSeen
      <4>1. ASSUME i \in raised PROVE j \in faSeen
        <5>1. i # faRow BY <1>1, <3>1
        <5>2. PICK k \in faSeen : faP[k] = i BY <4>1, <5>1 DEF raised
        <5>3. k \in Taken BY <1>0, <1>1, <5>2 DEF Scanning
        <5>4. k = j BY <1>1, <2>1, <3>1, <5>2, <5>3 DEF Matching
        <5>5. QED BY <5>2, <5>4
      <4>2. QED BY <3>1, <4>1 DEF raised
    <3>4. Slack(i, j)' = 0 BY <1>8, <1>14, <3>2, <3>3
    <3>5. QED BY <1>10, <3>1, <3>4 DEF Slack
  <2>2. QED BY <1>1, <1>10, <1>20, <2>1 DEF Matching
<1>22. Scanning'
  <2>1. SUFFICES ASSUME faStep' = "scan" PROVE Scanning' BY DEF Scanning
  <2>2. faP[next] # 0 BY <1>10, <2>1
  <2>3. (faSeen \subseteq Taken)' BY <1>1, <1>10, <1>12, <1>20, <2>2 DEF Scanning, Taken
  <2>4. (faMark[2] \in {0} \cup faSeen /\ faMark[1] = RowBefore(faMark[2]))'
    BY <1>10, <1>12 DEF RowBefore
  <2>5. (faMark[2] = 0 <=> faSeen = {})' BY <1>10, <1>12
  <2>6. ASSUME NEW j \in (Columns \ faSeen)'
        PROVE  /\ (faLinks[j] \in {0} \cup faSeen)' /\ (faMins[j] = Slack(RowBefore(faLinks[j]), j))'
               /\ \A k \in (({0} \cup faSeen) \ {faMark[2]})' : (faMins[j] <= Slack(RowBefore(k), j))'
    <3>1. j \in Columns /\ j \in new /\ j \notin faSeen BY <1>10, <1>11, <1>18, <2>6
    <3>2. faMins'[j] = mins[j] - delta /\ mins[j] \in Int BY <1>5, <1>10, <3>1
    <3>3. ASSUME NEW k \in tree PROVE Slack(RowBefore(k), j)' = Slack(RowBefore(k), j) - delta
      <4>1. PICK i \in Rows : i = RowBefore(k) BY <1>1, <3>3
      <4>2. i \in raised BY <1>15, <3>3, <4>1
      <4>3. Slack(i, j)' = Slack(i, j) - delta BY <1>8, <1>14, <3>1, <4>2
      <4>4. RowBefore(k)' = i BY <1>15, <4>1
      <4>5. QED BY <4>1, <4>3, <4>4 DEF Slack
    <3>4. faLinks'[j] \in tree /\ mins[j] = Slack(RowBefore(faLinks'[j]), j) BY <1>6, <3>1
    <3>5. (faMins[j] = Slack(RowBefore(faLinks[j]), j))'
      <4>1. Slack(RowBefore(faLinks[j]), j)' = Slack(RowBefore(faLinks'[j]), j) - delta
        BY <3>3, <3>4 DEF Slack, RowBefore
      <4>2. QED BY <3>2, <3>4, <4>1
    <3>6. \A k \in tree : (faMins[j] <= Slack(RowBefore(k), j))'
      <4>1. SUFFICES ASSUME NEW k \in tree PROVE (faMins[j] <= Slack(RowBefore(k), j))'
        OBVIOUS
      <4>2. mins[j] <= Slack(RowBefore(k), j) BY <1>6, <3>1
      <4>3. Slack(RowBefore(k), j) \in Int BY <1>1, <1>14, <3>1
      <4>4. QED BY <1>8, <3>2, <3>3, <4>2, <4>3
    <3>7. (({0} \cup faSeen) \ {faMark[2]})' \subseteq tree BY <1>10 DEF tree
    <3>8. QED BY <1>10, <3>4, <3>5, <3>6, <3>7 DEF tree
  <2>7. QED BY <1>17, <2>3, <2>4, <2>5, <2>6 DEF Scanning
<1>23. Path'
  <2>1. PICK rank \in [Columns -> Nat], n \in Nat : \A j \in faSeen : rank[j] < n /\ LeadsBack(rank, j)
    BY <1>0, <1>1 DEF Path, OnPath
  <2>2. PICK later \in [Columns -> Nat] : later = [rank EXCEPT ![next] = n] BY <1>12
  <2>3. later[next] = n /\ \A j \in faSeen : later[j] = rank[j] BY <1>1, <1>12, <2>2
  <2>4. ASSUME NEW j \in faSeen' PROVE later[j] < n + 1 /\ LeadsBack(later, j)'
    <3>1. CASE j \in faSeen
      <4>1. rank[j] < n /\ LeadsBack(rank, j) /\ j \in Columns BY <1>1, <2>1, <3>1
      <4>2. faLinks'[j] = faLinks[j] BY <1>10, <3>1, <4>1 DEF new
      <4>3. RowBefore(faLinks[j]) \in raised /\ RowBefore(faLinks[j]) \in Rows
        BY <1>1, <1>15, <4>1 DEF LeadsBack, tree
      <4>4. Slack(RowBefore(faLinks[j]), j)' = 0
        <5>1. PICK i \in Rows : i = RowBefore(faLinks[j]) BY <4>3
        <5>2. Slack(i, j) = 0 /\ i \in raised BY <4>1, <4>3, <5>1 DEF LeadsBack
        <5>3. Slack(i, j)' = 0 BY <1>8, <1>14, <3>1, <4>1, <5>2
        <5>4. RowBefore(faLinks[j])' = i BY <1>10, <4>2, <5>1 DEF RowBefore
        <5>5. QED BY <5>3, <5>4 DEF Slack
      <4>5. rank[j] \in Nat BY <4>1
      <4>6. QED BY <1>10, <2>3, <3>1, <4>1, <4>2, <4>4, <4>5 DEF LeadsBack
    <3>2. CASE j = next
      <4>1. faLinks'[j] \in tree /\ mins[j] = Slack(RowBefore(faLinks'[j]), j) /\ j \in Columns
        BY <1>6, <1>9, <1>12, <3>2
      <4>2. PICK i \in Rows : i = RowBefore(faLinks'[j]) BY <1>1, <4>1
      <4>3. i \in raised /\ Slack(i, j) = delta BY <1>9, <1>15, <3>2, <4>1, <4>2
      <4>4. Slack(i, j)' = 0 BY <1>8, <1>12, <1>14, <3>2, <4>1, <4>3
      <4>5. RowBefore(faLinks[j])' = i BY <1>10, <4>2 DEF RowBefore
      <4>6. Slack(RowBefore(faLinks[j]), j)' = 0 BY <4>4, <4>5 DEF Slack
      <4>7. faLinks'[j] # 0 => rank[faLinks'[j]] < n /\ faP[faLinks'[j]] # 0 /\ faLinks'[j] \in faSeen
        BY <1>1, <2>1, <4>1 DEF tree
      <4>8. QED BY <1>10, <2>3, <3>2, <4>1, <4>6, <4>7 DEF LeadsBack, tree
    <3>3. QED BY <1>10, <3>1, <3>2
  <2>5. (Hole \in {0} \cup faSeen)' BY <1>10 DEF Hole
  <2>6. later \in [Columns' -> Nat] /\ n + 1 \in Nat BY <1>11
  <2>7. QED BY <2>4, <2>5, <2>6 DEF Path
<1>24. Stages'
  <2>1. ~Single /\ Single' = Single BY <1>0, <1>10 DEF FaceInv, Stages, OnPath, Single
  <2>2. QED BY <1>1, <1>10, <1>12, <2>1 DEF Stages, OnPath, Hole
<1>25. QED BY <1>13, <1>19, <1>21, <1>22, <1>23, <1>24 DEF FaceInv

(* A step back along the path. *)
LEMMA AugmentKeeps == ASSUME FaceInv, Augment PROVE FaceInv'
<1> DEFINE h == faMark[2]
           b == faLinks[h]
<1>1. FaceTypeOK /\ faStep = "augment" /\ h # 0 /\ Hole = h /\ ~Single /\ faRow # 0
  BY DEF FaceInv, Augment, Stages, Hole, OnPath
<1>2. Feasible /\ Matching /\ Path BY <1>1 DEF FaceInv
<1>3. PICK r \in Nat \ {0}, c \in Nat \ {0} : r <= c /\ Rows = 1..r /\ Columns = 1..c
  BY <1>1, SizesAre DEF FaceTypeOK
<1>4. PICK rank \in [Columns -> Nat], n \in Nat :
         \A j \in faSeen : rank[j] < n /\ (rank[j] <= rank[h] => LeadsBack(rank, j))
  BY <1>1, <1>2 DEF Path, OnPath
<1>5. /\ h \in faSeen /\ h \in Columns /\ faSeen \subseteq Columns
      /\ faRow \in Rows /\ faRow \in 1..faRow
  BY <1>1, <1>2, <1>3 DEF Path, OnPath, FaceTypeOK
<1>6. rank[h] \in Nat BY <1>4, <1>5
<1>7. LeadsBack(rank, h) BY <1>4, <1>5, <1>6
<1>8. /\ b \in {0} \cup faSeen /\ (b # 0 => rank[b] < rank[h] /\ faP[b] # 0)
      /\ Slack(RowBefore(b), h) = 0
  BY <1>7 DEF LeadsBack
<1>9. /\ UNCHANGED <<faFrame, faLock, faRow, faU, faV, faLinks, faMins, faSeen, faGiven>>
      /\ faP' = [faP EXCEPT ![h] = RowBefore(b)] /\ faMark' = <<faMark[1], b>>
      /\ faStep' = IF b = 0 THEN "row" ELSE "augment"
  BY DEF Augment, inputVars, RowBefore
<1> HIDE DEF h, b
<1>10. RowBefore(b) \in Rows /\ RowBefore(b) # 0
  BY <1>1, <1>3, <1>5, <1>8 DEF RowBefore, FaceTypeOK
<1>11. /\ faP' \in [Columns -> {0} \cup Rows] /\ faP'[h] = RowBefore(b)
       /\ \A j \in Columns : j # h => faP'[j] = faP[j]
  BY <1>1, <1>5, <1>9, <1>10 DEF FaceTypeOK
<1>12. /\ Rows' = Rows /\ Columns' = Columns /\ Tracks' = Tracks /\ Faces' = Faces
       /\ Single' = Single /\ \A i, j : Slack(i, j)' = Slack(i, j)
  BY <1>9 DEF Rows, Columns, Transposed, Tracks, Faces, Single, Slack, CostAt, PairCost, Bonus
<1>13. FaceTypeOK'
  <2>1. faMark' \in ({0} \cup Rows) \X ({0} \cup Columns) BY <1>1, <1>5, <1>8, <1>9 DEF FaceTypeOK
  <2>2. faStep' \in {"row", "scan", "augment", "link", "done"} BY <1>9
  <2>3. QED BY <1>1, <1>9, <1>11, <1>12, <2>1, <2>2 DEF FaceTypeOK
<1>14. Feasible'
  <2>1. \A j \in Columns : faP'[j] = 0 => faP[j] = 0 BY <1>10, <1>11
  <2>2. ~NewPath /\ ~NewPath' BY <1>1, <1>9 DEF NewPath
  <2>3. QED BY <1>2, <1>9, <1>12, <2>1, <2>2 DEF Feasible
<1>15. Taken = {j \in Columns : j # h /\ faP[j] # 0} /\ Added = 1..faRow - 1
  BY <1>1 DEF Taken, Added, OnPath
<1>16. Scanning' /\ Stages'
  BY <1>1, <1>9, <1>12 DEF Scanning, Stages, OnPath, Hole
<1>17. Matching' /\ Path'
  <2>1. CASE b = 0
    <3>1. RowBefore(b) = faRow BY <2>1 DEF RowBefore
    <3>2. ~OnPath' /\ Added' = 1..faRow BY <1>9, <2>1 DEF OnPath, Added
    <3>3. Taken' = Taken \cup {h}
      <4>1. Hole' = 0 BY <1>9, <2>1 DEF Hole
      <4>2. Taken' = {j \in Columns : faP'[j] # 0} BY <1>3, <1>12, <4>1 DEF Taken
      <4>3. QED BY <1>5, <1>10, <1>11, <1>15, <4>2
    <3>4. \A j \in Taken : faP'[j] = faP[j] /\ faP[j] \in 1..faRow - 1 BY <1>2, <1>11, <1>15 DEF Matching
    <3>5. ASSUME NEW j \in Taken \cup {h} PROVE faP'[j] \in 1..faRow /\ (Slack(faP[j], j) = 0)'
      <4>1. PICK i : i = faP'[j] OBVIOUS
      <4>2. i \in 1..faRow /\ Slack(i, j) = 0
        <5>1. CASE j = h BY <1>5, <1>8, <1>11, <3>1, <4>1, <5>1
        <5>2. CASE j # h
          <6>1. j \in Taken /\ i = faP[j] /\ i \in 1..faRow - 1 BY <3>4, <3>5, <4>1, <5>2
          <6>2. QED BY <1>2, <1>3, <1>5, <6>1 DEF Matching
        <5>3. QED BY <5>1, <5>2
      <4>3. Slack(i, j)' = 0 BY <1>12, <4>2
      <4>4. QED BY <4>1, <4>2, <4>3 DEF Slack
    <3>6. ASSUME NEW j \in Taken \cup {h}, NEW k \in Taken \cup {h}, faP'[j] = faP'[k] PROVE j = k
      <4>1. faP'[h] = faRow /\ faRow \notin 1..faRow - 1 BY <1>3, <1>5, <1>11, <3>1
      <4>2. QED BY <1>2, <3>4, <3>6, <4>1 DEF Matching
    <3>7. ASSUME NEW i \in 1..faRow PROVE \E j \in Taken \cup {h} : faP'[j] = i
      <4>1. CASE i = faRow BY <1>11, <3>1, <4>1
      <4>2. CASE i # faRow
        <5>1. i \in Added BY <1>3, <1>5, <1>15, <4>2
        <5>2. PICK j \in Taken : faP[j] = i BY <1>2, <5>1 DEF Matching
        <5>3. QED BY <3>4, <5>2
      <4>3. QED BY <4>1, <4>2
    <3>8. QED BY <1>9, <3>2, <3>3, <3>5, <3>6, <3>7 DEF Matching, Path, Slack
  <2>2. CASE b # 0
    <3>1. /\ RowBefore(b) = faP[b] /\ b \in faSeen /\ b \in Columns /\ rank[b] < rank[h]
          /\ faP[b] # 0 /\ b # h /\ b \in Taken
      BY <1>4, <1>5, <1>6, <1>8, <1>15, <2>2 DEF RowBefore
    <3>2. Added' = Added /\ Hole' = b /\ OnPath'
      BY <1>1, <1>9, <2>2 DEF Added, Hole, OnPath
    <3>3. Taken' = (Taken \ {b}) \cup {h}
      <4>1. Taken' = {j \in Columns : j # b /\ faP'[j] # 0} BY <1>12, <3>2 DEF Taken
      <4>2. QED BY <1>5, <1>10, <1>11, <1>15, <3>1, <4>1
    <3>4. \A j \in Taken \ {b} : faP'[j] = faP[j] /\ j # h BY <1>11, <1>15
    <3>5. faP'[h] = faP[b] BY <1>11, <3>1
    <3>6. ASSUME NEW j \in Taken' PROVE faP'[j] \in Added' /\ (Slack(faP[j], j) = 0)'
      <4>1. PICK i : i = faP'[j] OBVIOUS
      <4>2. i \in Added /\ Slack(i, j) = 0
        <5>1. CASE j = h BY <1>2, <1>8, <3>1, <3>5, <4>1, <5>1 DEF Matching
        <5>2. CASE j # h BY <1>2, <3>3, <3>4, <3>6, <4>1, <5>2 DEF Matching
        <5>3. QED BY <5>1, <5>2
      <4>3. Slack(i, j)' = 0 BY <1>12, <4>2
      <4>4. QED BY <3>2, <4>1, <4>2, <4>3 DEF Slack
    <3>7. ASSUME NEW j \in Taken', NEW k \in Taken', faP'[j] = faP'[k] PROVE j = k
      BY <1>2, <3>1, <3>3, <3>4, <3>5, <3>7 DEF Matching
    <3>8. ASSUME NEW i \in Added PROVE \E j \in Taken' : faP'[j] = i
      <4>1. PICK j \in Taken : faP[j] = i BY <1>2 DEF Matching
      <4>2. QED BY <3>3, <3>4, <3>5, <4>1
    <3>9. Matching'
      BY <1>9, <3>2, <3>6, <3>7, <3>8 DEF Matching, Slack
    <3>10. ASSUME NEW j \in faSeen, rank[j] <= rank[b] PROVE LeadsBack(rank, j)'
      <4>1. rank[j] \in Nat /\ rank[b] \in Nat /\ j \in Columns BY <1>4, <1>5, <3>1
      <4>2. LeadsBack(rank, j) BY <1>4, <1>6, <3>1, <3>10, <4>1
      <4>3. faLinks[j] # h /\ (faLinks[j] # 0 => faLinks[j] \in Columns)
        <5>1. CASE faLinks[j] = 0 BY <1>5, <1>3, <5>1
        <5>2. CASE faLinks[j] # 0
          <6>1. faLinks[j] \in faSeen /\ rank[faLinks[j]] < rank[j] BY <4>2, <5>2 DEF LeadsBack
          <6>2. rank[faLinks[j]] \in Nat BY <1>4, <1>5, <6>1
          <6>3. rank[faLinks[j]] < rank[h] BY <1>6, <3>1, <3>10, <4>1, <6>1, <6>2
          <6>4. QED BY <1>5, <1>6, <6>1, <6>3
        <5>3. QED BY <5>1, <5>2
      <4>4. PICK i : i = RowBefore(faLinks[j]) OBVIOUS
      <4>5. RowBefore(faLinks[j])' = i BY <1>9, <1>11, <4>3, <4>4 DEF RowBefore
      <4>6. Slack(i, j)' = 0 BY <1>12, <4>2, <4>4 DEF LeadsBack
      <4>7. Slack(RowBefore(faLinks[j]), j)' = 0 BY <4>5, <4>6 DEF Slack
      <4>8. faLinks[j] # 0 => faP'[faLinks[j]] # 0 BY <1>11, <4>2, <4>3 DEF LeadsBack
      <4>9. QED BY <1>9, <4>2, <4>7, <4>8 DEF LeadsBack
    <3>11. Path'
      <4>1. \A j \in faSeen' : rank[j] < n /\ (Hole' = 0 \/ rank[j] <= rank[Hole'] => LeadsBack(rank, j)')
        BY <1>4, <1>9, <2>2, <3>2, <3>10
      <4>2. Hole' \in {0} \cup faSeen' /\ rank \in [Columns' -> Nat] BY <1>9, <1>12, <3>1, <3>2
      <4>3. QED BY <4>1, <4>2, Zenon DEF Path
    <3>12. QED BY <3>9, <3>11
  <2>3. QED BY <2>1, <2>2
<1>18. QED BY <1>13, <1>14, <1>16, <1>17 DEF FaceInv

(* The next row. *)
LEMMA NextRowKeeps == ASSUME FaceInv, NextRow PROVE FaceInv'
<1>1. FaceTypeOK /\ faStep = "row" /\ faRow + 1 \in Rows /\ faRow' = faRow + 1
  BY DEF FaceInv, NextRow
<1>2. PICK r \in Nat \ {0}, c \in Nat \ {0} : r <= c /\ Rows = 1..r /\ Columns = 1..c
  BY <1>1, SizesAre DEF FaceTypeOK
<1>3. faRow \in Nat /\ faRow' \in Nat /\ 1..(faRow + 1) - 1 = 1..faRow BY <1>1, <1>2 DEF FaceTypeOK
<1>4. UNCHANGED <<faFrame, faLock, faU, faV, faGiven>> BY DEF NextRow, inputVars
<1>5. /\ Rows' = Rows /\ Columns' = Columns /\ Tracks' = Tracks /\ Faces' = Faces
      /\ Single' = Single /\ \A i, j : Slack(i, j)' = Slack(i, j)
  BY <1>4 DEF Rows, Columns, Transposed, Tracks, Faces, Single, Slack, CostAt, PairCost, Bonus
<1>6. CASE Single
  <2>1. /\ faStep' = "row" /\ faP' = [j \in Columns |-> 1]
        /\ UNCHANGED <<faMark, faLinks, faMins, faSeen>>
    BY <1>6 DEF NextRow, Single
  <2>2. Rows = 1..1 BY <1>6 DEF Single, Rows, Tracks, Faces
  <2>3. faRow' = 1 BY <1>1, <1>2, <2>2
  <2>4. FaceTypeOK' BY <1>1, <1>2, <1>4, <1>5, <2>1, <2>2, <2>3 DEF FaceTypeOK
  <2>5. Stages' BY <1>5, <2>1, <2>3 DEF Stages, OnPath
  <2>6. QED BY <1>5, <1>6, <2>4, <2>5 DEF FaceInv
<1>7. CASE ~Single
  <2>1. /\ faStep' = "scan" /\ faMark' = <<faRow + 1, 0>> /\ faP' = faP /\ faSeen' = {}
        /\ faLinks' = [j \in Columns |-> 0] /\ faMins' = [j \in Columns |-> Infinity]
    BY <1>1, <1>7 DEF NextRow, Single
  <2>2. FaceTypeOK'
    <3>1. faMins' \in [Columns -> Int] /\ faLinks' \in [Columns -> {0} \cup Columns] BY <2>1, FarIs
    <3>2. QED BY <1>1, <1>4, <1>5, <2>1, <3>1 DEF FaceTypeOK
  <2>3. Feasible /\ Matching BY <1>7 DEF FaceInv
  <2>4. ~NewPath /\ NewPath' /\ Hole = 0 /\ Hole' = 0 /\ OnPath' BY <1>1, <2>1 DEF NewPath, Hole, OnPath
  <2>5. Added = 1..faRow /\ Added' = 1..faRow /\ Taken' = Taken
    BY <1>3, <1>1, <1>5, <2>1, <2>4 DEF Added, OnPath, Taken
  <2>6. Feasible'
    <3>1. \A i \in 1..faRow', j \in Columns : i # faRow' => Slack(i, j) >= 0
      <4>1. SUFFICES ASSUME NEW i \in 1..faRow', NEW j \in Columns, i # faRow' PROVE Slack(i, j) >= 0
        OBVIOUS
      <4>2. i \in 1..faRow BY <1>3, <1>1, <4>1
      <4>3. QED BY <2>3, <2>4, <4>2 DEF Feasible
    <3>2. \A i \in Rows : i > faRow' \/ i = faRow' => faU[i] = 0
      <4>1. SUFFICES ASSUME NEW i \in Rows, i > faRow' \/ i = faRow' PROVE faU[i] = 0 OBVIOUS
      <4>2. i > faRow BY <1>3, <1>1, <1>2, <4>1
      <4>3. QED BY <2>3, <4>2 DEF Feasible
    <3>3. QED BY <1>4, <1>5, <2>1, <2>3, <2>4, <3>1, <3>2 DEF Feasible
  <2>7. Matching'
    <3>1. \A j \in Taken : Slack(faP[j], j)' = 0 BY <1>5, <2>1, <2>3 DEF Matching, Slack
    <3>2. QED BY <2>1, <2>3, <2>5, <3>1 DEF Matching
  <2>8. Scanning'
    <3>1. (faMark[2] \in {0} \cup faSeen /\ faMark[1] = RowBefore(faMark[2]))'
      BY <1>1, <2>1 DEF RowBefore
    <3>2. (faMark[2] = 0 <=> faSeen = {})' BY <2>1
    <3>3. ({0} \cup faSeen') \ {faMark'[2]} = {} BY <2>1
    <3>4. \A j \in Columns' : faMins'[j] = Infinity /\ faLinks'[j] = 0 BY <1>5, <2>1
    <3>5. faSeen' \subseteq Taken' BY <2>1
    <3>6. QED BY <2>4, <3>1, <3>2, <3>3, <3>4, <3>5 DEF Scanning
  <2>9. Path'
    <3>1. [j \in Columns |-> 0] \in [Columns' -> Nat] BY <1>5
    <3>2. QED BY <2>1, <2>4, <3>1 DEF Path
  <2>10. Stages' BY <1>1, <1>2, <1>5, <1>7, <2>1 DEF Stages
  <2>11. QED BY <2>2, <2>6, <2>7, <2>8, <2>9, <2>10 DEF FaceInv
<1>8. QED BY <1>6, <1>7

(* What only gives the pairs keeps the method where it is. *)
LEMMA GivingKeeps ==
  ASSUME FaceInv, faGiven' \subseteq Tracks \X Faces,
         UNCHANGED <<inputVars, faRow, faU, faV, faP, faLinks, faMins, faSeen, faMark>>,
         \/ faStep = "row" /\ faRow + 1 \notin Rows /\ faStep' = "link"
         \/ faStep = "link" /\ faStep' = "done"
  PROVE  FaceInv'
<1>1. /\ Rows' = Rows /\ Columns' = Columns /\ Tracks' = Tracks /\ Faces' = Faces
      /\ Single' = Single /\ \A i, j : Slack(i, j)' = Slack(i, j)
  BY DEF Rows, Columns, Transposed, Tracks, Faces, Single, Slack, CostAt, PairCost, Bonus, inputVars
<1>2. FaceTypeOK' BY <1>1 DEF FaceInv, FaceTypeOK, inputVars
<1>3. ~OnPath /\ ~OnPath' /\ ~NewPath /\ ~NewPath' /\ Hole = 0 /\ Hole' = 0 BY DEF OnPath, NewPath, Hole
<1>4. Stages' BY <1>1, <1>3 DEF FaceInv, Stages
<1>5. ASSUME ~Single PROVE (Feasible /\ Matching /\ Scanning /\ Path)'
  <2>1. Feasible /\ Matching BY <1>5 DEF FaceInv
  <2>2. Feasible' BY <1>1, <1>3, <2>1 DEF Feasible
  <2>3. Added' = Added /\ Taken' = Taken BY <1>1, <1>3 DEF Added, Taken
  <2>4. \A j \in Taken : Slack(faP[j], j)' = 0 BY <1>1, <2>1 DEF Matching, Slack
  <2>5. Matching' BY <2>1, <2>3, <2>4 DEF Matching
  <2>6. QED BY <1>3, <2>2, <2>5 DEF Scanning, Path, OnPath
<1>6. QED BY <1>1, <1>2, <1>4, <1>5 DEF FaceInv

(* Matched pairs are pairs of a track and a face. *)
LEMMA PairsAre == ASSUME FaceTypeOK PROVE AsTracks(Paired) \subseteq Tracks \X Faces
<1>1. Paired \subseteq Rows \X Columns BY DEF Paired, FaceTypeOK
<1>2. QED BY <1>1 DEF AsTracks, Rows, Columns

LEMMA FaceInvInit == ASSUME FaceInit PROVE FaceInv
<1>1. faFrame \in Frame BY DEF FaceInit
<1>2. PICK r \in Nat \ {0}, c \in Nat \ {0} : r <= c /\ Rows = 1..r /\ Columns = 1..c
  BY <1>1, SizesAre
<1>3. FaceTypeOK BY FarIs DEF FaceInit, FaceTypeOK
<1>4. ~OnPath /\ ~NewPath /\ Hole = 0 /\ Added = 1..0 /\ Taken = {}
  BY DEF FaceInit, OnPath, NewPath, Hole, Added, Taken
<1>5. Stages BY <1>2, <1>4 DEF FaceInit, Stages
<1>6. Feasible BY <1>2, <1>4 DEF FaceInit, Feasible
<1>7. Matching BY <1>4 DEF Matching
<1>8. QED BY <1>3, <1>4, <1>5, <1>6, <1>7 DEF FaceInv, Scanning, Path, OnPath

LEMMA FaceInvNext == ASSUME FaceInv, [FaceNext]_faceVars PROVE FaceInv'
<1>1. CASE NextRow BY <1>1, NextRowKeeps
<1>2. CASE Scan BY <1>2, ScanKeeps
<1>3. CASE Augment BY <1>3, AugmentKeeps
<1>4. CASE Give
  <2>1. faGiven' \subseteq Tracks \X Faces BY <1>4, PairsAre DEF Give, FaceInv
  <2>2. QED BY <1>4, <2>1, GivingKeeps DEF Give
<1>5. ASSUME NEW synthetic, NEW touch, NEW passed, LinkSynthetic(synthetic, touch, passed)
      PROVE  FaceInv'
  <2>1. faGiven' \subseteq Tracks \X Faces BY <1>5 DEF LinkSynthetic, FaceInv, FaceTypeOK
  <2>2. QED BY <1>5, <2>1, GivingKeeps DEF LinkSynthetic
<1>6. CASE UNCHANGED faceVars
  <2>1. /\ Rows' = Rows /\ Columns' = Columns /\ Tracks' = Tracks /\ Faces' = Faces
        /\ Single' = Single /\ \A i, j : Slack(i, j)' = Slack(i, j)
    BY <1>6 DEF Rows, Columns, Transposed, Tracks, Faces, Single, Slack, CostAt, PairCost, Bonus, faceVars
  <2>2. /\ OnPath' = OnPath /\ Hole' = Hole /\ Added' = Added /\ NewPath' = NewPath /\ Taken' = Taken
        /\ \A k : RowBefore(k)' = RowBefore(k)
    BY <1>6, <2>1 DEF OnPath, Hole, Added, NewPath, Taken, RowBefore, faceVars
  <2>3. FaceTypeOK' /\ Stages' BY <1>6, <2>1, <2>2 DEF FaceInv, FaceTypeOK, Stages, faceVars
  <2>4. CASE ~Single
    <3>1. Feasible' BY <1>6, <2>1, <2>2, <2>4 DEF FaceInv, Feasible, faceVars
    <3>2. Matching' BY <1>6, <2>1, <2>2, <2>4 DEF FaceInv, Matching, Slack, faceVars
    <3>3. Scanning' BY <1>6, <2>1, <2>2, <2>4 DEF FaceInv, Scanning, Slack, RowBefore, faceVars
    <3>4. \A rank, j : LeadsBack(rank, j)' = LeadsBack(rank, j)
      BY <1>6, <2>1, <2>2 DEF LeadsBack, Slack, RowBefore, faceVars
    <3>5. Path' BY <1>6, <2>1, <2>2, <2>4, <3>4 DEF FaceInv, Path, faceVars
    <3>6. QED BY <2>3, <3>1, <3>2, <3>3, <3>5 DEF FaceInv
  <2>5. CASE Single BY <2>1, <2>3, <2>5 DEF FaceInv
  <2>6. QED BY <2>4, <2>5
<1>7. QED BY <1>1, <1>2, <1>3, <1>4, <1>5, <1>6 DEF FaceNext

(* The potentials of the Hungarian method stay feasible and its pairs stay *)
(* priced at their cost, for every frame and every numbers of tracks and   *)
(* faces.                                                                  *)
THEOREM FaceInvariant == FaceSpec => []FaceInv
  BY FaceInvInit, FaceInvNext, PTL DEF FaceSpec

THEOREM FaceTypeCorrect == FaceSpec => []FaceTypeOK
<1>1. FaceInv => FaceTypeOK BY DEF FaceInv
<1>2. QED BY <1>1, FaceInvariant, PTL

(* A choice of columns costs at least what the potentials say of its rows  *)
(* and columns, and just that if each of its pairs is priced at its cost.  *)
LEMMA TotalIs ==
  ASSUME FaceTypeOK, NEW m \in Matchings, \A i \in Rows : Slack(i, m[i]) >= 0,
         NEW b, Additive(b, faU, Rows), NEW d, Additive(d, faV, Columns)
  PROVE  LET chosen == {m[i] : i \in Rows}
         IN  /\ Total(m) \in Int /\ chosen \in SUBSET Columns /\ Total(m) >= b[Rows] + d[chosen]
             /\ (\A i \in Rows : Slack(i, m[i]) = 0) => Total(m) = b[Rows] + d[chosen]
<1>1. PICK r \in Nat \ {0}, c \in Nat \ {0} : r <= c /\ Rows = 1..r /\ Columns = 1..c
  BY SizesAre DEF FaceTypeOK
<1>2. m \in [1..r -> Columns] /\ \A i, k \in 1..r : m[i] = m[k] => i = k
  BY <1>1 DEF Matchings, IsInjective
<1>3. PICK w : w = [i \in Rows |-> CostAt(i, m[i])] OBVIOUS
<1>4. \A i \in Rows : w[i] = CostAt(i, m[i]) /\ w[i] \in Int /\ m[i] \in Columns
  BY <1>1, <1>2, <1>3, CostIs DEF FaceTypeOK
<1>5. w \in [1..r -> Int] BY <1>1, <1>3, <1>4
<1>6. PICK a : Additive(a, w, Rows) /\ Total(m) = a[Rows]
  <2>1. IsFiniteSet(Rows) BY <1>1, FS_Interval
  <2>2. PICK a : Additive(a, w, Rows) /\ SumFunctionOnSet(w, Rows) = a[Rows]
    BY <1>1, <1>5, <2>1, SumIs
  <2>3. QED BY <1>3, <2>2 DEF Total
<1>7. faU \in [1..r -> Int] /\ faV \in [Columns -> Int] BY <1>1 DEF FaceTypeOK
<1>8. ASSUME NEW i \in Rows
      PROVE  w[i] >= faU[i] + faV[m[i]] /\ (Slack(i, m[i]) = 0 => w[i] = faU[i] + faV[m[i]])
  <2>1. /\ w[i] = CostAt(i, m[i]) /\ w[i] \in Int /\ faU[i] \in Int /\ faV[m[i]] \in Int
        /\ Slack(i, m[i]) >= 0
    BY <1>1, <1>4, <1>7
  <2>2. Slack(i, m[i]) = w[i] - faU[i] - faV[m[i]] BY <2>1 DEF Slack
  <2>3. QED BY <2>1, <2>2
<1>9. /\ a[1..r] >= b[1..r] + d[{m[i] : i \in 1..r}]
      /\ (\A i \in 1..r : w[i] = faU[i] + faV[m[i]]) => a[1..r] = b[1..r] + d[{m[i] : i \in 1..r}]
  <2>1. Additive(a, w, 1..r) /\ Additive(b, faU, 1..r) BY <1>1, <1>6
  <2>2. \A i \in 1..r : w[i] >= faU[i] + faV[m[i]] BY <1>1, <1>8
  <2>3. Choice(r, Columns, m, w, faU, faV) BY <1>2, <1>5, <1>7, <2>2 DEF Choice
  <2>4. QED BY <2>1, <2>3, SumOfChosen
<1>10. a[Rows] \in Int BY <1>6 DEF Additive
<1>11. {m[i] : i \in Rows} \in SUBSET Columns BY <1>4
<1>12. (\A i \in Rows : Slack(i, m[i]) = 0) => \A i \in 1..r : w[i] = faU[i] + faV[m[i]]
  BY <1>1, <1>8
<1>13. QED BY <1>1, <1>6, <1>9, <1>10, <1>11, <1>12

(* When every row was added, each has one column, its own. *)
LEMMA RowsAreMatched ==
  ASSUME FaceInv, faStep \in {"link", "done"}, ~Single
  PROVE  \E m \in Matchings :
            /\ Paired = {<<i, m[i]>> : i \in Rows} /\ \A i \in Rows : Slack(i, m[i]) = 0
            /\ \A j \in Columns : (\A i \in Rows : m[i] # j) => faV[j] = 0
<1>1. PICK r \in Nat \ {0}, c \in Nat \ {0} : r <= c /\ Rows = 1..r /\ Columns = 1..c
  BY SizesAre DEF FaceInv, FaceTypeOK
<1>2. faRow + 1 \notin Rows /\ faRow \in {0} \cup Rows BY DEF FaceInv, FaceTypeOK, Stages
<1>3. faRow = r BY <1>1, <1>2
<1>4. Added = Rows /\ Taken = {j \in Columns : faP[j] # 0}
  BY <1>1, <1>3 DEF Added, OnPath, Taken, Hole
<1>5. Matching /\ Feasible BY DEF FaceInv
<1>6. \A i \in Rows : \E j \in Taken : faP[j] = i BY <1>4, <1>5 DEF Matching
<1>7. PICK m : m = [i \in Rows |-> CHOOSE j \in Taken : faP[j] = i] OBVIOUS
<1>8. \A i \in Rows : m[i] \in Taken /\ m[i] \in Columns /\ faP[m[i]] = i BY <1>4, <1>6, <1>7
<1>9. \A j \in Taken : faP[j] \in Rows /\ m[faP[j]] = j BY <1>4, <1>5, <1>8 DEF Matching
<1>10. m \in Matchings
  <2>1. m \in [Rows -> Columns] BY <1>7, <1>8
  <2>2. IsInjective(m)
    <3>1. \A i, k \in Rows : m[i] = m[k] => i = k BY <1>8
    <3>2. QED BY <2>1, <3>1 DEF IsInjective
  <2>3. QED BY <2>1, <2>2 DEF Matchings
<1>11. Paired = {<<i, m[i]>> : i \in Rows}
  <2>1. Paired = {<<faP[j], j>> : j \in Taken} BY <1>4 DEF Paired
  <2>2. \A j \in Taken : <<faP[j], j>> \in {<<i, m[i]>> : i \in Rows} BY <1>9
  <2>3. \A i \in Rows : <<i, m[i]>> \in {<<faP[j], j>> : j \in Taken} BY <1>8
  <2>4. QED BY <2>1, <2>2, <2>3
<1>12. \A i \in Rows : Slack(i, m[i]) = 0 BY <1>5, <1>8 DEF Matching
<1>13. \A j \in Columns : (\A i \in Rows : m[i] # j) => faV[j] = 0
  BY <1>4, <1>5, <1>9 DEF Feasible
<1>14. QED BY <1>10, <1>11, <1>12, <1>13

LEMMA CheapestNow == ASSUME FaceInv PROVE AssignmentIsCheapest
<1>1. SUFFICES ASSUME faStep \in {"link", "done"} PROVE AssignmentIsCheapest BY DEF AssignmentIsCheapest
<1>2. PICK r \in Nat \ {0}, c \in Nat \ {0} : r <= c /\ Rows = 1..r /\ Columns = 1..c
  BY SizesAre DEF FaceInv, FaceTypeOK
<1>3. CASE Single
  <2>1. Rows = {1} /\ Columns = {1} BY <1>3 DEF Single, Rows, Columns, Transposed, Tracks, Faces
  <2>2. faRow = 1 BY <1>1, <2>1 DEF FaceInv, FaceTypeOK, Stages
  <2>3. faP = [j \in {1} |-> 1] BY <1>3, <2>1, <2>2 DEF FaceInv, Stages
  <2>4. PICK m : m = [i \in {1} |-> 1] OBVIOUS
  <2>5. Matchings = {m}
    <3>1. [Rows -> Columns] = {m} BY <2>1, <2>4
    <3>2. IsInjective(m) BY <2>4 DEF IsInjective
    <3>3. QED BY <3>1, <3>2 DEF Matchings
  <2>6. Paired = {<<i, m[i]>> : i \in Rows} BY <2>1, <2>3, <2>4 DEF Paired
  <2>7. Total(m) \in Int
    <3>1. CostAt(1, 1) \in Int BY <2>1, CostIs DEF FaceInv, FaceTypeOK
    <3>2. PICK w : w = [i \in Rows |-> CostAt(i, m[i])] OBVIOUS
    <3>3. w \in [Rows -> Int] BY <2>1, <2>4, <3>1, <3>2
    <3>4. IsFiniteSet(Rows) BY <1>2, FS_Interval
    <3>5. PICK a : Additive(a, w, Rows) /\ SumFunctionOnSet(w, Rows) = a[Rows] BY <3>3, <3>4, SumIs
    <3>6. QED BY <3>2, <3>5 DEF Total, Additive
  <2>8. \A other \in Matchings : Total(m) <= Total(other) BY <2>5, <2>7
  <2>9. QED BY <2>5, <2>6, <2>8 DEF AssignmentIsCheapest
<1>4. CASE ~Single
  <2>1. PICK m \in Matchings :
            /\ Paired = {<<i, m[i]>> : i \in Rows} /\ \A i \in Rows : Slack(i, m[i]) = 0
            /\ \A j \in Columns : (\A i \in Rows : m[i] # j) => faV[j] = 0
    BY <1>1, <1>4, RowsAreMatched
  <2>2. IsFiniteSet(Rows) /\ IsFiniteSet(Columns) BY <1>2, FS_Interval
  <2>3. faU \in [Rows -> Int] /\ faV \in [Columns -> Int] BY DEF FaceInv, FaceTypeOK
  <2>4. PICK b : Additive(b, faU, Rows) BY <2>2, <2>3, SumIs
  <2>5. PICK d : Additive(d, faV, Columns) BY <2>2, <2>3, SumIs
  <2>6. \A j \in Columns : faV[j] <= 0 BY <1>4 DEF FaceInv, Feasible
  <2>7. \A i \in Rows, j \in Columns : Slack(i, j) >= 0
    <3>1. faRow = r BY <1>1, <1>2 DEF FaceInv, FaceTypeOK, Stages
    <3>2. ~NewPath BY <1>1 DEF NewPath
    <3>3. QED BY <1>2, <1>4, <3>1, <3>2 DEF FaceInv, Feasible
  <2>8. PICK chosen : chosen = {m[i] : i \in Rows} OBVIOUS
  <2>9. /\ chosen \in SUBSET Columns /\ Total(m) = b[Rows] + d[chosen]
        /\ b[Rows] \in Int
    <3>1. \A i \in Rows : Slack(i, m[i]) >= 0 BY <2>1
    <3>2. b[Rows] \in Int BY <2>4 DEF Additive
    <3>3. FaceTypeOK BY DEF FaceInv
    <3>4. QED BY <2>1, <2>4, <2>5, <2>8, <3>1, <3>2, <3>3, TotalIs
  <2>10. d[Columns] = d[chosen] /\ d[Columns] \in Int
    <3>1. \A j \in Columns \ chosen : faV[j] = 0 BY <2>1, <2>8
    <3>2. QED BY <2>2, <2>3, <2>5, <2>6, <2>9, <3>1, SumOfMore
  <2>11. ASSUME NEW other \in Matchings PROVE Total(m) <= Total(other)
    <3>1. PICK others : others = {other[i] : i \in Rows} OBVIOUS
    <3>2. \A i \in Rows : Slack(i, other[i]) >= 0 BY <2>7 DEF Matchings
    <3>3. others \in SUBSET Columns /\ Total(other) \in Int /\ Total(other) >= b[Rows] + d[others]
      <4>1. FaceTypeOK BY DEF FaceInv
      <4>2. QED BY <2>4, <2>5, <3>1, <3>2, <4>1, TotalIs
    <3>4. d[Columns] <= d[others] /\ d[others] \in Int
      BY <2>2, <2>3, <2>5, <2>6, <3>3, SumOfMore
    <3>5. QED BY <2>9, <2>10, <3>3, <3>4
  <2>12. QED BY <2>1, <2>11 DEF AssignmentIsCheapest
<1>5. QED BY <1>3, <1>4

(* Faces go to tracks as cheaply as they can: whatever the numbers of      *)
(* tracks and faces and the costs of their pairs, each row of the smaller  *)
(* side gets one column, its own, and no other choice of columns costs     *)
(* less.                                                                   *)
THEOREM FacesAssignedCheapest == FaceSpec => []AssignmentIsCheapest
  BY FaceInvariant, CheapestNow, PTL
-----------------------------------------------------------------------------
(***************************************************************************)
(* The sum of the components that follow subjects, which the run subjects  *)
(* checks.                                                                 *)
(***************************************************************************)

(* A step of the sum is a step of the component that moves and a stuttering *)
(* step of every other one.                                                 *)
LEMMA SubjectsStep ==
  ASSUME [SubjectsNext]_subjectsVars
  PROVE  /\ [Next]_vars /\ [IdentityNext]_identityVars /\ [AssociationNext]_associationVars
         /\ [HandoverNext]_handoverVars /\ [RulesNext]_rulesVars /\ [FaceNext]_faceVars
<1>1. CASE UNCHANGED subjectsVars BY <1>1 DEF subjectsVars
<1>2. CASE part = "presence" /\ Next /\ Rest BY <1>2 DEF Rest, Except
<1>3. CASE part = "identity" /\ IdentityNext /\ Rest BY <1>3 DEF Rest, Except
<1>4. CASE part = "association" /\ AssociationNext /\ Rest BY <1>4 DEF Rest, Except
<1>5. CASE part = "handover" /\ HandoverNext /\ Rest BY <1>5 DEF Rest, Except
<1>6. CASE part = "rules" /\ RulesNext /\ Rest BY <1>6 DEF Rest, Except
<1>7. CASE part = "faces" /\ FaceNext /\ Rest BY <1>7 DEF Rest, Except
<1>8. QED BY <1>1, <1>2, <1>3, <1>4, <1>5, <1>6, <1>7 DEF SubjectsNext

(* The sum implements each of its components: what is proved of the         *)
(* specification of a component holds of the sum, in which the others run   *)
(* beside it.                                                               *)
THEOREM SubjectsImplement ==
  SubjectsSpec => /\ Spec /\ IdentitySpec /\ AssociationSpec
                  /\ HandoverSpec /\ RulesSpec /\ FaceSpec
<1>1. SubjectsInit => /\ Init /\ IdentityInit /\ AssociationInit
                      /\ HandoverInit /\ RulesInit /\ FaceInit
  BY DEF SubjectsInit
<1>2. QED BY <1>1, SubjectsStep, PTL
          DEF SubjectsSpec, Spec, IdentitySpec, AssociationSpec, HandoverSpec, RulesSpec, FaceSpec

(* Whatever the others do, presence, identities, associations, dossiers,    *)
(* rules and the assignment of faces keep to their types.                   *)
THEOREM SubjectsTypeCorrect == SubjectsSpec => []TypesOK
<1>1. TypeOK /\ IdentityTypeOK /\ AssociationTypeOK /\ HandoverTypeOK /\ RulesTypeOK /\ FaceTypeOK
      => TypesOK
  BY DEF TypesOK
<1>2. QED BY <1>1, SubjectsImplement, PresenceTypeCorrect, IdentityTypeCorrect,
             AssociationTypeCorrect, HandoverTypeCorrect, RulesTypeCorrect, FaceTypeCorrect, PTL

(* The safety of the sum, as the run subjects checks it: each component's   *)
(* properties hold while the others run beside it.                          *)
THEOREM SubjectsSafe ==
  SubjectsSpec => /\ [](PresenceIsFresh /\ NoResidue /\ ExitsFollowIntrusions)
                  /\ [](OneTrackPerEntry /\ StrongestOverlapFirst /\ LookupsLeadToDossiers)
                  /\ [](LoiterMeansDwell /\ AssignmentIsCheapest)
BY SubjectsImplement, PresenceStaysFresh, PresenceLeavesNothing, PresenceExitsFollow,
   IdentityHeldOnce, AssociationStrongestFirst, HandoverLookupsLead, RulesLoiterMeansDwell,
   FacesAssignedCheapest, PTL
=============================================================================
