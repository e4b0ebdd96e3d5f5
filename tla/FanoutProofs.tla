---------------------------- MODULE FanoutProofs ----------------------------
(***************************************************************************)
(* Theorems about Fanout, for every set of queues, every weight, capacity  *)
(* and backlog: the scheduler keeps its promises in every rounding and in  *)
(* every iteration order of its map.                                       *)
(*                                                                         *)
(* Sums over sets and the leftover of the loop are recursive functions.    *)
(* Induction on them is an argument about a least counterexample, which    *)
(* needs no operator as a parameter.                                       *)
(***************************************************************************)
EXTENDS Fanout, FiniteSetTheorems, TLAPS

-----------------------------------------------------------------------------
(* Least counterexamples. *)

(* A set of naturals has a least element. *)
LEMMA NatMin ==
    ASSUME NEW B, B \subseteq Nat, B # {}
    PROVE  \E m \in B : \A k \in B : m <= k
<1> DEFINE R == {p \in Nat \X Nat : p[1] < p[2]}
<1>1. IsWellFoundedOn(R, Nat)
  <2>1. IsWellFoundedOn(OpToRel(<, Nat), Nat)
    BY NatLessThanWellFounded
  <2>2. R \cap (Nat \X Nat) \subseteq OpToRel(<, Nat)
    BY DEF OpToRel
  <2> QED
    BY <2>1, <2>2, IsWellFoundedOnSubrelation
<1>2. PICK m \in B : \A k \in B : ~ (<<k, m>> \in R)
  BY <1>1, WFMin
<1>3. \A k \in B : ~ (k < m)
  BY <1>2
<1> QED
  BY <1>3

(* Among subsets of a finite set there is one that contains no other. *)
LEMMA SubsetMin ==
    ASSUME NEW S, IsFiniteSet(S), NEW B, B \subseteq SUBSET S, B # {}
    PROVE  \E m \in B : \A k \in B : k \subseteq m => k = m
<1>1. IsWellFoundedOn(StrictSubsetOrdering(S), SUBSET S)
  BY FS_StrictSubsetOrderingWellFounded, FS_FiniteSubsetsOfFinite
<1>2. PICK m \in B : \A k \in B : ~ (<<k, m>> \in StrictSubsetOrdering(S))
  BY <1>1, WFMin
<1> QED
  BY <1>2 DEF StrictSubsetOrdering

-----------------------------------------------------------------------------
(* Sums over sets, as MapThenSumSet computes them. *)

Pick(s) == CHOOSE x \in s : TRUE

(* g gives the sum of f over every subset of S. *)
IsSum(g, f, S) ==
    g = [s \in SUBSET S |-> IF s = {} THEN 0 ELSE f[Pick(s)] + g[s \ {Pick(s)}]]

LEMMA PickIn == ASSUME NEW s, s # {} PROVE Pick(s) \in s
  BY DEF Pick

(* The equation of a sum has a solution: a smallest size of sets without   *)
(* one leads to a contradiction.                                           *)
LEMMA SumExists ==
    ASSUME NEW S, IsFiniteSet(S), NEW f
    PROVE  \E g : IsSum(g, f, S)
<1> DEFINE L(m) == {s \in SUBSET S : Cardinality(s) <= m}
           Good(g, m) == g = [s \in L(m) |->
                                IF s = {} THEN 0 ELSE f[Pick(s)] + g[s \ {Pick(s)}]]
           Bad == {m \in Nat : ~ \E g : Good(g, m)}
<1>1. \A s \in SUBSET S : IsFiniteSet(s) /\ Cardinality(s) \in Nat
                           /\ Cardinality(s) <= Cardinality(S)
  BY FS_Subset, FS_CardinalityType
<1>2. \A s \in SUBSET S : s # {} => /\ Pick(s) \in s /\ s \ {Pick(s)} \in SUBSET S
                                    /\ Cardinality(s \ {Pick(s)}) = Cardinality(s) - 1
  BY <1>1, PickIn, FS_RemoveElement
<1>3. \A s \in SUBSET S : Cardinality(s) = 0 <=> s = {}
  BY <1>1, FS_EmptySet
<1>4. Bad = {}
  <2> SUFFICES ASSUME Bad # {} PROVE FALSE
    OBVIOUS
  <2>1. PICK m \in Bad : \A k \in Bad : m <= k
    BY NatMin
  <2>2. CASE m = 0
    <3> DEFINE g == [s \in L(0) |-> 0]
    <3>1. \A s \in L(0) : s = {}
      BY <1>1, <1>3
    <3>2. Good(g, 0)
      BY <3>1
    <3> QED
      BY <2>1, <2>2, <3>2
  <2>3. CASE m # 0
    <3>1. m - 1 \in Nat /\ m - 1 \notin Bad
      <4>1. m \in Nat
        BY <2>1
      <4> HIDE DEF Bad
      <4> QED
        BY <2>1, <2>3, <4>1
    <3>2. PICK g : Good(g, m - 1)
      BY <3>1
    <3> DEFINE h == [s \in L(m) |-> IF s = {} THEN 0 ELSE f[Pick(s)] + g[s \ {Pick(s)}]]
    <3>3. \A s \in L(m - 1) : s \in L(m) /\ h[s] = g[s]
      <4>1. \A s \in L(m - 1) : s \in L(m)
        BY <1>1, <3>1
      <4>2. \A s \in L(m - 1) : g[s] = IF s = {} THEN 0 ELSE f[Pick(s)] + g[s \ {Pick(s)}]
        BY <3>2
      <4>3. \A s \in L(m) : h[s] = IF s = {} THEN 0 ELSE f[Pick(s)] + g[s \ {Pick(s)}]
        OBVIOUS
      <4> HIDE DEF h, L, Good
      <4> QED
        BY <4>1, <4>2, <4>3
    <3>4. \A s \in L(m) : s # {} => s \ {Pick(s)} \in L(m - 1)
      BY <1>1, <1>2, <3>1
    <3>5. \A s \in L(m) : s # {} => h[s \ {Pick(s)}] = g[s \ {Pick(s)}]
      <4> HIDE DEF h, L, Good
      <4> QED
        BY <3>3, <3>4
    <3>6. h = [s \in L(m) |-> IF s = {} THEN 0 ELSE f[Pick(s)] + h[s \ {Pick(s)}]]
      <4> DEFINE k == [s \in L(m) |-> IF s = {} THEN 0 ELSE f[Pick(s)] + h[s \ {Pick(s)}]]
      <4>1. ASSUME NEW s \in L(m) PROVE h[s] = k[s]
        BY <3>5
      <4>2. h = k
        BY <4>1
      <4> QED
        BY <4>2
    <3> QED
      BY <2>1, <3>6
  <2> QED
    BY <2>2, <2>3
<1>5. PICK g : Good(g, Cardinality(S))
  BY <1>1, <1>4
<1>6. L(Cardinality(S)) = SUBSET S
  BY <1>1
<1> QED
  BY <1>5, <1>6 DEF IsSum

(* Total is such a sum, so its equation may be used. *)
LEMMA SumUnfold ==
    ASSUME NEW S, IsFiniteSet(S), NEW f, DOMAIN f = S
    PROVE  \E g : IsSum(g, f, S) /\ Total(f) = g[S]
<1> DEFINE Body(g) == [s \in SUBSET S |-> IF s = {} THEN 0 ELSE f[Pick(s)] + g[s \ {Pick(s)}]]
           it == CHOOSE g : g = Body(g)
<1>1. it = Body(it)
  <2>1. \E g : g = Body(g)
    <3>1. PICK g : IsSum(g, f, S)
      BY SumExists
    <3>2. g = Body(g)
      BY <3>1 DEF IsSum
    <3> QED
      BY <3>2
  <2> HIDE DEF Body
  <2> QED
    BY <2>1
<1>2. Total(f) = it[S]
  BY DEF Total, MapThenSumSet, MapThenFoldSet, Pick
<1> QED
  BY <1>1, <1>2 DEF IsSum

(* The total weight is the sum of the weights. *)
LEMMA WeightUnfold ==
    ASSUME NEW S, IsFiniteSet(S)
    PROVE  \E g : IsSum(g, [q \in S |-> WeightOf(q)], S) /\ MapThenSumSet(WeightOf, S) = g[S]
<1> DEFINE Body(g) == [s \in SUBSET S |-> IF s = {} THEN 0 ELSE WeightOf(Pick(s)) + g[s \ {Pick(s)}]]
           it == CHOOSE g : g = Body(g)
           f == [q \in S |-> WeightOf(q)]
           BodyF(g) == [s \in SUBSET S |-> IF s = {} THEN 0 ELSE f[Pick(s)] + g[s \ {Pick(s)}]]
<1>1. ASSUME NEW g PROVE Body(g) = BodyF(g)
  BY PickIn
<1>2. it = Body(it)
  <2>1. \E g : g = BodyF(g)
    <3>1. PICK g : IsSum(g, f, S)
      BY SumExists
    <3>2. g = BodyF(g)
      BY <3>1 DEF IsSum
    <3> QED
      BY <3>2
  <2> HIDE DEF Body, BodyF
  <2>2. \E g : g = Body(g)
    BY <1>1, <2>1
  <2> QED
    BY <2>2
<1>3. MapThenSumSet(WeightOf, S) = it[S]
  BY DEF MapThenSumSet, MapThenFoldSet, Pick
<1> QED
  BY <1>1, <1>2, <1>3 DEF IsSum

(* What a sum is at each set, in terms of its picked element. *)
LEMMA SumAt ==
    ASSUME NEW S, NEW f, NEW g, IsSum(g, f, S)
    PROVE  /\ g[{}] = 0
           /\ \A s \in SUBSET S : s # {} => g[s] = f[Pick(s)] + g[s \ {Pick(s)}]
<1>1. \A s \in SUBSET S : g[s] = IF s = {} THEN 0 ELSE f[Pick(s)] + g[s \ {Pick(s)}]
  BY DEF IsSum
<1>2. {} \in SUBSET S
  OBVIOUS
<1> QED
  BY <1>1, <1>2

(* A sum lies in every set that holds 0 and is closed under addition. *)
LEMMA SumIn ==
    ASSUME NEW S, IsFiniteSet(S), NEW T, 0 \in T, \A a, b \in T : a + b \in T,
           NEW f, \A x \in S : f[x] \in T, NEW g, IsSum(g, f, S)
    PROVE  \A s \in SUBSET S : g[s] \in T
<1>0. \A s \in SUBSET S : g[s] = IF s = {} THEN 0 ELSE f[Pick(s)] + g[s \ {Pick(s)}]
  BY DEF IsSum
<1> DEFINE Bad == {s \in SUBSET S : g[s] \notin T}
<1> SUFFICES ASSUME Bad # {} PROVE FALSE
  OBVIOUS
<1>1. PICK m \in Bad : \A k \in Bad : k \subseteq m => k = m
  <2>1. Bad \subseteq SUBSET S
    OBVIOUS
  <2> HIDE DEF Bad
  <2> QED
    BY <2>1, SubsetMin
<1>2. m # {} /\ m \in SUBSET S
  BY <1>0, <1>1
<1>3. Pick(m) \in m /\ m \ {Pick(m)} \in SUBSET S
  BY <1>2, PickIn
<1>4. g[m \ {Pick(m)}] \in T
  BY <1>1, <1>3
<1>5. f[Pick(m)] \in T
  BY <1>2, <1>3
<1>6. g[m] = f[Pick(m)] + g[m \ {Pick(m)}]
  BY <1>0, <1>2
<1>7. g[m] \in T
  BY <1>4, <1>5, <1>6
<1> QED
  BY <1>7

(* A sum of naturals is a natural. *)
LEMMA SumNat ==
    ASSUME NEW S, IsFiniteSet(S), NEW f \in [S -> Nat], NEW g, IsSum(g, f, S)
    PROVE  \A s \in SUBSET S : g[s] \in Nat
<1>1. 0 \in Nat /\ \A a, b \in Nat : a + b \in Nat
  OBVIOUS
<1> QED
  BY <1>1, SumIn

(* The sum does not depend on the element that is taken first. *)
SumParts(g, f, S) == \A s \in SUBSET S : \A x \in s : g[s] = f[x] + g[s \ {x}]

LEMMA SumRemove ==
    ASSUME NEW S, IsFiniteSet(S), NEW f \in [S -> Nat], NEW g, IsSum(g, f, S)
    PROVE  SumParts(g, f, S)
<1>0. /\ g[{}] = 0
      /\ \A s \in SUBSET S : s # {} => g[s] = f[Pick(s)] + g[s \ {Pick(s)}]
  BY SumAt
<1> DEFINE Bad == {s \in SUBSET S : \E x \in s : g[s] # f[x] + g[s \ {x}]}
<1> SUFFICES ASSUME Bad # {} PROVE FALSE
  BY DEF SumParts
<1>1. PICK m \in Bad : \A k \in Bad : k \subseteq m => k = m
  <2>1. Bad \subseteq SUBSET S
    OBVIOUS
  <2> HIDE DEF Bad
  <2> QED
    BY <2>1, SubsetMin
<1>2. PICK x \in m : g[m] # f[x] + g[m \ {x}]
  BY <1>1
<1>3. PICK y : y = Pick(m)
  OBVIOUS
<1>4. y \in m /\ m \in SUBSET S /\ m # {}
  BY <1>1, <1>2, <1>3, PickIn
<1>5. g[m] = f[y] + g[m \ {y}]
  BY <1>0, <1>3, <1>4
<1>6. x # y
  BY <1>2, <1>5
<1>7. m \ {y} \notin Bad /\ m \ {x} \notin Bad
  BY <1>1, <1>2, <1>4
<1>8. m \ {y} \in SUBSET S /\ m \ {x} \in SUBSET S /\ x \in m \ {y} /\ y \in m \ {x}
  BY <1>2, <1>4, <1>6
<1>9. g[m \ {y}] = f[x] + g[(m \ {y}) \ {x}] /\ g[m \ {x}] = f[y] + g[(m \ {x}) \ {y}]
  BY <1>7, <1>8
<1>10. (m \ {y}) \ {x} = (m \ {x}) \ {y}
  OBVIOUS
<1>11. f[x] \in Nat /\ f[y] \in Nat /\ g[(m \ {x}) \ {y}] \in Nat
  <2>1. (m \ {x}) \ {y} \in SUBSET S /\ x \in S /\ y \in S
    BY <1>4, <1>2
  <2> QED
    BY <2>1, SumNat
<1>12. g[m] = f[x] + g[m \ {x}]
  <2> HIDE DEF Bad
  <2>1. g[m] = f[y] + (f[x] + g[(m \ {x}) \ {y}])
    BY <1>5, <1>9, <1>10
  <2>2. f[x] + g[m \ {x}] = f[x] + (f[y] + g[(m \ {x}) \ {y}])
    BY <1>9
  <2> QED
    BY <1>11, <2>1, <2>2
<1> QED
  BY <1>2, <1>12

-----------------------------------------------------------------------------
(* The loop of next. *)

(* l is what the loop has left over after each queue. *)
IsLeft(l, count, quota, ord, n) ==
    l = [i \in 0..n |->
           IF i = 0
           THEN 0
           ELSE LET current == quota[ord[i]] + l[i - 1]
                IN  current - Smaller(count[ord[i]], current)]

(* The equation of the leftover has a solution for any number of queues. *)
LEMMA LeftExists ==
    ASSUME NEW count, NEW quota, NEW ord, NEW n \in Nat
    PROVE  \E l : IsLeft(l, count, quota, ord, n)
<1> DEFINE Bad == {m \in Nat : ~ \E l : IsLeft(l, count, quota, ord, m)}
<1> SUFFICES ASSUME Bad # {} PROVE FALSE
  OBVIOUS
<1>1. PICK m \in Bad : \A k \in Bad : m <= k
  BY NatMin
<1>2. m \in Nat /\ ~ \E l : IsLeft(l, count, quota, ord, m)
  BY <1>1
<1>3. m # 0
  <2>1. IsLeft([i \in 0..0 |-> 0], count, quota, ord, 0)
    BY DEF IsLeft
  <2> QED
    BY <1>2, <2>1
<1>4. m - 1 \in Nat /\ m - 1 \notin Bad
  <2> HIDE DEF Bad
  <2> QED
    BY <1>1, <1>2, <1>3
<1>5. PICK l : IsLeft(l, count, quota, ord, m - 1)
  BY <1>4
<1> DEFINE A(q, c, x) == (q + x) - Smaller(c, q + x)
           h == [i \in 0..m |-> IF i = 0 THEN 0 ELSE A(quota[ord[i]], count[ord[i]], l[i - 1])]
           k == [i \in 0..m |-> IF i = 0 THEN 0 ELSE A(quota[ord[i]], count[ord[i]], h[i - 1])]
<1>6. l = [i \in 0..(m - 1) |-> IF i = 0 THEN 0 ELSE A(quota[ord[i]], count[ord[i]], l[i - 1])]
  BY <1>5 DEF IsLeft
<1>7. \A i \in 0..(m - 1) : h[i] = l[i]
  <2>1. \A i \in 0..(m - 1) : i \in 0..m
    BY <1>2
  <2>2. \A i \in 0..m : h[i] = IF i = 0 THEN 0 ELSE A(quota[ord[i]], count[ord[i]], l[i - 1])
    OBVIOUS
  <2>3. \A i \in 0..(m - 1) : l[i] = IF i = 0 THEN 0 ELSE A(quota[ord[i]], count[ord[i]], l[i - 1])
    BY <1>6
  <2> HIDE DEF h, A
  <2> QED
    BY <2>1, <2>2, <2>3
<1>8. \A i \in 0..m : i # 0 => h[i - 1] = l[i - 1]
  <2>1. \A i \in 0..m : i # 0 => i - 1 \in 0..(m - 1)
    BY <1>2
  <2> HIDE DEF h
  <2> QED
    BY <1>7, <2>1
<1>9. ASSUME NEW i \in 0..m PROVE h[i] = k[i]
  <2>1. h[i] = IF i = 0 THEN 0 ELSE A(quota[ord[i]], count[ord[i]], l[i - 1])
    OBVIOUS
  <2>2. k[i] = IF i = 0 THEN 0 ELSE A(quota[ord[i]], count[ord[i]], h[i - 1])
    OBVIOUS
  <2> HIDE DEF h, k, A
  <2> QED
    BY <1>8, <2>1, <2>2
<1>10. h = k
  BY <1>9
<1>11. IsLeft(h, count, quota, ord, m)
  <2>1. h = [i \in 0..m |-> IF i = 0 THEN 0 ELSE A(quota[ord[i]], count[ord[i]], h[i - 1])]
    BY <1>10
  <2> HIDE DEF h
  <2> QED
    BY <2>1 DEF IsLeft
<1> QED
  BY <1>2, <1>11

(* What Leftover computes. *)
LEMMA LeftoverIs ==
    ASSUME NEW count, NEW quota, NEW ord, NEW n \in Nat, DOMAIN ord = 1..n
    PROVE  IsLeft(Leftover(count, quota, ord), count, quota, ord, n)
<1> DEFINE Body(l) == [i \in 0..n |->
                         IF i = 0
                         THEN 0
                         ELSE LET current == quota[ord[i]] + l[i - 1]
                              IN  current - Smaller(count[ord[i]], current)]
           it == CHOOSE l : l = Body(l)
<1>1. it = Body(it)
  <2>1. \E l : l = Body(l)
    <3>1. PICK l : IsLeft(l, count, quota, ord, n)
      BY LeftExists
    <3>2. l = Body(l)
      BY <3>1 DEF IsLeft
    <3> QED
      BY <3>2
  <2> HIDE DEF Body
  <2> QED
    BY <2>1
<1>2. Cardinality(DOMAIN ord) = n
  BY FS_Interval
<1>3. Leftover(count, quota, ord) = it
  BY <1>2 DEF Leftover
<1> QED
  BY <1>1, <1>3 DEF IsLeft

(* What the leftover is, step by step. *)
LeftSteps(l, count, quota, ord, n) ==
    /\ l[0] = 0
    /\ \A i \in 1..n : l[i] = (quota[ord[i]] + l[i - 1])
                                 - Smaller(count[ord[i]], quota[ord[i]] + l[i - 1])

(* What the equation says at each place of the order. *)
LEMMA LeftAt ==
    ASSUME NEW count, NEW quota, NEW ord, NEW n \in Nat, NEW l, IsLeft(l, count, quota, ord, n)
    PROVE  LeftSteps(l, count, quota, ord, n)
<1>1. \A i \in 0..n : l[i] = IF i = 0
                             THEN 0
                             ELSE LET current == quota[ord[i]] + l[i - 1]
                                  IN  current - Smaller(count[ord[i]], current)
  BY DEF IsLeft
<1>2. 0 \in 0..n /\ \A i \in 1..n : i \in 0..n /\ i # 0
  OBVIOUS
<1> QED
  BY <1>1, <1>2 DEF LeftSteps

(* Smaller is the minimum. *)
LEMMA SmallerNat ==
    ASSUME NEW a \in Nat, NEW b \in Nat
    PROVE  /\ Smaller(a, b) \in Nat /\ Smaller(a, b) <= a /\ Smaller(a, b) <= b
           /\ Smaller(a, b) = a \/ Smaller(a, b) = b
           /\ b - Smaller(a, b) \in Nat
  BY DEF Smaller

(* Nothing is owed: the leftover is never negative. *)
LEMMA LeftNat ==
    ASSUME NEW S, NEW count \in [S -> Nat], NEW quota \in [S -> Nat], NEW n \in Nat,
           NEW ord \in [1..n -> S], NEW l, IsLeft(l, count, quota, ord, n)
    PROVE  \A i \in 0..n : l[i] \in Nat
<1>0. /\ l[0] = 0
      /\ \A i \in 1..n : l[i] = (quota[ord[i]] + l[i - 1])
                                   - Smaller(count[ord[i]], quota[ord[i]] + l[i - 1])
  <2>1. LeftSteps(l, count, quota, ord, n)
    BY LeftAt
  <2> QED
    BY <2>1 DEF LeftSteps
<1> DEFINE Bad == {i \in 0..n : l[i] \notin Nat}
<1> SUFFICES ASSUME Bad # {} PROVE FALSE
  OBVIOUS
<1>1. PICK m \in Bad : \A k \in Bad : m <= k
  <2>1. Bad \subseteq Nat
    OBVIOUS
  <2> HIDE DEF Bad
  <2> QED
    BY <2>1, NatMin
<1>2. m \in 0..n /\ l[m] \notin Nat /\ m # 0
  BY <1>0, <1>1
<1>3. m \in 1..n /\ m - 1 \in 0..n
  BY <1>2
<1>4. m - 1 \notin Bad
  <2> HIDE DEF Bad
  <2> QED
    BY <1>1, <1>3
<1>5. l[m - 1] \in Nat
  BY <1>3, <1>4
<1>6. quota[ord[m]] \in Nat /\ count[ord[m]] \in Nat
  BY <1>3
<1>7. l[m] \in Nat
  <2>1. quota[ord[m]] + l[m - 1] \in Nat
    BY <1>5, <1>6
  <2>2. (quota[ord[m]] + l[m - 1]) - Smaller(count[ord[m]], quota[ord[m]] + l[m - 1]) \in Nat
    BY <1>6, <2>1, SmallerNat
  <2> QED
    BY <1>0, <1>3, <2>2
<1> QED
  BY <1>2, <1>7

(* An iteration order visits every queue, and each once. *)
LEMMA OrdersVisit ==
    ASSUME NEW S, IsFiniteSet(S), NEW ord \in Orders(S)
    PROVE  /\ Cardinality(S) \in Nat
           /\ ord \in [1..Cardinality(S) -> S]
           /\ \A i, j \in 1..Cardinality(S) : ord[i] = ord[j] => i = j
           /\ \A q \in S : \E i \in 1..Cardinality(S) : ord[i] = q
<1> DEFINE n == Cardinality(S)
<1>1. n \in Nat
  BY FS_CardinalityType
<1>2. ord \in [1..n -> S] /\ \A i, j \in 1..n : i # j => ord[i] # ord[j]
  BY DEF Orders
<1>3. ord \in Injection(1..n, S)
  BY <1>2 DEF Injection, IsInjective
<1>4. IsFiniteSet(1..n) /\ Cardinality(1..n) = n
  BY <1>1, FS_Interval
<1>5. ord \in Surjection(1..n, S)
  BY <1>3, <1>4, FS_Injection
<1>6. \A q \in S : \E i \in 1..n : ord[i] = q
  BY <1>5 DEF Surjection
<1> QED
  BY <1>1, <1>2, <1>6

(* What next computes for one order of the map: every queue gets what it   *)
(* can use of its quota and of what the queues before it left over.        *)
LEMMA Loop ==
    ASSUME NEW S, IsFiniteSet(S), NEW count \in [S -> Nat], NEW quota \in [S -> Nat],
           NEW ord \in Orders(S), NEW limit, limit = QueueLimit(count, quota, ord)
    PROVE  /\ limit \in [S -> Nat] /\ \A q \in S : limit[q] <= count[q]
           /\ \E l :
                /\ l[0] = 0
                /\ \A i \in 0..Cardinality(S) : l[i] \in Nat
                /\ \A i \in 1..Cardinality(S) :
                     /\ limit[ord[i]] = Smaller(count[ord[i]], quota[ord[i]] + l[i - 1])
                     /\ l[i] = (quota[ord[i]] + l[i - 1]) - limit[ord[i]]
<1> DEFINE n == Cardinality(S)
           l == Leftover(count, quota, ord)
<1>1. /\ n \in Nat /\ ord \in [1..n -> S]
      /\ \A i, j \in 1..n : ord[i] = ord[j] => i = j
      /\ \A q \in S : \E i \in 1..n : ord[i] = q
  BY OrdersVisit
<1>2. IsLeft(l, count, quota, ord, n)
  <2>1. DOMAIN ord = 1..n
    BY <1>1
  <2> QED
    BY <1>1, <2>1, LeftoverIs
<1> HIDE DEF n
<1>3. /\ l[0] = 0
      /\ \A i \in 1..n : l[i] = (quota[ord[i]] + l[i - 1])
                                   - Smaller(count[ord[i]], quota[ord[i]] + l[i - 1])
  <2> HIDE DEF l
  <2>1. LeftSteps(l, count, quota, ord, n)
    BY <1>1, <1>2, LeftAt
  <2> QED
    BY <2>1 DEF LeftSteps
<1>4. \A i \in 0..n : l[i] \in Nat
  <2> HIDE DEF l
  <2> QED
    BY <1>1, <1>2, LeftNat
<1>5. limit = [q \in S |-> Smaller(count[q], quota[q] + l[(CHOOSE k \in DOMAIN ord : ord[k] = q) - 1])]
  BY DEF QueueLimit
<1> HIDE DEF l
<1>6. ASSUME NEW i \in 1..n
      PROVE  limit[ord[i]] = Smaller(count[ord[i]], quota[ord[i]] + l[i - 1])
  <2>1. (CHOOSE k \in DOMAIN ord : ord[k] = ord[i]) = i
    <3>1. \E k \in DOMAIN ord : ord[k] = ord[i]
      BY <1>1
    <3>2. PICK c : c = CHOOSE k \in DOMAIN ord : ord[k] = ord[i]
      OBVIOUS
    <3>3. c \in DOMAIN ord /\ ord[c] = ord[i]
      BY <3>1, <3>2
    <3> QED
      BY <1>1, <3>2, <3>3
  <2>2. ord[i] \in S
    BY <1>1
  <2> QED
    BY <1>5, <2>1, <2>2
<1>7. \A i \in 1..n : l[i] = (quota[ord[i]] + l[i - 1]) - limit[ord[i]]
  BY <1>3, <1>6
<1>8. ASSUME NEW q \in S PROVE limit[q] \in Nat /\ limit[q] <= count[q]
  <2>1. PICK i \in 1..n : ord[i] = q
    BY <1>1
  <2>2. limit[q] = Smaller(count[q], quota[q] + l[i - 1])
    BY <1>6, <2>1
  <2>3. l[i - 1] \in Nat
    BY <1>1, <1>4
  <2>4. quota[q] + l[i - 1] \in Nat /\ count[q] \in Nat
    BY <2>3
  <2> QED
    BY <2>2, <2>4, SmallerNat
<1>9. limit \in [S -> Nat]
  BY <1>5, <1>8
<1> QED
  BY <1>3, <1>4, <1>6, <1>7, <1>8, <1>9 DEF n

(* A share by weight is within half a transaction of the exact one, and so *)
(* at least what a cut instead of a rounding would give.                   *)
LEMMA ShareBounds ==
    ASSUME NEW w \in Nat, NEW total \in Nat, total > 0, NEW cap \in Nat,
           NEW x \in Share(w, total, cap)
    PROVE  /\ x \in Nat
           /\ 2 * w * cap - 2 * x * total <= total
           /\ 2 * x * total - 2 * w * cap <= total
           /\ x >= (w * cap) \div total
<1>1. x \in 0..cap /\ 2 * w * cap - 2 * x * total \in -total .. total
  BY DEF Share
<1>2. x \in Nat /\ 2 * w * cap \in Nat /\ 2 * x * total \in Nat /\ w * cap \in Nat
  BY <1>1
<1>3. /\ 2 * w * cap - 2 * x * total <= total
      /\ 2 * x * total - 2 * w * cap <= total
  BY <1>1, <1>2
<1>4. PICK d : d = (w * cap) \div total
  OBVIOUS
<1>5. d \in Nat /\ d * total <= w * cap
  BY <1>2, <1>4
<1>6. x >= d
  <2> SUFFICES ASSUME x + 1 <= d PROVE FALSE
    BY <1>2, <1>5
  <2>1. (x + 1) * total <= d * total
    BY <1>2, <1>5
  <2>2. (x + 1) * total = x * total + total
    BY <1>2
  <2>3. x * total \in Nat /\ d * total \in Nat
    BY <1>2, <1>5
  <2>4. 2 * w * cap = 2 * (w * cap) /\ 2 * x * total = 2 * (x * total)
    BY <1>2
  <2> QED
    BY <1>2, <1>3, <1>5, <2>1, <2>2, <2>3, <2>4
<1> QED
  BY <1>2, <1>3, <1>4, <1>6

-----------------------------------------------------------------------------
(* A unit of ingest. *)

(* The quotas, the order and the limits of one unit. *)
Unit(quota, ord, limit) ==
    /\ quota \in Quotas(DOMAIN Waiting, CurrentCap)
    /\ ord \in Orders(DOMAIN Waiting)
    /\ limit = QueueLimit(Waiting, quota, ord)
    /\ backlog' = [q \in Queue |->
                     IF q \in DOMAIN limit THEN backlog[q] - limit[q] ELSE backlog[q]]
    /\ \E n \in 0..Total(limit) : queued' = Smaller(queued + n, RingSize)

(* A step of ingest takes a unit. *)
LEMMA IngestUnit ==
    ASSUME Ingest
    PROVE  \E quota, ord, limit : Unit(quota, ord, limit)
<1>1. PICK limit \in QueueLimits(Waiting, CurrentCap) :
         /\ backlog' = [q \in Queue |->
                          IF q \in DOMAIN limit THEN backlog[q] - limit[q] ELSE backlog[q]]
         /\ \E n \in 0..Total(limit) : queued' = Smaller(queued + n, RingSize)
  BY DEF Ingest
<1>2. PICK quota \in Quotas(DOMAIN Waiting, CurrentCap), ord \in Orders(DOMAIN Waiting) :
         limit = QueueLimit(Waiting, quota, ord)
  BY DEF QueueLimits
<1>3. Unit(quota, ord, limit)
  BY <1>1, <1>2 DEF Unit
<1> QED
  BY <1>3

LEMMA WeightNat == ASSUME NEW q PROVE WeightOf(q) \in Nat
<1>1. CASE q \in Configured
  BY <1>1, PriorityAssumption DEF WeightOf, Configured
<1>2. CASE q \notin Configured
  BY <1>2 DEF WeightOf, DefaultWeight
<1> QED
  BY <1>1, <1>2

(* The queues that wait, their counts and the capacity. *)
LEMMA WaitingFacts ==
    ASSUME TypeOK
    PROVE  /\ IsFiniteSet(DOMAIN Waiting) /\ DOMAIN Waiting \subseteq Queue
           /\ Waiting \in [DOMAIN Waiting -> Nat]
           /\ \A q \in DOMAIN Waiting : Waiting[q] = backlog[q] /\ backlog[q] \in Nat
           /\ CurrentCap \in Nat /\ TotalWeight \in Nat
<1>1. \A q \in Queue : backlog[q] \in Nat
  BY FanoutAssumption DEF TypeOK
<1>2. /\ DOMAIN Waiting \subseteq Queue
      /\ \A q \in DOMAIN Waiting : Waiting[q] = backlog[q]
      /\ Waiting = [q \in DOMAIN Waiting |-> backlog[q]]
  BY DEF Waiting
<1>3. IsFiniteSet(DOMAIN Waiting)
  BY <1>2, FS_Subset, FanoutAssumption
<1>4. Waiting \in [DOMAIN Waiting -> Nat]
  BY <1>1, <1>2
<1>5. CurrentCap \in Nat
  BY FanoutAssumption DEF CurrentCap, TypeOK
<1>6. TotalWeight \in Nat
  <2> DEFINE S == DOMAIN Waiting
             f == [q \in S |-> WeightOf(q)]
  <2>1. PICK g : IsSum(g, f, S) /\ MapThenSumSet(WeightOf, S) = g[S]
    BY <1>3, WeightUnfold
  <2>2. f \in [S -> Nat]
    BY WeightNat
  <2>3. S \in SUBSET S
    OBVIOUS
  <2> HIDE DEF S, f
  <2>4. g[S] \in Nat
    BY <1>3, <2>1, <2>2, <2>3, SumNat DEF S
  <2> QED
    BY <2>1, <2>4 DEF TotalWeight, S
<1> QED
  BY <1>1, <1>2, <1>3, <1>4, <1>5, <1>6

(* What a unit takes from the queues that wait is their limit. *)
LEMMA UnitFacts ==
    ASSUME TypeOK, NEW quota, NEW ord, NEW limit, Unit(quota, ord, limit)
    PROVE  /\ quota \in [DOMAIN Waiting -> Nat] /\ limit \in [DOMAIN Waiting -> Nat]
           /\ \A q \in DOMAIN Waiting :
                /\ quota[q] \in Share(WeightOf(q), TotalWeight, CurrentCap)
                /\ limit[q] <= backlog[q] /\ Waiting[q] = backlog[q] /\ backlog[q] \in Nat
                /\ backlog'[q] = backlog[q] - limit[q] /\ Taken(q) = limit[q]
           /\ \A q \in Queue \ DOMAIN Waiting : backlog'[q] = backlog[q]
           /\ \E l :
                /\ l[0] = 0
                /\ \A i \in 0..Cardinality(DOMAIN Waiting) : l[i] \in Nat
                /\ \A i \in 1..Cardinality(DOMAIN Waiting) :
                     /\ limit[ord[i]] = Smaller(Waiting[ord[i]], quota[ord[i]] + l[i - 1])
                     /\ l[i] = (quota[ord[i]] + l[i - 1]) - limit[ord[i]]
<1> DEFINE S == DOMAIN Waiting
<1>1. /\ IsFiniteSet(S) /\ S \subseteq Queue /\ Waiting \in [S -> Nat] /\ CurrentCap \in Nat
      /\ \A q \in S : Waiting[q] = backlog[q] /\ backlog[q] \in Nat
  BY WaitingFacts
<1>2. /\ ord \in Orders(S) /\ limit = QueueLimit(Waiting, quota, ord)
      /\ backlog' = [q \in Queue |->
                       IF q \in DOMAIN limit THEN backlog[q] - limit[q] ELSE backlog[q]]
  BY DEF Unit
<1>3. quota \in [S -> 0..CurrentCap]
      /\ \A q \in S : quota[q] \in Share(WeightOf(q), TotalWeight, CurrentCap)
  BY DEF Unit, Quotas, TotalWeight
<1>4. quota \in [S -> Nat]
  BY <1>1, <1>3
<1> HIDE DEF S
<1>5. limit \in [S -> Nat] /\ \A q \in S : limit[q] <= Waiting[q]
  BY <1>1, <1>2, <1>4, Loop
<1>6. \E l : /\ l[0] = 0
             /\ \A i \in 0..Cardinality(S) : l[i] \in Nat
             /\ \A i \in 1..Cardinality(S) :
                  /\ limit[ord[i]] = Smaller(Waiting[ord[i]], quota[ord[i]] + l[i - 1])
                  /\ l[i] = (quota[ord[i]] + l[i - 1]) - limit[ord[i]]
  BY <1>1, <1>2, <1>4, Loop
<1>7. ASSUME NEW q \in S PROVE backlog'[q] = backlog[q] - limit[q] /\ Taken(q) = limit[q]
  <2>1. backlog'[q] = backlog[q] - limit[q]
    BY <1>1, <1>2, <1>5
  <2>2. backlog[q] \in Nat /\ limit[q] \in Nat
    BY <1>1, <1>5
  <2> QED
    BY <2>1, <2>2 DEF Taken
<1>8. \A q \in Queue \ S : backlog'[q] = backlog[q]
  BY <1>2, <1>5
<1>9. \A q \in S : limit[q] <= backlog[q]
  BY <1>1, <1>5
<1> QED
  BY <1>1, <1>3, <1>4, <1>5, <1>6, <1>7, <1>8, <1>9 DEF S

-----------------------------------------------------------------------------
(* Type correctness. *)

(* A unit takes no more than what waits, and the ring bounds what is       *)
(* queued.                                                                 *)
LEMMA TypeIngest ==
    ASSUME TypeOK, Ingest
    PROVE  TypeOK'
<1>1. PICK quota, ord, limit : Unit(quota, ord, limit)
  BY IngestUnit
<1> DEFINE S == DOMAIN Waiting
<1>2. IsFiniteSet(S) /\ S \subseteq Queue
  BY WaitingFacts
<1>3. /\ limit \in [S -> Nat]
      /\ \A q \in S : limit[q] <= backlog[q] /\ backlog'[q] = backlog[q] - limit[q]
      /\ \A q \in Queue \ S : backlog'[q] = backlog[q]
  BY <1>1, UnitFacts
<1>4. backlog' = [q \in Queue |->
                    IF q \in DOMAIN limit THEN backlog[q] - limit[q] ELSE backlog[q]]
  BY <1>1 DEF Unit
<1> HIDE DEF S
<1>5. \A q \in Queue : backlog'[q] \in 0..MaxBacklog
  <2> SUFFICES ASSUME NEW q \in Queue PROVE backlog'[q] \in 0..MaxBacklog
    OBVIOUS
  <2>1. backlog[q] \in 0..MaxBacklog
    BY DEF TypeOK
  <2>2. CASE q \in S
    <3>1. limit[q] \in Nat
      BY <1>3, <2>2
    <3> QED
      BY <1>3, <2>1, <2>2, <3>1, FanoutAssumption
  <2>3. CASE q \notin S
    BY <1>3, <2>1, <2>3
  <2> QED
    BY <2>2, <2>3
<1>6. backlog' \in [Queue -> 0..MaxBacklog]
  BY <1>4, <1>5
<1>7. Total(limit) \in Nat
  <2>1. DOMAIN limit = S
    BY <1>3
  <2>2. PICK g : IsSum(g, limit, S) /\ Total(limit) = g[S]
    BY <1>2, <2>1, SumUnfold
  <2>3. S \in SUBSET S
    OBVIOUS
  <2>4. g[S] \in Nat
    BY <1>2, <1>3, <2>2, <2>3, SumNat
  <2> QED
    BY <2>2, <2>4
<1>8. queued' \in 0..RingSize
  <2>1. PICK n \in 0..Total(limit) : queued' = Smaller(queued + n, RingSize)
    BY <1>1 DEF Unit
  <2> QED
    BY <1>7, <2>1, FanoutAssumption DEF Smaller, TypeOK
<1> QED
  BY <1>6, <1>8 DEF TypeOK

(* Every step keeps the types. *)
LEMMA TypeStep == TypeOK /\ [Next]_vars => TypeOK'
<1> SUFFICES ASSUME TypeOK, [Next]_vars PROVE TypeOK'
  OBVIOUS
<1>1. ASSUME NEW q \in Queue, Arrive(q) PROVE TypeOK'
  BY <1>1, FanoutAssumption DEF Arrive, TypeOK
<1>2. CASE Receive
  BY <1>2, FanoutAssumption DEF Receive, TypeOK
<1>3. CASE UNCHANGED vars
  BY <1>3 DEF vars, TypeOK
<1> QED
  BY <1>1, <1>2, <1>3, TypeIngest DEF Next

(* A unit never takes more than is pending, and the channel never counts   *)
(* more messages than its ring holds.                                      *)
THEOREM FanoutTypeCorrect == Spec => []TypeOK
<1>1. Init => TypeOK
  BY FanoutAssumption DEF Init, TypeOK
<1> QED
  BY <1>1, TypeStep, PTL DEF Spec

-----------------------------------------------------------------------------
(* The promises of the scheduler. *)

(* Only ingest takes transactions. *)
LEMMA TakesIsUnit ==
    ASSUME TypeOK, [Next]_vars, TakesUnit
    PROVE  Ingest
<1>0. \A q \in Queue : backlog[q] \in Nat
  BY FanoutAssumption DEF TypeOK
<1>1. PICK p \in Queue : backlog'[p] < backlog[p]
  BY DEF TakesUnit
<1>2. ASSUME NEW q \in Queue, Arrive(q) PROVE FALSE
  <2>0. DOMAIN backlog = Queue /\ backlog' = [backlog EXCEPT ![q] = backlog[q] + 1]
    BY <1>2 DEF Arrive, TypeOK
  <2>1. backlog'[p] = IF p = q THEN backlog[p] + 1 ELSE backlog[p]
    BY <2>0
  <2> QED
    BY <1>0, <1>1, <2>1
<1>3. CASE Receive \/ UNCHANGED vars
  BY <1>0, <1>1, <1>3 DEF Receive, vars
<1> QED
  BY <1>2, <1>3 DEF Next

(* Where no weight is, the quotas are NaN, cast to 0, and nothing is       *)
(* taken: a unit has weights to divide by.                                 *)
LEMMA UnitHasWeight ==
    ASSUME TypeOK, NEW quota, NEW ord, NEW limit, Unit(quota, ord, limit), TakesUnit
    PROVE  TotalWeight > 0
<1> DEFINE S == DOMAIN Waiting
           n == Cardinality(S)
<1> SUFFICES ASSUME TotalWeight = 0 PROVE FALSE
  BY WaitingFacts
<1>1. \A q \in S : quota[q] = 0
  BY UnitFacts DEF Share
<1>2. /\ n \in Nat /\ ord \in [1..n -> S]
      /\ \A q \in S : \E i \in 1..n : ord[i] = q
  BY WaitingFacts, OrdersVisit DEF Unit
<1>3. PICK l : /\ l[0] = 0
               /\ \A i \in 0..n : l[i] \in Nat
               /\ \A i \in 1..n :
                    /\ limit[ord[i]] = Smaller(Waiting[ord[i]], quota[ord[i]] + l[i - 1])
                    /\ l[i] = (quota[ord[i]] + l[i - 1]) - limit[ord[i]]
  BY UnitFacts
<1>4. /\ Waiting \in [S -> Nat] /\ limit \in [S -> Nat] /\ S \subseteq Queue
      /\ \A q \in S : backlog'[q] = backlog[q] - limit[q] /\ backlog[q] \in Nat
      /\ \A q \in Queue \ S : backlog'[q] = backlog[q]
  BY WaitingFacts, UnitFacts
<1>5. \A q \in Queue : backlog[q] \in Nat
  BY FanoutAssumption DEF TypeOK
<1> HIDE DEF S, n
<1>6. ASSUME NEW i \in 1..n, l[i - 1] = 0 PROVE l[i] = 0 /\ limit[ord[i]] = 0
  <2>1. ord[i] \in S /\ quota[ord[i]] = 0 /\ Waiting[ord[i]] \in Nat
    BY <1>1, <1>2, <1>4
  <2>2. Smaller(Waiting[ord[i]], quota[ord[i]] + l[i - 1]) = 0
    BY <1>6, <2>1 DEF Smaller
  <2>3. limit[ord[i]] = 0
    BY <1>3, <2>2
  <2>4. l[i] = (quota[ord[i]] + l[i - 1]) - limit[ord[i]]
    BY <1>3
  <2> QED
    BY <1>6, <2>1, <2>3, <2>4
<1>7. \A i \in 0..n : l[i] = 0
  <2> DEFINE Bad == {i \in 0..n : l[i] # 0}
  <2> SUFFICES ASSUME Bad # {} PROVE FALSE
    OBVIOUS
  <2>1. PICK m \in Bad : \A k \in Bad : m <= k
    <3>1. Bad \subseteq Nat
      BY <1>2
    <3> HIDE DEF Bad
    <3> QED
      BY <3>1, NatMin
  <2>2. m \in 0..n /\ l[m] # 0 /\ m # 0
    BY <1>3, <2>1
  <2>3. m \in 1..n /\ m - 1 \in 0..n
    BY <1>2, <2>2
  <2>4. m - 1 \notin Bad
    <3> HIDE DEF Bad
    <3> QED
      BY <1>2, <2>1, <2>3
  <2>5. l[m - 1] = 0
    BY <2>3, <2>4
  <2> QED
    BY <1>6, <2>2, <2>3, <2>5
<1>8. \A q \in S : limit[q] = 0
  <2> SUFFICES ASSUME NEW q \in S PROVE limit[q] = 0
    OBVIOUS
  <2>1. PICK i \in 1..n : ord[i] = q
    BY <1>2
  <2>2. i - 1 \in 0..n
    BY <1>2
  <2> QED
    BY <1>6, <1>7, <2>1, <2>2
<1>9. \A q \in Queue : backlog'[q] = backlog[q]
  <2> SUFFICES ASSUME NEW q \in Queue PROVE backlog'[q] = backlog[q]
    OBVIOUS
  <2>1. CASE q \in S
    BY <1>4, <1>8, <2>1
  <2>2. CASE q \notin S
    BY <1>4, <2>2
  <2> QED
    BY <2>1, <2>2
<1> QED
  BY <1>5, <1>9 DEF TakesUnit

(* The limit of each queue of a unit, with its place in the order. *)
LEMMA LimitOf ==
    ASSUME TypeOK, NEW quota, NEW ord, NEW limit, Unit(quota, ord, limit), TakesUnit,
           NEW q \in DOMAIN Waiting
    PROVE  /\ quota[q] \in Nat /\ limit[q] \in Nat /\ backlog[q] \in Nat
           /\ WeightOf(q) \in Nat /\ TotalWeight \in Nat /\ TotalWeight > 0 /\ CurrentCap \in Nat
           /\ 2 * WeightOf(q) * CurrentCap - 2 * quota[q] * TotalWeight <= TotalWeight
           /\ 2 * quota[q] * TotalWeight - 2 * WeightOf(q) * CurrentCap <= TotalWeight
           /\ quota[q] >= (WeightOf(q) * CurrentCap) \div TotalWeight
<1>1. /\ quota[q] \in Nat /\ limit[q] \in Nat /\ backlog[q] \in Nat
      /\ quota[q] \in Share(WeightOf(q), TotalWeight, CurrentCap)
  BY UnitFacts
<1>2. WeightOf(q) \in Nat /\ TotalWeight \in Nat /\ TotalWeight > 0 /\ CurrentCap \in Nat
  BY WeightNat, WaitingFacts, UnitHasWeight
<1> QED
  BY <1>1, <1>2, ShareBounds

(* Every waiting queue has a place in the order, and its limit there. *)
LEMMA PlaceOf ==
    ASSUME TypeOK, NEW quota, NEW ord, NEW limit, Unit(quota, ord, limit)
    PROVE  \E l :
             /\ l[0] = 0
             /\ \A i \in 0..Cardinality(DOMAIN Waiting) : l[i] \in Nat
             /\ \A i \in 1..Cardinality(DOMAIN Waiting) :
                  /\ ord[i] \in DOMAIN Waiting /\ i - 1 \in 0..Cardinality(DOMAIN Waiting)
                  /\ limit[ord[i]] = Smaller(backlog[ord[i]], quota[ord[i]] + l[i - 1])
                  /\ l[i] = (quota[ord[i]] + l[i - 1]) - limit[ord[i]]
             /\ \A q \in DOMAIN Waiting :
                  \E i \in 1..Cardinality(DOMAIN Waiting) : ord[i] = q
<1> DEFINE S == DOMAIN Waiting
           n == Cardinality(S)
<1>1. n \in Nat /\ ord \in [1..n -> S] /\ \A q \in S : \E i \in 1..n : ord[i] = q
  BY WaitingFacts, OrdersVisit DEF Unit
<1>2. PICK l : /\ l[0] = 0
               /\ \A i \in 0..n : l[i] \in Nat
               /\ \A i \in 1..n :
                    /\ limit[ord[i]] = Smaller(Waiting[ord[i]], quota[ord[i]] + l[i - 1])
                    /\ l[i] = (quota[ord[i]] + l[i - 1]) - limit[ord[i]]
  BY UnitFacts
<1>3. \A q \in S : Waiting[q] = backlog[q]
  BY WaitingFacts
<1> HIDE DEF S, n
<1>4. \A i \in 1..n : ord[i] \in S /\ i - 1 \in 0..n
  BY <1>1
<1>5. \A i \in 1..n : limit[ord[i]] = Smaller(backlog[ord[i]], quota[ord[i]] + l[i - 1])
  BY <1>2, <1>3, <1>4
<1> QED
  BY <1>1, <1>2, <1>4, <1>5 DEF S, n

(* A queue gets at least its quota as far as it can use it. *)
LEMMA ShareStep ==
    ASSUME TypeOK, [Next]_vars, TakesUnit, NEW q \in DOMAIN Waiting
    PROVE  Taken(q) >= Smaller(backlog[q], (WeightOf(q) * CurrentCap) \div TotalWeight)
<1>1. PICK quota, ord, limit : Unit(quota, ord, limit)
  BY TakesIsUnit, IngestUnit
<1>2. /\ quota[q] \in Nat /\ limit[q] \in Nat /\ backlog[q] \in Nat
      /\ quota[q] >= (WeightOf(q) * CurrentCap) \div TotalWeight
      /\ (WeightOf(q) * CurrentCap) \div TotalWeight \in Nat
  <2>1. /\ WeightOf(q) \in Nat /\ TotalWeight \in Nat /\ TotalWeight > 0 /\ CurrentCap \in Nat
    BY <1>1, LimitOf
  <2>2. (WeightOf(q) * CurrentCap) \div TotalWeight \in Nat
    BY <2>1
  <2> QED
    BY <1>1, <2>2, LimitOf
<1>3. Taken(q) = limit[q]
  BY <1>1, UnitFacts
<1>4. \E x \in Nat : limit[q] = Smaller(backlog[q], quota[q] + x)
  <2> DEFINE n == Cardinality(DOMAIN Waiting)
  <2>1. PICK l : /\ \A i \in 0..n : l[i] \in Nat
                 /\ \A i \in 1..n :
                      /\ i - 1 \in 0..n
                      /\ limit[ord[i]] = Smaller(backlog[ord[i]], quota[ord[i]] + l[i - 1])
                 /\ \A p \in DOMAIN Waiting : \E i \in 1..n : ord[i] = p
    BY <1>1, PlaceOf
  <2>2. PICK i \in 1..n : ord[i] = q
    BY <2>1
  <2> QED
    BY <2>1, <2>2
<1>5. PICK d \in Nat : d = (WeightOf(q) * CurrentCap) \div TotalWeight
  BY <1>2
<1>6. limit[q] >= Smaller(backlog[q], d)
  BY <1>2, <1>4, <1>5 DEF Smaller
<1> QED
  BY <1>3, <1>5, <1>6

(* No queue gets less than its share of the capacity by weight, whatever   *)
(* the order of the map and whatever the other queues leave over.          *)
THEOREM ShareGuaranteedHolds == Spec => ShareGuaranteed
<1> DEFINE A == TakesUnit =>
                  \A q \in DOMAIN Waiting :
                     Taken(q) >= Smaller(backlog[q],
                                         (WeightOf(q) * CurrentCap) \div TotalWeight)
<1>1. TypeOK /\ [Next]_vars => [A]_vars
  BY ShareStep
<1>2. Spec => [][A]_vars
  BY <1>1, FanoutTypeCorrect, PTL DEF Spec
<1> QED
  BY <1>2 DEF ShareGuaranteed

(* Without a leftover a queue gets its quota. *)
LEMMA ProportionalStep ==
    ASSUME TypeOK, [Next]_vars, TakesUnit, \A p \in DOMAIN Waiting : backlog'[p] > 0,
           NEW q \in DOMAIN Waiting
    PROVE  2 * (Taken(q) * TotalWeight - WeightOf(q) * CurrentCap) \in -TotalWeight .. TotalWeight
<1>1. PICK quota, ord, limit : Unit(quota, ord, limit)
  BY TakesIsUnit, IngestUnit
<1> DEFINE S == DOMAIN Waiting
           n == Cardinality(S)
<1>2. PICK l : /\ l[0] = 0
               /\ \A i \in 0..n : l[i] \in Nat
               /\ \A i \in 1..n :
                    /\ ord[i] \in S /\ i - 1 \in 0..n
                    /\ limit[ord[i]] = Smaller(backlog[ord[i]], quota[ord[i]] + l[i - 1])
                    /\ l[i] = (quota[ord[i]] + l[i - 1]) - limit[ord[i]]
               /\ \A p \in S : \E i \in 1..n : ord[i] = p
  BY <1>1, PlaceOf
<1>3. \A p \in S : /\ quota[p] \in Nat /\ limit[p] \in Nat /\ backlog[p] \in Nat
                   /\ limit[p] < backlog[p] /\ Taken(p) = limit[p]
  <2> SUFFICES ASSUME NEW p \in S
               PROVE  /\ quota[p] \in Nat /\ limit[p] \in Nat /\ backlog[p] \in Nat
                      /\ limit[p] < backlog[p] /\ Taken(p) = limit[p]
    OBVIOUS
  <2>1. /\ quota[p] \in Nat /\ limit[p] \in Nat /\ backlog[p] \in Nat
        /\ backlog'[p] = backlog[p] - limit[p] /\ Taken(p) = limit[p]
    BY <1>1, UnitFacts
  <2>2. backlog'[p] > 0
    OBVIOUS
  <2> QED
    BY <2>1, <2>2
<1>4. n \in Nat
  BY WaitingFacts, FS_CardinalityType
<1> HIDE DEF S, n
<1>5. \A i \in 1..n : limit[ord[i]] = quota[ord[i]] + l[i - 1] /\ l[i] = 0
  <2> SUFFICES ASSUME NEW i \in 1..n
               PROVE  limit[ord[i]] = quota[ord[i]] + l[i - 1] /\ l[i] = 0
    OBVIOUS
  <2>1. /\ ord[i] \in S /\ l[i - 1] \in Nat
        /\ limit[ord[i]] = Smaller(backlog[ord[i]], quota[ord[i]] + l[i - 1])
        /\ l[i] = (quota[ord[i]] + l[i - 1]) - limit[ord[i]]
    BY <1>2
  <2>2. /\ quota[ord[i]] \in Nat /\ limit[ord[i]] \in Nat /\ backlog[ord[i]] \in Nat
        /\ limit[ord[i]] < backlog[ord[i]]
    BY <1>3, <2>1
  <2>3. limit[ord[i]] = quota[ord[i]] + l[i - 1]
    BY <2>1, <2>2 DEF Smaller
  <2> QED
    BY <2>1, <2>2, <2>3
<1>6. limit[q] = quota[q]
  <2>1. PICK i \in 1..n : ord[i] = q
    BY <1>2 DEF S
  <2>2. l[i - 1] = 0
    <3>1. CASE i = 1
      BY <1>2, <3>1
    <3>2. CASE i # 1
      <4>1. i - 1 \in 1..n
        BY <1>4, <3>2
      <4> QED
        BY <1>5, <4>1
    <3> QED
      BY <3>1, <3>2
  <2>3. limit[q] = quota[q] + l[i - 1] /\ quota[q] \in Nat
    BY <1>3, <1>5, <2>1 DEF S
  <2> QED
    BY <2>2, <2>3
<1>7. Taken(q) = quota[q]
  BY <1>3, <1>6 DEF S
<1>8. /\ quota[q] \in Nat /\ WeightOf(q) \in Nat /\ TotalWeight \in Nat /\ CurrentCap \in Nat
      /\ 2 * WeightOf(q) * CurrentCap - 2 * quota[q] * TotalWeight <= TotalWeight
      /\ 2 * quota[q] * TotalWeight - 2 * WeightOf(q) * CurrentCap <= TotalWeight
  BY <1>1, LimitOf
<1> QED
  <2>1. PICK x \in Nat, w \in Nat, t \in Nat, c \in Nat :
           x = quota[q] /\ w = WeightOf(q) /\ t = TotalWeight /\ c = CurrentCap
    BY <1>8
  <2>2. 2 * w * c - 2 * x * t <= t /\ 2 * x * t - 2 * w * c <= t
    BY <1>8, <2>1
  <2>3. 2 * (x * t - w * c) = 2 * x * t - 2 * w * c /\ 2 * x * t \in Nat /\ 2 * w * c \in Nat
    OBVIOUS
  <2>4. 2 * (x * t - w * c) \in -t .. t
    BY <2>2, <2>3
  <2> QED
    BY <1>7, <2>1, <2>4

(* When every queue has more than it gets, the slots are distributed by    *)
(* weight to the nearest transaction.                                      *)
THEOREM ProportionalWhenFullHolds == Spec => ProportionalWhenFull
<1> DEFINE A == TakesUnit /\ (\A q \in DOMAIN Waiting : backlog'[q] > 0) =>
                  \A q \in DOMAIN Waiting :
                     2 * (Taken(q) * TotalWeight - WeightOf(q) * CurrentCap)
                        \in -TotalWeight .. TotalWeight
<1>1. TypeOK /\ [Next]_vars => [A]_vars
  BY ProportionalStep
<1>2. Spec => [][A]_vars
  BY <1>1, FanoutTypeCorrect, PTL DEF Spec
<1> QED
  BY <1>2 DEF ProportionalWhenFull

-----------------------------------------------------------------------------
(* How far rounding may exceed the capacity. *)

(* What a step takes from all the queues that wait. *)
TakenTotal == MapThenSumSet(LAMBDA q : Taken(q), DOMAIN Waiting)

(* If f is what a step takes from each queue, the total taken is the sum   *)
(* of f.                                                                   *)
LEMMA TakenUnfold ==
    ASSUME NEW S, IsFiniteSet(S), S = DOMAIN Waiting,
           NEW f, \A q \in S : Taken(q) = f[q]
    PROVE  \E g : IsSum(g, f, S) /\ TakenTotal = g[S]
<1> DEFINE Body(g) == [s \in SUBSET S |-> IF s = {} THEN 0 ELSE Taken(Pick(s)) + g[s \ {Pick(s)}]]
           it == CHOOSE g : g = Body(g)
           BodyF(g) == [s \in SUBSET S |-> IF s = {} THEN 0 ELSE f[Pick(s)] + g[s \ {Pick(s)}]]
<1>1. ASSUME NEW g PROVE Body(g) = BodyF(g)
  BY PickIn
<1>2. it = Body(it)
  <2>1. \E g : g = BodyF(g)
    <3>1. PICK g : IsSum(g, f, S)
      BY SumExists
    <3>2. g = BodyF(g)
      BY <3>1 DEF IsSum
    <3> QED
      BY <3>2
  <2> HIDE DEF Body, BodyF
  <2>2. \E g : g = Body(g)
    BY <1>1, <2>1
  <2> QED
    BY <2>2
<1>3. TakenTotal = it[S]
  BY DEF TakenTotal, MapThenSumSet, MapThenFoldSet, Pick
<1>4. it = BodyF(it)
  <2> HIDE DEF Body, BodyF, it
  <2> QED
    BY <1>1, <1>2
<1> QED
  BY <1>3, <1>4 DEF IsSum

(* The equations of a sum, under a name of their own: a proof about two    *)
(* sums at once cites them by name and expands them later.                 *)
SumSteps(g, f, S) ==
    /\ g[{}] = 0
    /\ \A s \in SUBSET S : s # {} => g[s] = f[Pick(s)] + g[s \ {Pick(s)}]

(* A sum has these equations. *)
LEMMA SumStepsHold ==
    ASSUME NEW S, NEW f, NEW g, IsSum(g, f, S)
    PROVE  SumSteps(g, f, S)
BY SumAt DEF SumSteps

(* Along the order, limits and leftover together are the quotas. *)
LEMMA LimitsWithinQuotas ==
    ASSUME NEW S, IsFiniteSet(S), NEW quota \in [S -> Nat], NEW limit \in [S -> Nat],
           NEW ord \in Orders(S), NEW l, l[0] = 0,
           \A i \in 0..Cardinality(S) : l[i] \in Nat,
           \A i \in 1..Cardinality(S) : l[i] = (quota[ord[i]] + l[i - 1]) - limit[ord[i]],
           NEW gl, IsSum(gl, limit, S), NEW gq, IsSum(gq, quota, S)
    PROVE  gl[S] <= gq[S]
<1> DEFINE n == Cardinality(S)
           P(i) == {ord[k] : k \in 1..i}
<1>1. /\ n \in Nat /\ ord \in [1..n -> S]
      /\ \A i, j \in 1..n : ord[i] = ord[j] => i = j
      /\ \A q \in S : \E i \in 1..n : ord[i] = q
  BY OrdersVisit
<1>2. /\ \A i \in 0..n : l[i] \in Nat
      /\ \A i \in 1..n : l[i] = (quota[ord[i]] + l[i - 1]) - limit[ord[i]]
  OBVIOUS
<1> HIDE DEF n
<1>3. \A s \in SUBSET S : gl[s] \in Nat /\ gq[s] \in Nat
  BY SumNat
<1>4. \A s \in SUBSET S : \A x \in s : gl[s] = limit[x] + gl[s \ {x}] /\ gq[s] = quota[x] + gq[s \ {x}]
  <2>1. SumParts(gl, limit, S)
    BY SumRemove
  <2>2. SumParts(gq, quota, S)
    BY SumRemove
  <2> QED
    BY <2>1, <2>2 DEF SumParts
<1>5. P(0) = {} /\ P(n) = S /\ \A i \in 0..n : P(i) \in SUBSET S
  <2>1. P(0) = {}
    OBVIOUS
  <2>2. \A i \in 0..n : P(i) \in SUBSET S
    <3> SUFFICES ASSUME NEW i \in 0..n, NEW k \in 1..i PROVE ord[k] \in S
      OBVIOUS
    <3>1. k \in 1..n
      BY <1>1
    <3> QED
      BY <1>1, <3>1
  <2>3. S \subseteq P(n)
    BY <1>1
  <2> QED
    BY <1>1, <2>1, <2>2, <2>3
<1>6. \A i \in 1..n : ord[i] \in P(i) /\ P(i) \ {ord[i]} = P(i - 1)
  <2> SUFFICES ASSUME NEW i \in 1..n PROVE ord[i] \in P(i) /\ P(i) \ {ord[i]} = P(i - 1)
    OBVIOUS
  <2>1. i \in 1..i /\ \A k \in 1..(i - 1) : k \in 1..i /\ k \in 1..n /\ k # i
    BY <1>1
  <2>2. \A k \in 1..i : k \in 1..n /\ (k = i \/ k \in 1..(i - 1))
    BY <1>1
  <2>3. P(i - 1) \subseteq P(i) \ {ord[i]}
    BY <1>1, <2>1
  <2>4. P(i) \ {ord[i]} \subseteq P(i - 1)
    BY <1>1, <2>2
  <2> QED
    BY <2>1, <2>3, <2>4
<1>7. gl[{}] = 0 /\ gq[{}] = 0
  <2>1. gl[{}] = 0
    BY SumAt
  <2>2. gq[{}] = 0
    BY SumAt
  <2> QED
    BY <2>1, <2>2
<1> HIDE DEF P
<1>8. \A i \in 0..n : gl[P(i)] + l[i] = gq[P(i)]
  <2> DEFINE Bad == {i \in 0..n : gl[P(i)] + l[i] # gq[P(i)]}
  <2> SUFFICES ASSUME Bad # {} PROVE FALSE
    OBVIOUS
  <2>1. PICK m \in Bad : \A k \in Bad : m <= k
    <3>1. Bad \subseteq Nat
      BY <1>1
    <3> HIDE DEF Bad
    <3> QED
      BY <3>1, NatMin
  <2>2. m \in 0..n /\ gl[P(m)] + l[m] # gq[P(m)]
    BY <2>1
  <2>3. m # 0
    <3>1. gl[P(0)] + l[0] = gq[P(0)]
      BY <1>5, <1>7
    <3> HIDE DEF Bad
    <3> QED
      BY <2>2, <3>1
  <2>4. m \in 1..n /\ m - 1 \in 0..n
    BY <1>1, <2>2, <2>3
  <2>5. m - 1 \notin Bad
    <3> HIDE DEF Bad
    <3> QED
      BY <1>1, <2>1, <2>4
  <2>6. gl[P(m - 1)] + l[m - 1] = gq[P(m - 1)]
    BY <2>4, <2>5
  <2>7. gl[P(m)] = limit[ord[m]] + gl[P(m - 1)] /\ gq[P(m)] = quota[ord[m]] + gq[P(m - 1)]
    <3>1. P(m) \in SUBSET S /\ ord[m] \in P(m) /\ P(m) \ {ord[m]} = P(m - 1)
      BY <1>5, <1>6, <2>2, <2>4
    <3>2. gl[P(m)] = limit[ord[m]] + gl[P(m) \ {ord[m]}]
          /\ gq[P(m)] = quota[ord[m]] + gq[P(m) \ {ord[m]}]
      BY <1>4, <3>1
    <3> QED
      BY <3>1, <3>2
  <2>8. l[m] = (quota[ord[m]] + l[m - 1]) - limit[ord[m]]
    BY <1>2, <2>4
  <2>9. /\ quota[ord[m]] \in Nat /\ limit[ord[m]] \in Nat /\ l[m - 1] \in Nat
        /\ gl[P(m - 1)] \in Nat /\ gq[P(m - 1)] \in Nat
    BY <1>1, <1>2, <1>3, <1>5, <2>4
  <2>10. gl[P(m)] + l[m] = gq[P(m)]
    <3> HIDE DEF Bad
    <3> QED
      BY <2>6, <2>7, <2>8, <2>9
  <2> QED
    BY <2>2, <2>10
<1>9. n \in 0..n /\ S \in SUBSET S
  BY <1>1
<1>10. gl[S] + l[n] = gq[S] /\ l[n] \in Nat /\ gl[S] \in Nat
  BY <1>2, <1>3, <1>5, <1>8, <1>9
<1> QED
  BY <1>10

(* The quotas of any queues exceed their share of the capacity by at most  *)
(* half a transaction each.                                                *)
LEMMA QuotasBounded ==
    ASSUME NEW S, IsFiniteSet(S), NEW quota \in [S -> Nat], NEW w \in [S -> Nat],
           NEW total \in Nat, NEW cap \in Nat,
           \A q \in S : 2 * quota[q] * total - 2 * w[q] * cap <= total,
           NEW gq, IsSum(gq, quota, S), NEW gw, IsSum(gw, w, S)
    PROVE  2 * gq[S] * total <= 2 * gw[S] * cap + Cardinality(S) * total
<1> DEFINE Fits(s) == 2 * gq[s] * total <= 2 * gw[s] * cap + Cardinality(s) * total
           Bad == {s \in SUBSET S : ~ Fits(s)}
<1>1. \A s \in SUBSET S : gq[s] \in Nat /\ gw[s] \in Nat
  BY SumNat
<1>2. /\ gq[{}] = 0
      /\ \A s \in SUBSET S : s # {} => gq[s] = quota[Pick(s)] + gq[s \ {Pick(s)}]
  <2>1. SumSteps(gq, quota, S)
    BY SumStepsHold
  <2> QED
    BY <2>1 DEF SumSteps
<1>3. /\ gw[{}] = 0
      /\ \A s \in SUBSET S : s # {} => gw[s] = w[Pick(s)] + gw[s \ {Pick(s)}]
  <2>1. SumSteps(gw, w, S)
    BY SumStepsHold
  <2> QED
    BY <2>1 DEF SumSteps
<1>4. \A s \in SUBSET S : IsFiniteSet(s) /\ Cardinality(s) \in Nat
  BY FS_Subset, FS_CardinalityType
<1>5. Bad = {}
  <2> SUFFICES ASSUME Bad # {} PROVE FALSE
    OBVIOUS
  <2>1. PICK m \in Bad : \A k \in Bad : k \subseteq m => k = m
    <3>1. Bad \subseteq SUBSET S
      OBVIOUS
    <3> HIDE DEF Bad
    <3> QED
      BY <3>1, SubsetMin
  <2>2. m \in SUBSET S /\ ~ Fits(m)
    BY <2>1
  <2>3. m # {}
    <3>1. Fits({})
      BY <1>2, <1>3, FS_EmptySet
    <3> QED
      BY <2>2, <3>1
  <2>4. PICK p : p = Pick(m)
    OBVIOUS
  <2>5. PICK r : r = m \ {p}
    OBVIOUS
  <2>6. p \in m /\ p \in S /\ r \in SUBSET S /\ r \subseteq m /\ r # m
    BY <2>2, <2>3, <2>4, <2>5, PickIn
  <2>7. Fits(r)
    <3> HIDE DEF Fits
    <3> QED
      BY <2>1, <2>6
  <2>8. gq[m] = quota[p] + gq[r] /\ gw[m] = w[p] + gw[r]
    BY <1>2, <1>3, <2>2, <2>3, <2>4, <2>5
  <2>9. Cardinality(m) = Cardinality(r) + 1
    BY <1>4, <2>2, <2>5, <2>6, FS_RemoveElement
  <2>10. PICK x \in Nat, y \in Nat, a \in Nat, b \in Nat, c \in Nat :
            /\ x = quota[p] /\ y = w[p] /\ a = gq[r] /\ b = gw[r] /\ c = Cardinality(r)
    BY <1>1, <1>4, <2>6
  <2>11. 2 * x * total - 2 * y * cap <= total /\ 2 * a * total <= 2 * b * cap + c * total
    BY <2>6, <2>7, <2>10
  <2>12. 2 * (x + a) * total <= 2 * (y + b) * cap + (c + 1) * total
    <3>1. /\ 2 * (x + a) * total = 2 * x * total + 2 * a * total
          /\ 2 * (y + b) * cap = 2 * y * cap + 2 * b * cap
          /\ (c + 1) * total = c * total + total
      OBVIOUS
    <3>2. /\ 2 * x * total \in Nat /\ 2 * a * total \in Nat /\ 2 * y * cap \in Nat
          /\ 2 * b * cap \in Nat /\ c * total \in Nat
      OBVIOUS
    <3> QED
      BY <2>11, <3>1, <3>2
  <2>13. Fits(m)
    BY <2>8, <2>9, <2>10, <2>12
  <2> QED
    BY <2>2, <2>13
<1>6. S \in SUBSET S
  OBVIOUS
<1> QED
  BY <1>5, <1>6

(* Dividing by the total weight. *)
LEMMA HalfEach ==
    ASSUME NEW t \in Nat, t > 0, NEW x \in Nat, NEW c \in Nat, NEW n \in Nat,
           2 * x * t <= 2 * t * c + n * t
    PROVE  x <= c + n \div 2
<1>1. 2 * x <= 2 * c + n
  <2> SUFFICES ASSUME 2 * c + n + 1 <= 2 * x PROVE FALSE
    OBVIOUS
  <2>1. (2 * c + n + 1) * t <= (2 * x) * t
    OBVIOUS
  <2>2. (2 * c + n + 1) * t = 2 * t * c + n * t + t
    OBVIOUS
  <2>3. (2 * x) * t = 2 * x * t /\ 2 * t * c \in Nat /\ n * t \in Nat /\ 2 * x * t \in Nat
    OBVIOUS
  <2> QED
    BY <2>1, <2>2, <2>3
<1> QED
  BY <1>1

(* The limits are within the quotas, the quotas within half a transaction  *)
(* of the shares, and the shares add up to the capacity.                   *)
LEMMA OvershootStep ==
    ASSUME TypeOK, [Next]_vars, TakesUnit
    PROVE  TakenTotal <= CurrentCap + Cardinality(DOMAIN Waiting) \div 2
<1>1. PICK quota, ord, limit : Unit(quota, ord, limit)
  BY TakesIsUnit, IngestUnit
<1>2. PICK S : S = DOMAIN Waiting
  OBVIOUS
<1>3. PICK w : w = [q \in S |-> WeightOf(q)]
  OBVIOUS
<1>4. /\ IsFiniteSet(S) /\ CurrentCap \in Nat /\ TotalWeight \in Nat /\ TotalWeight > 0
      /\ quota \in [S -> Nat] /\ limit \in [S -> Nat] /\ w \in [S -> Nat]
      /\ \A q \in S : Taken(q) = limit[q]
      /\ Cardinality(S) \in Nat
  <2>1. IsFiniteSet(S) /\ CurrentCap \in Nat /\ TotalWeight \in Nat
    BY <1>2, WaitingFacts
  <2>2. quota \in [S -> Nat] /\ limit \in [S -> Nat] /\ \A q \in S : Taken(q) = limit[q]
    BY <1>1, <1>2, UnitFacts
  <2>3. TotalWeight > 0
    BY <1>1, UnitHasWeight
  <2>4. w \in [S -> Nat]
    BY <1>3, WeightNat
  <2> QED
    BY <2>1, <2>2, <2>3, <2>4, FS_CardinalityType
<1>5. PICK gl : IsSum(gl, limit, S) /\ TakenTotal = gl[S]
  BY <1>2, <1>4, TakenUnfold
<1>6. PICK gq : IsSum(gq, quota, S)
  BY <1>4, SumExists
<1>7. PICK gw : IsSum(gw, w, S) /\ TotalWeight = gw[S]
  BY <1>2, <1>3, <1>4, WeightUnfold DEF TotalWeight
<1>8. gl[S] <= gq[S]
  <2>1. PICK l : /\ l[0] = 0
                 /\ \A i \in 0..Cardinality(S) : l[i] \in Nat
                 /\ \A i \in 1..Cardinality(S) :
                      l[i] = (quota[ord[i]] + l[i - 1]) - limit[ord[i]]
    BY <1>1, <1>2, PlaceOf
  <2>2. ord \in Orders(S)
    BY <1>1, <1>2 DEF Unit
  <2> QED
    BY <1>4, <1>5, <1>6, <2>1, <2>2, LimitsWithinQuotas
<1>9. \A q \in S : 2 * quota[q] * TotalWeight - 2 * w[q] * CurrentCap <= TotalWeight
  <2> SUFFICES ASSUME NEW q \in S
               PROVE  2 * quota[q] * TotalWeight - 2 * w[q] * CurrentCap <= TotalWeight
    OBVIOUS
  <2>1. 2 * quota[q] * TotalWeight - 2 * WeightOf(q) * CurrentCap <= TotalWeight
    BY <1>1, <1>2, LimitOf
  <2>2. w[q] = WeightOf(q)
    BY <1>3
  <2> QED
    BY <2>1, <2>2
<1>10. 2 * gq[S] * TotalWeight <= 2 * gw[S] * CurrentCap + Cardinality(S) * TotalWeight
  BY <1>4, <1>6, <1>7, <1>9, QuotasBounded
<1>11. gq[S] \in Nat /\ gl[S] \in Nat
  <2>1. S \in SUBSET S
    OBVIOUS
  <2>2. gq[S] \in Nat
    BY <1>4, <1>6, <2>1, SumNat
  <2>3. gl[S] \in Nat
    BY <1>4, <1>5, <2>1, SumNat
  <2> QED
    BY <2>2, <2>3
<1>12. 2 * gq[S] * TotalWeight <= 2 * TotalWeight * CurrentCap + Cardinality(S) * TotalWeight
  BY <1>7, <1>10
<1>13. gq[S] <= CurrentCap + Cardinality(S) \div 2
  BY <1>4, <1>11, <1>12, HalfEach
<1>14. gl[S] <= CurrentCap + Cardinality(S) \div 2
  <2>1. Cardinality(S) \div 2 \in Nat
    BY <1>4
  <2> QED
    BY <1>4, <1>8, <1>11, <1>13, <2>1
<1> QED
  BY <1>2, <1>5, <1>14

(* A unit exceeds the capacity by at most half a transaction for every     *)
(* queue that waits.                                                       *)
THEOREM OvershootBoundedHolds == Spec => OvershootBounded
<1> DEFINE A == TakesUnit =>
                  MapThenSumSet(LAMBDA q : Taken(q), DOMAIN Waiting)
                     <= CurrentCap + Cardinality(DOMAIN Waiting) \div 2
<1>1. TypeOK /\ [Next]_vars => [A]_vars
  BY OvershootStep DEF TakenTotal
<1>2. Spec => [][A]_vars
  BY <1>1, FanoutTypeCorrect, PTL DEF Spec
<1> QED
  BY <1>2 DEF OvershootBounded

=============================================================================
