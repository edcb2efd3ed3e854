------------------------------- MODULE Lemmas -------------------------------
(***************************************************************************)
(* Facts about data that the proofs of several modules need: least         *)
(* numbers, induction over the subsets of a finite set, sums, quotients    *)
(* and enumerations.  The induction theorems of the library take an        *)
(* operator; these take the set of what the operator holds of.             *)
(***************************************************************************)
EXTENDS Integers, Functions, FiniteSetTheorems, WellFoundedInduction, TLAPS

LEMMA NatLeast ==
  ASSUME NEW T \in SUBSET Nat, T # {}
  PROVE  \E x \in T : \A y \in T : x <= y
<1> DEFINE R == {p \in Nat \X Nat : p[1] < p[2]}
<1>1. IsWellFoundedOn(R, Nat)
  BY NatLessThanWellFounded DEF OpToRel
<1>2. \E x \in T : \A y \in T : ~ (<<y, x>> \in R)
  BY <1>1, WFMin
<1>3. \A x, y \in T : <<y, x>> \notin R => x <= y
  OBVIOUS
<1> HIDE DEF R
<1> QED
  BY <1>2, <1>3

LEMMA NatSetInduction ==
  ASSUME NEW T, 0 \in T, \A n \in Nat : n \in T => n + 1 \in T
  PROVE  Nat \subseteq T
<1> SUFFICES ASSUME Nat \ T # {} PROVE FALSE
  OBVIOUS
<1>1. PICK x \in Nat \ T : \A y \in Nat \ T : x <= y
  BY NatLeast
<1>2. x # 0 /\ x - 1 \in Nat /\ x - 1 \notin T
  BY <1>1
<1> QED
  BY <1>1, <1>2

\* What holds of the empty subset of a finite set, and of a subset when it
\* holds of the smaller ones, holds of every subset.
LEMMA SubsetInduction ==
  ASSUME NEW S, IsFiniteSet(S), NEW T,
         \A s \in SUBSET S : (\A x \in s : s \ {x} \in T) => s \in T
  PROVE  SUBSET S \subseteq T
<1> SUFFICES ASSUME (SUBSET S) \ T # {} PROVE FALSE
  OBVIOUS
<1> DEFINE N == {Cardinality(s) : s \in (SUBSET S) \ T}
<1>1. \A s \in SUBSET S : IsFiniteSet(s) /\ Cardinality(s) \in Nat
  BY FS_Subset, FS_CardinalityType
<1>2. N \in SUBSET Nat /\ N # {}
  BY <1>1
<1>3. PICK n \in N : \A m \in N : n <= m
  BY <1>2, NatLeast
<1>4. PICK s \in (SUBSET S) \ T : n = Cardinality(s)
  BY <1>3
<1>5. PICK x \in s : s \ {x} \notin T
  BY <1>4
<1>6. s \ {x} \in (SUBSET S) \ T /\ Cardinality(s \ {x}) = n - 1
  BY <1>1, <1>4, <1>5, FS_RemoveElement
<1>7. n - 1 \in N /\ n \in Nat
  BY <1>2, <1>3, <1>6
<1> HIDE DEF N
<1> QED
  BY <1>3, <1>7

(* A sequence of values, each computed from the one before it.             *)
Iterates(g, N, V, b, step) ==
  g \in [0 .. N -> V] /\ g[0] = b /\ \A n \in 1 .. N : g[n] = step[n][g[n - 1]]

LEMMA RecursionExists ==
  ASSUME NEW N \in Nat, NEW V, NEW b \in V, NEW step \in [1 .. N -> [V -> V]]
  PROVE  \E g : Iterates(g, N, V, b, step)
<1> DEFINE Solves(g, n) == g \in [0 .. n -> V] /\ g[0] = b /\ \A k \in 1 .. n : g[k] = step[k][g[k - 1]]
           T == {n \in Nat : n <= N => \E g : Solves(g, n)}
<1>1. 0 \in T
  <2>1. Solves([n \in 0 .. 0 |-> b], 0)
    OBVIOUS
  <2> HIDE DEF Solves
  <2> QED
    BY <2>1
<1>2. ASSUME NEW n \in Nat, n \in T PROVE n + 1 \in T
  <2> SUFFICES ASSUME n + 1 <= N PROVE \E g : Solves(g, n + 1)
    OBVIOUS
  <2>1. PICK g : Solves(g, n)
    BY <1>2
  <2> DEFINE h == [k \in 0 .. n + 1 |-> IF k = n + 1 THEN step[n + 1][g[n]] ELSE g[k]]
  <2>2. \A k \in 0 .. n : h[k] = g[k] /\ g[k] \in V
    BY <2>1
  <2>3. h[n + 1] = step[n + 1][g[n]] /\ h[n + 1] \in V
    <3>1. n + 1 \in 1 .. N /\ n \in 0 .. n
      OBVIOUS
    <3>2. step[n + 1] \in [V -> V] /\ g[n] \in V
      <4> HIDE DEF h
      <4> QED
        BY <2>2, <3>1
    <3> QED
      BY <3>2
  <2>4. h \in [0 .. n + 1 -> V]
    <3>1. DOMAIN h = 0 .. n + 1 /\ h = [k \in 0 .. n + 1 |-> h[k]]
      OBVIOUS
    <3>2. ASSUME NEW k \in 0 .. n + 1 PROVE h[k] \in V
      <4>1. k = n + 1 \/ k \in 0 .. n
        OBVIOUS
      <4> HIDE DEF h
      <4> QED
        BY <2>2, <2>3, <4>1
    <3> HIDE DEF h
    <3> QED
      BY <3>1, <3>2
  <2> HIDE DEF h
  <2>5. h[0] = b
    BY <2>1, <2>2
  <2>6. ASSUME NEW k \in 1 .. n + 1 PROVE h[k] = step[k][h[k - 1]]
    <3>1. CASE k = n + 1
      BY <2>2, <2>3, <3>1
    <3>2. CASE k # n + 1
      <4>1. k \in 1 .. n /\ k \in 0 .. n /\ k - 1 \in 0 .. n
        BY <3>2
      <4> QED
        BY <2>1, <2>2, <4>1
    <3> QED
      BY <3>1, <3>2
  <2> QED
    BY <2>4, <2>5, <2>6
<1>3. N \in T
  <2> HIDE DEF T
  <2> QED
    BY <1>1, <1>2, NatSetInduction
<1> QED
  BY <1>3 DEF Iterates

-----------------------------------------------------------------------------
(* Sums.                                                                   *)

AnyOf(s) == CHOOSE x \in s : TRUE

SumStep(f, S, sum) == [s \in SUBSET S |-> IF s = {} THEN 0 ELSE f[AnyOf(s)] + sum[s \ {AnyOf(s)}]]

\* The recursion that a sum is defined by has a solution.
LEMMA SumExists ==
  ASSUME NEW S, IsFiniteSet(S), NEW f
  PROVE  \E sum : sum = SumStep(f, S, sum)
<1> DEFINE Size(s) == Cardinality(s)
           Upto(n) == {s \in SUBSET S : Size(s) <= n}
           F(s, g) == IF s = {} THEN 0 ELSE f[AnyOf(s)] + g[s \ {AnyOf(s)}]
           Solves(g, n) == g = [s \in Upto(n) |-> F(s, g)]
           T == {n \in Nat : \E g : Solves(g, n)}
<1>1. \A s \in SUBSET S : Size(s) \in Nat /\ Size(s) <= Size(S)
                        /\ (s # {} => s \ {AnyOf(s)} \in SUBSET S /\ Size(s \ {AnyOf(s)}) = Size(s) - 1)
                        /\ (Size(s) = 0 <=> s = {})
  <2> SUFFICES ASSUME NEW s \in SUBSET S
               PROVE  Size(s) \in Nat /\ Size(s) <= Size(S)
                        /\ (s # {} => s \ {AnyOf(s)} \in SUBSET S /\ Size(s \ {AnyOf(s)}) = Size(s) - 1)
                        /\ (Size(s) = 0 <=> s = {})
    OBVIOUS
  <2>1. IsFiniteSet(s) /\ Size(s) \in Nat /\ Size(s) <= Size(S) /\ (Size(s) = 0 <=> s = {})
    BY FS_Subset, FS_CardinalityType, FS_EmptySet
  <2>2. s # {} => AnyOf(s) \in s
    BY DEF AnyOf
  <2>3. s # {} => Size(s \ {AnyOf(s)}) = Size(s) - 1
    BY <2>1, <2>2, FS_RemoveElement
  <2> QED
    BY <2>1, <2>3
<1> HIDE DEF Size
<1>2. 0 \in T
  <2> DEFINE g == [s \in Upto(0) |-> 0]
  <2>1. ASSUME NEW s \in Upto(0) PROVE s = {}
    <3>1. Size(s) \in Nat /\ Size(s) <= 0 /\ (Size(s) = 0 <=> s = {})
      BY <1>1
    <3> QED
      BY <3>1
  <2>2. g = [s \in Upto(0) |-> F(s, g)]
    BY <2>1
  <2> HIDE DEF g
  <2> QED
    BY <2>2
<1>3. ASSUME NEW n \in Nat, n \in T PROVE n + 1 \in T
  <2>1. PICK g : Solves(g, n)
    BY <1>3
  <2> DEFINE h == [s \in Upto(n + 1) |-> F(s, g)]
  <2>2. \A s \in Upto(n) : s \in Upto(n + 1) /\ h[s] = g[s]
    <3>1. ASSUME NEW s \in Upto(n) PROVE s \in Upto(n + 1)
      <4>1. s \in SUBSET S /\ Size(s) \in Nat /\ Size(s) <= n
        BY <1>1
      <4>2. Size(s) <= n + 1
        BY <4>1
      <4> QED
        BY <4>1, <4>2
    <3>2. \A s \in Upto(n) : g[s] = F(s, g)
      BY <2>1
    <3> HIDE DEF Upto, F
    <3> QED
      BY <3>1, <3>2
  <2>3. \A s \in Upto(n + 1) : F(s, g) = F(s, h)
    <3> SUFFICES ASSUME NEW s \in Upto(n + 1), s # {} PROVE F(s, g) = F(s, h)
      OBVIOUS
    <3>1. s \ {AnyOf(s)} \in Upto(n)
      BY <1>1
    <3> HIDE DEF Upto, h
    <3> QED
      BY <2>2, <3>1
  <2>4. h = [s \in Upto(n + 1) |-> F(s, h)]
    <3>1. \A s \in Upto(n + 1) : h[s] = F(s, h)
      <4> HIDE DEF F, Upto
      <4> QED
        BY <2>3
    <3> HIDE DEF F, Upto
    <3> QED
      BY <2>3
  <2>5. Solves(h, n + 1)
    BY <2>4
  <2> HIDE DEF h, Solves
  <2> QED
    BY <2>5
<1>4. Size(S) \in T
  <2>1. Nat \subseteq T
    <3> HIDE DEF T
    <3> QED
      BY <1>2, <1>3, NatSetInduction
  <2> QED
    BY <1>1, <2>1
<1>5. Upto(Size(S)) = SUBSET S
  BY <1>1
<1>6. PICK g : Solves(g, Size(S))
  BY <1>4
<1>7. g = SumStep(f, S, g)
  BY <1>5, <1>6 DEF SumStep
<1> QED
  BY <1>7

LEMMA SumIs ==
  ASSUME NEW f
  PROVE  SumFunction(f) = (CHOOSE sum : sum = SumStep(f, DOMAIN f, sum))[DOMAIN f]
BY Zenon DEF SumFunction, SumFunctionOnSet, FoldFunctionOnSet, MapThenFoldSet, SumStep, AnyOf

\* The sums of a function over the subsets of its domain.
SumsOf(f, S, sum) ==
  /\ sum \in [SUBSET S -> Int]
  /\ sum[S] = SumFunction(f)
  /\ sum[{}] = 0
  /\ \A s \in SUBSET S : s # {} => \E x \in s : sum[s] = f[x] + sum[s \ {x}]

LEMMA SumSteps ==
  ASSUME NEW S, IsFiniteSet(S), NEW f \in [S -> Int]
  PROVE  \E sum : SumsOf(f, S, sum)
<1> DEFINE sum == CHOOSE g : g = SumStep(f, S, g)
<1>1. sum = SumStep(f, S, sum)
  BY SumExists
<1>2. SumFunction(f) = sum[S]
  BY SumIs
<1> HIDE DEF sum
<1>3. \A s \in SUBSET S : sum[s] = IF s = {} THEN 0 ELSE f[AnyOf(s)] + sum[s \ {AnyOf(s)}]
  BY <1>1, Zenon DEF SumStep
<1>4. \A s \in SUBSET S : s # {} => AnyOf(s) \in s
  BY DEF AnyOf
<1>5. SUBSET S \subseteq {s \in SUBSET S : sum[s] \in Int}
  <2> DEFINE T == {s \in SUBSET S : sum[s] \in Int}
  <2>1. ASSUME NEW s \in SUBSET S, \A x \in s : s \ {x} \in T PROVE s \in T
    <3>1. CASE s = {}
      <4>1. sum[s] = 0
        BY <1>3, <3>1
      <4> QED
        BY <4>1
    <3>2. CASE s # {}
      <4>1. AnyOf(s) \in s /\ AnyOf(s) \in S
        BY <1>4, <3>2
      <4>2. f[AnyOf(s)] \in Int /\ sum[s \ {AnyOf(s)}] \in Int
        BY <2>1, <4>1
      <4>3. sum[s] = f[AnyOf(s)] + sum[s \ {AnyOf(s)}]
        BY <1>3, <3>2
      <4> QED
        BY <4>2, <4>3
    <3> QED
      BY <3>1, <3>2
  <2> HIDE DEF T
  <2>2. SUBSET S \subseteq T
    BY <2>1, SubsetInduction
  <2> QED
    BY <2>2 DEF T
<1>6. sum \in [SUBSET S -> Int]
  <2>1. sum = [s \in SUBSET S |-> sum[s]]
    BY <1>1 DEF SumStep
  <2> QED
    BY <1>5, <2>1
<1>7. sum[{}] = 0
  BY <1>3
<1>8. \A s \in SUBSET S : s # {} => \E x \in s : sum[s] = f[x] + sum[s \ {x}]
  BY <1>3, <1>4
<1> QED
  BY <1>2, <1>6, <1>7, <1>8 DEF SumsOf

LEMMA Distributes ==
  ASSUME NEW v \in Int, NEW n \in Int
  PROVE  v * n \in Int /\ v * (n + 1) = v * n + v
OBVIOUS

\* An average lies between the least and the greatest of what it is taken of.
LEMMA AverageBetween ==
  ASSUME NEW S, IsFiniteSet(S), S # {}, NEW f \in [S -> Int]
  PROVE  /\ \E i \in S : f[i] * Cardinality(S) <= SumFunction(f)
         /\ \E i \in S : f[i] * Cardinality(S) >= SumFunction(f)
<1>1. PICK sum : SumsOf(f, S, sum)
  BY SumSteps
<1>0. /\ sum \in [SUBSET S -> Int]
      /\ sum[S] = SumFunction(f)
      /\ sum[{}] = 0
      /\ \A s \in SUBSET S : s # {} => \E x \in s : sum[s] = f[x] + sum[s \ {x}]
  BY <1>1 DEF SumsOf
<1> DEFINE Low(s)  == \E i \in s : f[i] * Cardinality(s) <= sum[s]
           High(s) == \E i \in s : f[i] * Cardinality(s) >= sum[s]
           T == {s \in SUBSET S : s # {} => Low(s) /\ High(s)}
<1>2. ASSUME NEW s \in SUBSET S, \A x \in s : s \ {x} \in T PROVE s \in T
  <2> SUFFICES ASSUME s # {} PROVE Low(s) /\ High(s)
    OBVIOUS
  <2>1. PICK x \in s : sum[s] = f[x] + sum[s \ {x}]
    BY <1>0
  <2> DEFINE r == s \ {x}
             n == Cardinality(r)
  <2>2. n \in Nat /\ Cardinality(s) = n + 1 /\ (n = 0 <=> r = {}) /\ IsFiniteSet(s)
    <3>1. IsFiniteSet(s) /\ IsFiniteSet(r)
      BY FS_Subset
    <3>2. n \in Nat /\ Cardinality(s) \in Nat /\ (n = 0 <=> r = {})
      BY <3>1, FS_CardinalityType, FS_EmptySet
    <3>3. n = Cardinality(s) - 1
      BY <3>1, FS_RemoveElement
    <3> HIDE DEF n
    <3> QED
      BY <3>1, <3>2, <3>3
  <2>3. r \in T /\ r \in SUBSET S /\ f[x] \in Int /\ sum[r] \in Int /\ sum[s] = f[x] + sum[r]
    BY <1>0, <1>2, <2>1
  <2>4. CASE r = {}
    <3>0. \A v \in Int : v * 1 = v
      OBVIOUS
    <3>1. sum[s] = f[x] /\ Cardinality(s) = 1
      BY <1>0, <2>2, <2>3, <2>4
    <3>2. f[x] * Cardinality(s) = sum[s] /\ sum[s] \in Int
      <4> HIDE DEF n, r
      <4> QED
        BY <2>3, <3>0, <3>1
    <3>3. f[x] * Cardinality(s) <= sum[s] /\ f[x] * Cardinality(s) >= sum[s]
      BY <3>2
    <3> HIDE DEF n, r
    <3> QED
      BY <3>3
  <2>5. CASE r # {}
    <3>1. PICK i \in r : f[i] * n <= sum[r]
      BY <2>3, <2>5
    <3>2. PICK j \in r : f[j] * n >= sum[r]
      BY <2>3, <2>5
    <3>3. f[i] \in Int /\ f[j] \in Int
      BY <2>3
    <3> DEFINE a == f[i]
               b == f[j]
               v == f[x]
    <3> HIDE DEF a, b, v, n, r
    <3>4. /\ a \in Int /\ b \in Int /\ v \in Int /\ n \in Nat /\ sum[r] \in Int
          /\ a * n <= sum[r] /\ b * n >= sum[r] /\ sum[s] = v + sum[r]
      BY <2>2, <2>3, <3>1, <3>2, <3>3 DEF a, b, v
    <3>5. /\ a * (n + 1) = a * n + a /\ b * (n + 1) = b * n + b /\ v * (n + 1) = v * n + v
          /\ a * n \in Int /\ b * n \in Int /\ v * n \in Int
      BY <3>4, Distributes
    <3>6. Low(s)
      <4>1. CASE a <= v
        <5>1. a * (n + 1) <= sum[s]
          BY <3>4, <3>5, <4>1
        <5> QED
          BY <2>2, <3>1, <5>1 DEF a, r
      <4>2. CASE v < a
        <5>1. v * n <= a * n
          BY <3>4, <4>2
        <5>2. v * (n + 1) <= sum[s]
          BY <3>4, <3>5, <5>1
        <5> QED
          BY <2>2, <5>2 DEF v
      <4> QED
        BY <3>4, <4>1, <4>2
    <3>7. High(s)
      <4>1. CASE b >= v
        <5>1. b * (n + 1) >= sum[s]
          BY <3>4, <3>5, <4>1
        <5> QED
          BY <2>2, <3>2, <5>1 DEF b, r
      <4>2. CASE v > b
        <5>1. v * n >= b * n
          BY <3>4, <4>2
        <5>2. v * (n + 1) >= sum[s]
          BY <3>4, <3>5, <5>1
        <5> QED
          BY <2>2, <5>2 DEF v
      <4> QED
        BY <3>4, <4>1, <4>2
    <3> QED
      BY <3>6, <3>7
  <2> QED
    BY <2>4, <2>5
<1>3. SUBSET S \subseteq T
  <2>1. \A s \in SUBSET S : (\A x \in s : s \ {x} \in T) => s \in T
    BY <1>2
  <2> HIDE DEF T
  <2> QED
    BY <2>1, SubsetInduction
<1>4. Low(S) /\ High(S)
  BY <1>3
<1> QED
  BY <1>0, <1>4

-----------------------------------------------------------------------------
(* Quotients.                                                              *)

LEMMA Products ==
  ASSUME NEW b \in Nat, NEW x \in Int, NEW y \in Int, x <= y
  PROVE  b * x \in Int /\ b * y \in Int /\ b * x <= b * y
OBVIOUS

LEMMA Division ==
  ASSUME NEW a \in Nat, NEW b \in Nat \ {0}
  PROVE  /\ a \div b \in Nat /\ a % b \in Nat /\ a % b < b
         /\ a = b * (a \div b) + (a % b)
OBVIOUS

LEMMA Quotient ==
  ASSUME NEW a \in Nat, NEW b \in Nat \ {0}, NEW q \in Int, NEW r \in Nat, r < b, a = b * q + r
  PROVE  q = a \div b /\ r = a % b
<1> DEFINE p == a \div b
           s == a % b
<1>1. p \in Nat /\ s \in Nat /\ s < b /\ a = b * p + s
  BY Division
<1> HIDE DEF p, s
<1>2. b * (p + 1) = b * p + b /\ b * (q + 1) = b * q + b /\ b * p \in Int /\ b * q \in Int
  BY <1>1
<1>3. CASE p < q
  <2>1. b * (p + 1) <= b * q
    BY <1>1, <1>3, Products
  <2> QED
    BY <1>1, <1>2, <2>1
<1>4. CASE q < p
  <2>1. b * (q + 1) <= b * p
    BY <1>1, <1>4, Products
  <2> QED
    BY <1>1, <1>2, <2>1
<1>5. CASE p = q
  BY <1>1, <1>2, <1>5 DEF p, s
<1> QED
  BY <1>1, <1>3, <1>4, <1>5

LEMMA QuotientsInOrder ==
  ASSUME NEW t \in Nat, NEW u \in Nat, NEW b \in Nat \ {0}, t <= u
  PROVE  t \div b <= u \div b
<1> DEFINE p == t \div b
           q == u \div b
           r == t % b
           s == u % b
<1>1. /\ p \in Nat /\ r \in Nat /\ t = b * p + r
      /\ q \in Nat /\ s \in Nat /\ s < b /\ u = b * q + s
  BY Division
<1> HIDE DEF p, q, r, s
<1>2. SUFFICES ASSUME q < p PROVE FALSE
  BY <1>1 DEF p, q
<1>3. b * (q + 1) <= b * p /\ b * (q + 1) = b * q + b /\ b * p \in Int /\ b * q \in Int
  BY <1>1, <1>2, Products
<1> QED
  BY <1>1, <1>3

LEMMA QuotientOfQuotient ==
  ASSUME NEW t \in Nat, NEW a \in Nat \ {0}, NEW b \in Nat \ {0}
  PROVE  t \div (b * a) = (t \div a) \div b
<1> DEFINE q == t \div a
           r == t % a
           Q == q \div b
           R == q % b
<1>1. /\ q \in Nat /\ r \in Nat /\ r < a /\ t = a * q + r
      /\ Q \in Nat /\ R \in Nat /\ R < b /\ q = b * Q + R
  BY Division
<1> HIDE DEF q, r, Q, R
<1>2. b * a \in Nat \ {0} /\ b * a = a * b
  OBVIOUS
<1>3. a * R + r \in Nat /\ a * R + r < b * a
  <2>1. a * (R + 1) <= a * b /\ a * (R + 1) = a * R + a /\ a * R \in Nat
    BY <1>1, Products
  <2> QED
    BY <1>1, <1>2, <2>1
<1>4. t = (b * a) * Q + (a * R + r)
  BY <1>1
<1>5. Q = t \div (b * a)
  BY <1>1, <1>2, <1>3, <1>4, Quotient
<1> QED
  BY <1>5 DEF Q, q

-----------------------------------------------------------------------------
(* Enumerations.                                                           *)

\* An injection from 1 .. N into a set of N elements reaches each of them.
LEMMA Enumerates ==
  ASSUME NEW P, IsFiniteSet(P), NEW chart \in [1 .. Cardinality(P) -> P], IsInjective(chart)
  PROVE  \A p \in P : \E n \in DOMAIN chart : chart[n] = p
<1> DEFINE N == Cardinality(P)
<1>1. N \in Nat
  BY FS_CardinalityType
<1>2. IsFiniteSet(1 .. N) /\ Cardinality(1 .. N) = N
  BY <1>1, FS_Interval
<1>3. chart \in Injection(1 .. N, P)
  BY DEF Injection, IsInjective
<1>4. chart \in Surjection(1 .. N, P)
  BY <1>2, <1>3, FS_Injection
<1> QED
  BY <1>4 DEF Surjection

StrictOrder(R, P) ==
  /\ \A p \in P : <<p, p>> \notin R
  /\ \A p, q, r \in P : <<p, q>> \in R /\ <<q, r>> \in R => <<p, r>> \in R
  /\ \A p, q \in P : p # q => <<p, q>> \in R \/ <<q, p>> \in R

InTheOrder(chart, P, R) ==
  /\ chart \in [1 .. Cardinality(P) -> P]
  /\ IsInjective(chart)
  /\ \A m, n \in DOMAIN chart : m < n => <<chart[m], chart[n]>> \in R

\* A finite set can be put in any strict total order of its elements.
LEMMA OrderedExists ==
  ASSUME NEW P, IsFiniteSet(P), NEW R, StrictOrder(R, P)
  PROVE  \E chart : InTheOrder(chart, P, R)
<1>0. /\ \A p \in P : <<p, p>> \notin R
      /\ \A p, q, r \in P : <<p, q>> \in R /\ <<q, r>> \in R => <<p, r>> \in R
      /\ \A p, q \in P : p # q => <<p, q>> \in R \/ <<q, p>> \in R
  BY DEF StrictOrder
<1> DEFINE N == Cardinality(P)
           upto(p) == {r \in P : r = p \/ <<r, p>> \in R}
           rank == [p \in P |-> Cardinality(upto(p))]
<1>1. N \in Nat
  BY FS_CardinalityType
<1>2. \A p \in P : IsFiniteSet(upto(p)) /\ rank[p] \in 1 .. N
  <2> SUFFICES ASSUME NEW p \in P PROVE IsFiniteSet(upto(p)) /\ rank[p] \in 1 .. N
    OBVIOUS
  <2>1. upto(p) \in SUBSET P /\ p \in upto(p)
    OBVIOUS
  <2> DEFINE U == upto(p)
  <2>2. rank[p] = Cardinality(U)
    OBVIOUS
  <2> HIDE DEF upto, rank
  <2>3. IsFiniteSet(U) /\ Cardinality(U) \in Nat /\ Cardinality(U) <= N
    BY <2>1, FS_Subset, FS_CardinalityType
  <2>4. Cardinality(U) # 0
    BY <2>1, <2>3, FS_EmptySet
  <2> QED
    BY <1>1, <2>2, <2>3, <2>4
<1>3. \A p, r \in P : <<p, r>> \in R => rank[p] < rank[r]
  <2> SUFFICES ASSUME NEW p \in P, NEW r \in P, <<p, r>> \in R PROVE rank[p] < rank[r]
    OBVIOUS
  <2> DEFINE U == upto(p)
             V == upto(r)
  <2>1. U \cup {r} \in SUBSET V /\ r \notin U
    <3>1. r \notin U
      BY <1>0
    <3>2. \A q \in U : q \in V
      BY <1>0
    <3> QED
      BY <3>1, <3>2
  <2>2. rank[p] = Cardinality(U) /\ rank[r] = Cardinality(V)
    OBVIOUS
  <2> HIDE DEF upto, rank
  <2>3. IsFiniteSet(U) /\ IsFiniteSet(V) /\ rank[p] \in Nat /\ rank[r] \in Nat
    BY <1>1, <1>2
  <2> HIDE DEF U, V
  <2>4. Cardinality(U \cup {r}) = Cardinality(U) + 1
    BY <2>1, <2>3, FS_AddElement
  <2>5. Cardinality(U \cup {r}) <= Cardinality(V)
    BY <2>1, <2>3, FS_Subset
  <2> QED
    BY <2>2, <2>3, <2>4, <2>5
<1>4. rank \in [P -> 1 .. N]
  <2>1. rank = [p \in P |-> rank[p]]
    OBVIOUS
  <2> HIDE DEF rank, upto
  <2> QED
    BY <1>2, <2>1
<1> HIDE DEF rank, upto
<1>5. \A p, r \in P : rank[p] = rank[r] => p = r
  <2> SUFFICES ASSUME NEW p \in P, NEW r \in P, rank[p] = rank[r], p # r PROVE FALSE
    OBVIOUS
  <2>1. rank[p] < rank[r] \/ rank[r] < rank[p]
    BY <1>0, <1>3
  <2>2. rank[p] \in Int /\ rank[r] \in Int
    BY <1>4
  <2> QED
    BY <2>1, <2>2
<1>6. rank \in Injection(P, 1 .. N)
  BY <1>4, <1>5 DEF Injection, IsInjective
<1>7. rank \in Surjection(P, 1 .. N)
  <2>1. IsFiniteSet(1 .. N) /\ Cardinality(1 .. N) = N
    BY <1>1, FS_Interval
  <2> QED
    BY <1>6, <2>1, FS_Injection
<1> DEFINE chart == [n \in 1 .. N |-> CHOOSE p \in P : rank[p] = n]
<1>8. \A n \in 1 .. N : chart[n] \in P /\ rank[chart[n]] = n
  BY <1>7 DEF Surjection
<1> HIDE DEF chart, N
<1>9. chart \in [1 .. N -> P] /\ IsInjective(chart)
  BY <1>8 DEF chart, IsInjective
<1>10. \A m, n \in 1 .. N : m < n => <<chart[m], chart[n]>> \in R
  <2> SUFFICES ASSUME NEW m \in 1 .. N, NEW n \in 1 .. N, m < n, <<chart[m], chart[n]>> \notin R
               PROVE  FALSE
    OBVIOUS
  <2>1. PICK p \in P, q \in P : p = chart[m] /\ q = chart[n] /\ rank[p] = m /\ rank[q] = n
    BY <1>8
  <2>2. m \in Int /\ n \in Int
    BY <1>1
  <2>3. p # q /\ <<p, q>> \notin R
    BY <2>1, <2>2
  <2>4. rank[q] < rank[p]
    BY <1>0, <1>3, <2>3
  <2> QED
    BY <2>1, <2>2, <2>4
<1> QED
  BY <1>9, <1>10 DEF N, InTheOrder

\* In particular, in the order of distinct numbers of its elements.
LEMMA SortedExists ==
  ASSUME NEW P, IsFiniteSet(P), NEW at \in [P -> Nat], IsInjective(at)
  PROVE  \E chart \in [1 .. Cardinality(P) -> P] :
           /\ IsInjective(chart)
           /\ \A m, n \in DOMAIN chart : m < n => at[chart[m]] <= at[chart[n]]
<1> DEFINE R == {pair \in P \X P : at[pair[1]] < at[pair[2]]}
<1>1. \A p, q \in P : <<p, q>> \in R <=> at[p] < at[q]
  OBVIOUS
<1>2. \A p \in P : at[p] \in Nat
  OBVIOUS
<1>3. \A p, q \in P : at[p] = at[q] => p = q
  BY DEF IsInjective
<1> HIDE DEF R
<1>4. StrictOrder(R, P)
  BY <1>1, <1>2, <1>3 DEF StrictOrder
<1>5. PICK chart : InTheOrder(chart, P, R)
  BY <1>4, OrderedExists
<1>6. ASSUME NEW m \in DOMAIN chart, NEW n \in DOMAIN chart, m < n
      PROVE  at[chart[m]] <= at[chart[n]]
  <2>1. PICK p \in P, q \in P : p = chart[m] /\ q = chart[n] /\ <<p, q>> \in R
    BY <1>5, <1>6 DEF InTheOrder
  <2>2. at[p] <= at[q]
    BY <1>1, <1>2, <2>1
  <2> QED
    BY <2>1, <2>2
<1> QED
  BY <1>5, <1>6 DEF InTheOrder

LEMMA FiniteMost ==
  ASSUME NEW S \in SUBSET Nat, IsFiniteSet(S), S # {}
  PROVE  \E x \in S : \A y \in S : y <= x
<1> DEFINE N == Cardinality(S)
           at == [x \in S |-> x]
<1>1. N \in Nat /\ N # 0
  BY FS_CardinalityType, FS_EmptySet
<1>2. at \in [S -> Nat] /\ IsInjective(at) /\ \A x \in S : at[x] = x
  BY DEF IsInjective
<1> HIDE DEF at
<1>3. PICK chart \in [1 .. N -> S] :
        IsInjective(chart) /\ \A m, n \in DOMAIN chart : m < n => at[chart[m]] <= at[chart[n]]
  BY <1>2, SortedExists
<1>4. \A y \in S : \E n \in DOMAIN chart : chart[n] = y
  BY <1>3, Enumerates
<1>5. N \in 1 .. N /\ chart[N] \in S
  <2> HIDE DEF N
  <2> QED
    BY <1>1, <1>3
<1> HIDE DEF N
<1>6. ASSUME NEW y \in S PROVE y <= chart[N]
  <2>1. PICK n \in 1 .. N : chart[n] = y
    BY <1>3, <1>4
  <2>2. CASE n = N
    BY <1>5, <2>1, <2>2
  <2>3. CASE n # N
    <3>1. n < N
      BY <1>1, <2>3
    <3>2. at[chart[n]] <= at[chart[N]]
      BY <1>3, <1>5, <3>1
    <3> QED
      BY <1>2, <1>5, <2>1, <3>2
  <2> QED
    BY <2>2, <2>3
<1> QED
  BY <1>5, <1>6
=============================================================================
