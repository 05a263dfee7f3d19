----------------------------- MODULE DataLemmas -----------------------------
(***************************************************************************)
(* Facts about data that the proofs of this directory need and the         *)
(* library does not give in a form they can use: induction over numbers    *)
(* stated with a set in place of a predicate, functions defined step by    *)
(* step, division, and sets that fall into equally large parts.            *)
(***************************************************************************)
EXTENDS Integers, FiniteSets, Functions, FiniteSetTheorems,
        WellFoundedInduction, TLAPS

-----------------------------------------------------------------------------
(* Induction.                                                              *)

(* A set of numbers has a least element: its initial segments are finite   *)
(* sets, and finite sets are well-founded.                                 *)
LEMMA LeastNumber ==
  ASSUME NEW T \in SUBSET Nat, T /= {}
  PROVE  \E m \in T : \A n \in T : m <= n
<1> DEFINE Segments == {0..m : m \in T}
<1>1. Segments \subseteq FiniteSubsetsOf(Nat) /\ Segments /= {}
  <2>1. \A m \in T : 0..m \subseteq Nat /\ IsFiniteSet(0..m)
    BY FS_Interval
  <2>2. QED
    BY <2>1 DEF FiniteSubsetsOf
<1>2. \E x \in Segments : \A y \in Segments :
        ~(<<y, x>> \in StrictSubsetOrdering(Nat))
  BY <1>1, WFMin, FS_StrictSubsetOrderingWellFounded
<1>3. PICK m \in T : \A y \in Segments :
        ~(<<y, 0..m>> \in StrictSubsetOrdering(Nat))
  BY <1>2
<1>4. ASSUME NEW n \in T, n < m PROVE FALSE
  <2>1. 0..n \in Segments /\ 0..n \subseteq 0..m /\ 0..m \subseteq Nat
    BY <1>4
  <2>2. m \in 0..m /\ m \notin 0..n
    BY <1>4
  <2>3. <<0..n, 0..m>> \in StrictSubsetOrdering(Nat)
    BY <2>1, <2>2 DEF StrictSubsetOrdering
  <2>4. QED
    BY <1>3, <2>1, <2>3
<1>5. QED
  BY <1>4

(* What holds of 0 and goes from each number to the next holds up to n.    *)
LEMMA Induction ==
  ASSUME NEW n \in Nat, NEW S, 0 \in S,
         \A k \in 0..n : k < n /\ k \in S => k + 1 \in S
  PROVE  0..n \subseteq S
<1> SUFFICES ASSUME (0..n) \ S /= {} PROVE FALSE
  OBVIOUS
<1> DEFINE T == (0..n) \ S
<1>1. PICK m \in T : \A k \in T : m <= k
  <2>1. T \in SUBSET Nat /\ T /= {}
    OBVIOUS
  <2> HIDE DEF T
  <2>2. QED
    BY <2>1, LeastNumber
<1>2. m - 1 \in 0..n /\ m - 1 < n /\ m = (m - 1) + 1
  BY <1>1
<1>3. m - 1 \in S
  BY <1>1, <1>2
<1>4. QED
  BY <1>1, <1>2, <1>3

(* A function can be given by its value at 0 and a step.                   *)
Stepwise(f, n, base, F) ==
  f[0] = base /\ \A k \in 1..n : f[k] = F[k][f[k - 1]]

LEMMA StepwiseFunction ==
  ASSUME NEW n \in Nat, NEW S, NEW base \in S, NEW F \in [1..n -> [S -> S]]
  PROVE  \E f \in [0..n -> S] : Stepwise(f, n, base, F)
<1> DEFINE Given(m, f) == Stepwise(f, m, base, F)
           T == {m \in 0..n : \E f \in [0..m -> S] : Given(m, f)}
<1> USE DEF Stepwise
<1>1. 0 \in T
  <2> DEFINE f == [k \in 0..0 |-> base]
  <2>1. f \in [0..0 -> S] /\ Given(0, f)
    OBVIOUS
  <2>2. 0 \in 0..n
    OBVIOUS
  <2> HIDE DEF f
  <2>3. QED
    BY <2>1, <2>2
<1>2. ASSUME NEW m \in 0..n, m < n, m \in T PROVE m + 1 \in T
  <2>1. PICK f \in [0..m -> S] : Given(m, f)
    BY <1>2
  <2> DEFINE g == [k \in 0..m + 1 |->
                     IF k = m + 1 THEN F[k][f[k - 1]] ELSE f[k]]
  <2>2. m + 1 \in 1..n /\ f[m] \in S /\ F[m + 1][f[m]] \in S
    BY <1>2
  <2>3. g \in [0..m + 1 -> S]
    BY <2>2
  <2>4. \A k \in 0..m : g[k] = f[k]
    OBVIOUS
  <2>5. \A k \in 1..m + 1 : g[k] = F[k][g[k - 1]]
    BY <2>1, <2>4
  <2>6. g[0] = base
    BY <2>1, <2>4
  <2> HIDE DEF g
  <2>7. m + 1 \in 0..n /\ Given(m + 1, g)
    BY <1>2, <2>5, <2>6
  <2>8. QED
    BY <2>3, <2>7
<1>3. 0..n \subseteq T
  <2> HIDE DEF T
  <2>1. QED
    BY <1>1, <1>2, Induction
<1>4. n \in T
  BY <1>3
<1>5. QED
  BY <1>4
-----------------------------------------------------------------------------
(* Division.                                                               *)

LEMMA Quotient ==
  ASSUME NEW n \in Nat, NEW a \in Nat \ {0}
  PROVE  /\ n \div a \in Nat /\ n % a \in 0..a - 1
         /\ n = a * (n \div a) + (n % a) /\ (n < a => n \div a = 0)
<1>1. n \div a \in Nat /\ n % a \in 0..a - 1
  OBVIOUS
<1>2. n = a * (n \div a) + (n % a)
  OBVIOUS
<1>3. n < a => n \div a = 0
  OBVIOUS
<1>4. QED
  BY <1>1, <1>2, <1>3

LEMMA QuotientIsUnique ==
  ASSUME NEW n \in Nat, NEW a \in Nat \ {0}, NEW q \in Nat, NEW r \in 0..a - 1,
         n = a * q + r
  PROVE  n \div a = q
OBVIOUS

(* To divide twice is to divide by the product.                            *)
LEMMA QuotientOfQuotient ==
  ASSUME NEW n \in Nat, NEW a \in Nat \ {0}
  PROVE  n \div (256 * a) = (n \div a) \div 256
<1> DEFINE u == n \div a
           r == n % a
           q == u \div 256
           t == u % 256
<1>1. u \in Nat /\ r \in 0..a - 1 /\ n = a * u + r
  BY Quotient
<1>2. q \in Nat /\ t \in 0..255 /\ u = 256 * q + t
  BY <1>1, Quotient
<1> HIDE DEF u, r, q, t
<1>3. a * u = (256 * a) * q + a * t
  BY <1>1, <1>2
<1>4. a * t \in Nat /\ a * t <= a * 255
  BY <1>2
<1>5. n = (256 * a) * q + (a * t + r) /\ a * t + r \in 0..256 * a - 1
  <2> DEFINE x == a * t
             y == a * u
  <2>1. y = (256 * a) * q + x /\ x \in Nat /\ x <= a * 255
    BY <1>3, <1>4
  <2>2. (256 * a) * q \in Nat /\ n = y + r
    BY <1>1, <1>2
  <2> HIDE DEF x, y
  <2>3. x + r \in 0..256 * a - 1
    BY <1>1, <2>1
  <2>4. n = (256 * a) * q + (x + r)
    BY <1>1, <2>1, <2>2
  <2>5. QED
    BY <2>3, <2>4 DEF x
<1>6. 256 * a \in Nat \ {0}
  OBVIOUS
<1>7. n \div (256 * a) = q
  BY <1>2, <1>5, <1>6, QuotientIsUnique
<1>8. QED
  BY <1>7 DEF q, u

-----------------------------------------------------------------------------
(* Counting.                                                               *)

(* The elements of S of value v.                                           *)
Part(S, f, v) == {a \in S : f[a] = v}

(* A bijection carries the elements of one value to those of that value.   *)
LEMMA BijectionKeepsParts ==
  ASSUME NEW A, NEW B, IsFiniteSet(B), NEW e \in Bijection(A, B), NEW f, NEW g,
         \A a \in A : f[a] = g[e[a]], NEW v
  PROVE  Cardinality(Part(A, f, v)) = Cardinality(Part(B, g, v))
<1> DEFINE S == {a \in A : f[a] = v}
           T == {b \in B : g[b] = v}
           h == [a \in S |-> e[a]]
<1>1. /\ e \in [A -> B] /\ \A x, y \in A : e[x] = e[y] => x = y
      /\ \A b \in B : \E a \in A : e[a] = b
  BY DEF Bijection, Injection, Surjection, IsInjective
<1>2. IsFiniteSet(T)
  BY FS_Subset
<1>3. h \in [S -> T]
  BY <1>1
<1>4. \A x, y \in S : h[x] = h[y] => x = y
  BY <1>1
<1>5. \A t \in T : \E x \in S : h[x] = t
  BY <1>1
<1>6. h \in Surjection(S, T) /\ h \in Injection(S, T)
  <2> HIDE DEF S, T, h
  <2>1. DOMAIN h = S
    BY <1>3
  <2>2. QED
    BY <1>3, <1>4, <1>5, <2>1 DEF Surjection, Injection, IsInjective
<1> HIDE DEF S, T, h
<1>7. IsFiniteSet(S) /\ Cardinality(S) = Cardinality(T)
  <2>1. IsFiniteSet(S) /\ Cardinality(S) = Cardinality(T)
    BY <1>2, <1>6, FS_Injection
  <2>2. QED
    BY <2>1
<1>8. QED
  BY <1>7 DEF S, T, Part

(* Two finite sets are equally large if they are so value by value.        *)
LEMMA EqualParts ==
  ASSUME NEW A, NEW B, IsFiniteSet(A), IsFiniteSet(B),
         NEW V, NEW f, NEW g, \A a \in A : f[a] \in V, \A b \in B : g[b] \in V,
         \A v \in V : Cardinality(Part(A, f, v)) = Cardinality(Part(B, g, v))
  PROVE  Cardinality(A) = Cardinality(B)
<1> DEFINE S(v) == {a \in A : f[a] = v}
           T(v) == {b \in B : g[b] = v}
           G == [v \in V |-> CHOOSE h : h \in Bijection(S(v), T(v))]
           h == [a \in A |-> G[f[a]][a]]
<1>1. ASSUME NEW v \in V
      PROVE  /\ G[v] \in [S(v) -> T(v)]
             /\ \A x, y \in S(v) : G[v][x] = G[v][y] => x = y
             /\ \A t \in T(v) : \E x \in S(v) : G[v][x] = t
  <2>1. IsFiniteSet(S(v)) /\ IsFiniteSet(T(v))
    BY FS_Subset
  <2>2. Bijection(S(v), T(v)) /= {}
    BY <2>1, FS_SameCardinalityBij DEF ExistsBijection, Part
  <2>3. G[v] \in Bijection(S(v), T(v))
    BY <2>2
  <2>4. QED
    BY <2>3 DEF Bijection, Injection, Surjection, IsInjective
<1> HIDE DEF G
<1>2. \A a \in A : f[a] \in V /\ a \in S(f[a]) /\ h[a] = G[f[a]][a]
  OBVIOUS
<1> HIDE DEF h
<1>3. ASSUME NEW a \in A PROVE h[a] \in B /\ g[h[a]] = f[a]
  <2>1. f[a] \in V /\ a \in S(f[a])
    OBVIOUS
  <2>2. G[f[a]] \in [S(f[a]) -> T(f[a])]
    BY <1>1, <2>1
  <2>3. G[f[a]][a] \in T(f[a])
    BY <2>1, <2>2
  <2>4. QED
    BY <1>2, <2>3
<1>4. ASSUME NEW x \in A, NEW y \in A, h[x] = h[y] PROVE x = y
  <2>1. f[x] = f[y]
    BY <1>3, <1>4
  <2>2. x \in S(f[x]) /\ y \in S(f[x]) /\ G[f[x]][x] = G[f[x]][y]
    BY <1>2, <1>4, <2>1
  <2>3. QED
    BY <1>1, <1>2, <2>2
<1>5. ASSUME NEW b \in B PROVE \E a \in A : h[a] = b
  <2>1. g[b] \in V /\ b \in T(g[b])
    OBVIOUS
  <2>2. PICK a \in S(g[b]) : G[g[b]][a] = b
    BY <1>1, <2>1
  <2>3. f[a] = g[b]
    BY <2>2
  <2>4. QED
    BY <1>2, <2>2, <2>3
<1>6. h \in Bijection(A, B)
  <2>1. h \in [A -> B] /\ DOMAIN h = A
    BY <1>3 DEF h
  <2>2. QED
    BY <1>4, <1>5, <2>1 DEF Bijection, Surjection, Injection, IsInjective
<1>7. QED
  BY <1>6, FS_Bijection DEF ExistsBijection
=============================================================================
