----------------------------- MODULE Arithmetic -----------------------------
(***************************************************************************)
(* Facts about numbers and finite sets that the proofs share: least and    *)
(* greatest elements, induction over a set of numbers, powers of two.      *)
(***************************************************************************)
EXTENDS Powers, Integers, FiniteSets, FiniteSetTheorems, WellFoundedInduction, TLAPS

\* Every nonempty set of natural numbers has a least element.
LEMMA LeastNat ==
  ASSUME NEW S \in SUBSET Nat, S # {}
  PROVE  \E m \in S : \A n \in S : m <= n
<1> DEFINE R == {ss \in Nat \X Nat : ss[1] < ss[2]}
<1>1. IsWellFoundedOn(R, Nat)
  BY NatLessThanWellFounded DEF OpToRel
<1>2. PICK x \in S : \A y \in S : <<y, x>> \notin R
  BY <1>1, WFMin
<1>3. ASSUME NEW y \in S PROVE x <= y
  <2>1. <<y, x>> \notin R /\ x \in Nat /\ y \in Nat
    BY <1>2
  <2>2. ~ (y < x)
    BY <2>1
  <2> QED
    BY <2>1, <2>2
<1> QED
  BY <1>3

\* Induction, for a property given as the set of the numbers that have it.
LEMMA SetInduction ==
  ASSUME NEW S, 0 \in S, \A n \in S : n \in Nat => n + 1 \in S
  PROVE  Nat \subseteq S
<1> SUFFICES ASSUME Nat \ S # {} PROVE FALSE
  OBVIOUS
<1>1. PICK m \in Nat \ S : \A n \in Nat \ S : m <= n
  BY LeastNat
<1>2. m - 1 \in Nat
  OBVIOUS
<1>3. m - 1 \in S
  BY <1>1, <1>2
<1> QED
  BY <1>2, <1>3

\* A nonempty set of natural numbers with an upper bound has a greatest one.
LEMMA GreatestNat ==
  ASSUME NEW bound \in Nat, NEW S \in SUBSET (0 .. bound), S # {}
  PROVE  \E m \in S : \A n \in S : n <= m
<1> DEFINE U == {u \in Nat : \A n \in S : n <= u}
<1>1. bound \in U
  OBVIOUS
<1>2. PICK m \in U : \A u \in U : m <= u
  <2>1. U \in SUBSET Nat /\ U # {}
    BY <1>1
  <2> HIDE DEF U
  <2> QED
    BY <2>1, LeastNat
<1>3. m \in S
  <2> SUFFICES ASSUME m \notin S PROVE FALSE
    OBVIOUS
  <2>1. \A n \in S : n <= m - 1
    BY <1>2
  <2>2. m - 1 \in Nat
    <3>1. PICK n \in S : TRUE
      OBVIOUS
    <3>2. n \in Nat /\ m \in Nat /\ n <= m - 1
      BY <3>1, <2>1
    <3> QED
      BY <3>2
  <2>3. m - 1 \in U /\ m \in Nat
    BY <2>1, <2>2
  <2> QED
    BY <2>3, <1>2
<1> QED
  BY <1>2, <1>3

\* A remainder is in range.
LEMMA ModRange ==
  ASSUME NEW x \in Int, NEW n \in Nat \ {0}
  PROVE  x % n \in 0 .. n - 1
OBVIOUS

\* pow2 satisfies its recursive definition.  The approximations of the
\* function up to n exist for every n, agree with each other, and their values
\* at the end of their domains make the function.
LEMMA Pow2Def ==
  /\ pow2 \in [Nat -> Nat]
  /\ \A k \in Nat : pow2[k] = IF k = 0 THEN 1 ELSE 2 * pow2[k - 1]
<1> DEFINE Approx(n) == {g \in [0 .. n -> Nat] :
                           \A k \in 0 .. n : g[k] = IF k = 0 THEN 1 ELSE 2 * g[k - 1]}
           S == {n \in Nat : \E g \in Approx(n) : TRUE}
<1>1. Nat \subseteq S
  <2>1. 0 \in S
    <3>1. [k \in 0 .. 0 |-> 1] \in Approx(0)
      OBVIOUS
    <3> QED
      BY <3>1
  <2>2. ASSUME NEW n \in S, n \in Nat PROVE n + 1 \in S
    <3>1. PICK g \in Approx(n) : TRUE
      BY <2>2
    <3> DEFINE h == [k \in 0 .. n + 1 |-> IF k = n + 1 THEN 2 * g[n] ELSE g[k]]
    <3>2. h \in [0 .. n + 1 -> Nat]
      BY <3>1, <2>2
    <3>3. ASSUME NEW k \in 0 .. n + 1
          PROVE  h[k] = IF k = 0 THEN 1 ELSE 2 * h[k - 1]
      <4>1. CASE k = n + 1
        <5>1. k # 0 /\ k - 1 = n /\ n \in 0 .. n + 1 /\ n # n + 1
          BY <4>1, <2>2
        <5> QED
          BY <5>1, <4>1
      <4>2. CASE k # n + 1
        <5>1. k \in 0 .. n /\ k - 1 # n + 1 /\ (k # 0 => k - 1 \in 0 .. n + 1)
          BY <4>2, <2>2
        <5>2. g[k] = IF k = 0 THEN 1 ELSE 2 * g[k - 1]
          BY <5>1, <3>1
        <5> QED
          BY <5>1, <5>2, <4>2
      <4> QED
        BY <4>1, <4>2
    <3>4. h \in Approx(n + 1)
      BY <3>2, <3>3
    <3>5. n + 1 \in Nat
      BY <2>2
    <3> HIDE DEF h, Approx
    <3> QED
      BY <3>4, <3>5
  <2> HIDE DEF S
  <2> QED
    BY <2>1, <2>2, SetInduction
<1>2. ASSUME NEW m \in Nat, NEW n \in Nat, m <= n, NEW g \in Approx(m), NEW h \in Approx(n)
      PROVE  g[m] = h[m]
  <2> DEFINE T == {k \in Nat : k <= m => g[k] = h[k]}
  <2>1. /\ \A k \in 0 .. m : g[k] = IF k = 0 THEN 1 ELSE 2 * g[k - 1]
        /\ \A k \in 0 .. m : h[k] = IF k = 0 THEN 1 ELSE 2 * h[k - 1]
    BY <1>2
  <2>2. 0 \in T
    BY <2>1
  <2>3. ASSUME NEW k \in T, k \in Nat PROVE k + 1 \in T
    <3>1. SUFFICES ASSUME k + 1 <= m PROVE g[k + 1] = h[k + 1]
      BY <2>3
    <3>2. k + 1 \in 0 .. m /\ k <= m /\ k + 1 # 0 /\ (k + 1) - 1 = k
      BY <2>3, <3>1, <1>2
    <3>3. g[k] = h[k]
      BY <3>2, <2>3
    <3>4. g[k + 1] = 2 * g[k] /\ h[k + 1] = 2 * h[k]
      BY <2>1, <3>2, Zenon
    <3> QED
      BY <3>3, <3>4
  <2>4. Nat \subseteq T
    <3> HIDE DEF T
    <3> QED
      BY <2>2, <2>3, SetInduction
  <2> QED
    BY <2>4, <1>2
<1> DEFINE f == [n \in Nat |-> (CHOOSE g \in Approx(n) : TRUE)[n]]
<1>3. ASSUME NEW n \in Nat PROVE (CHOOSE g \in Approx(n) : TRUE) \in Approx(n)
  <2>1. \E g \in Approx(n) : TRUE
    BY <1>1
  <2> HIDE DEF Approx
  <2> QED
    BY <2>1
<1>4. ASSUME NEW n \in Nat, NEW g \in Approx(n) PROVE f[n] = g[n]
  <2> HIDE DEF Approx
  <2> QED
    BY <1>2, <1>3
<1>5. f \in [Nat -> Nat]
  <2>1. ASSUME NEW n \in Nat PROVE (CHOOSE g \in Approx(n) : TRUE)[n] \in Nat
    <3>1. (CHOOSE g \in Approx(n) : TRUE) \in [0 .. n -> Nat]
      BY <1>3
    <3> QED
      BY <3>1
  <2> HIDE DEF Approx
  <2> QED
    BY <2>1
<1>6. \A k \in Nat : f[k] = IF k = 0 THEN 1 ELSE 2 * f[k - 1]
  <2> TAKE k \in Nat
  <2>1. PICK g \in Approx(k) : TRUE
    BY <1>1
  <2>2. f[k] = g[k]
    BY <2>1, <1>4
  <2>3. CASE k = 0
    BY <2>1, <2>2, <2>3
  <2>4. CASE k # 0
    <3>1. k - 1 \in Nat
      BY <2>4
    <3>2. PICK h \in Approx(k - 1) : TRUE
      BY <1>1, <3>1
    <3>3. h[k - 1] = g[k - 1]
      <4>1. k - 1 <= k
        BY <2>4
      <4> HIDE DEF Approx, f
      <4> QED
        BY <1>2, <2>1, <3>1, <3>2, <4>1
    <3>4. f[k - 1] = h[k - 1]
      BY <1>4, <3>1, <3>2
    <3>5. g[k] = 2 * g[k - 1]
      BY <2>1, <2>4
    <3> HIDE DEF f
    <3> QED
      BY <2>2, <2>4, <3>3, <3>4, <3>5
  <2> QED
    BY <2>3, <2>4
<1>7. f = [k \in Nat |-> IF k = 0 THEN 1 ELSE 2 * f[k - 1]]
  <2> HIDE DEF f
  <2> QED
    BY <1>5, <1>6
<1>8. pow2 = [k \in Nat |-> IF k = 0 THEN 1 ELSE 2 * pow2[k - 1]]
  <2> HIDE DEF f
  <2> QED
    BY <1>7 DEF pow2
<1>9. pow2 = f
  <2> DEFINE T == {k \in Nat : pow2[k] = f[k]}
  <2> HIDE DEF f
  <2>1. 0 \in T
    BY <1>6, <1>8
  <2>2. ASSUME NEW k \in T, k \in Nat PROVE k + 1 \in T
    BY <2>2, <1>6, <1>8
  <2>3. Nat \subseteq T
    <3> HIDE DEF T
    <3> QED
      BY <2>1, <2>2, SetInduction
  <2>4. \A k \in Nat : pow2[k] = f[k]
    BY <2>3
  <2> QED
    BY <2>4, <1>5, <1>8
<1> QED
  <2> HIDE DEF f
  <2> QED
    BY <1>5, <1>6, <1>9

\* A power of two is larger than its exponent.
LEMMA Pow2Grows ==
  ASSUME NEW k \in Nat
  PROVE  pow2[k] \in Nat /\ pow2[k] > k
<1> DEFINE T == {n \in Nat : pow2[n] > n}
<1>1. 0 \in T
  BY Pow2Def
<1>2. ASSUME NEW n \in T, n \in Nat PROVE n + 1 \in T
  <2>1. pow2[n] \in Nat /\ pow2[n] > n
    BY <1>2, Pow2Def
  <2>2. pow2[n + 1] = 2 * pow2[n]
    <3>1. n + 1 \in Nat /\ n + 1 # 0 /\ (n + 1) - 1 = n
      OBVIOUS
    <3> QED
      BY <3>1, Pow2Def
  <2> QED
    BY <2>1, <2>2
<1>3. Nat \subseteq T
  <2> HIDE DEF T
  <2> QED
    BY <1>1, <1>2, SetInduction
<1> QED
  BY <1>3, Pow2Def

\* The size of an interval.
LEMMA IntervalSize ==
  ASSUME NEW n \in Nat
  PROVE  /\ IsFiniteSet(1 .. n) /\ Cardinality(1 .. n) = n
         /\ IsFiniteSet(0 .. n - 1) /\ Cardinality(0 .. n - 1) = n
<1>1. IsFiniteSet(1 .. n) /\ Cardinality(1 .. n) = IF 1 > n THEN 0 ELSE n - 1 + 1
  BY FS_Interval
<1>2. IsFiniteSet(0 .. n - 1) /\ Cardinality(0 .. n - 1) = IF 0 > n - 1 THEN 0 ELSE (n - 1) - 0 + 1
  BY FS_Interval
<1> QED
  BY <1>1, <1>2

\* Powers of two grow with their exponents.
LEMMA Pow2Increases ==
  ASSUME NEW i \in Nat, NEW j \in Nat, i < j
  PROVE  pow2[i] < pow2[j]
<1> DEFINE T == {n \in Nat : pow2[i] < pow2[i + 1 + n]}
<1>1. \A k \in Nat : pow2[k] \in Nat /\ pow2[k] > 0
  <2> TAKE k \in Nat
  <2>1. pow2[k] \in Nat /\ pow2[k] > k
    BY Pow2Grows
  <2> QED
    BY <2>1
<1>2. \A k \in Nat : pow2[k + 1] = 2 * pow2[k]
  <2> TAKE k \in Nat
  <2>1. k + 1 \in Nat /\ k + 1 # 0 /\ (k + 1) - 1 = k
    OBVIOUS
  <2> QED
    BY <2>1, Pow2Def
<1>3. 0 \in T
  <2>1. pow2[i + 1] = 2 * pow2[i] /\ pow2[i] \in Nat /\ pow2[i] > 0 /\ i + 1 + 0 = i + 1
    BY <1>1, <1>2
  <2> QED
    BY <2>1
<1>4. ASSUME NEW n \in T, n \in Nat PROVE n + 1 \in T
  <2>1. i + 1 + n \in Nat /\ i + 1 + (n + 1) = (i + 1 + n) + 1
    BY <1>4
  <2>2. pow2[i + 1 + (n + 1)] = 2 * pow2[i + 1 + n] /\ pow2[i + 1 + n] \in Nat
    BY <2>1, <1>1, <1>2
  <2>3. pow2[i] < pow2[i + 1 + n] /\ pow2[i] \in Nat
    BY <1>1, <1>4
  <2> QED
    BY <2>2, <2>3, <1>4
<1>5. Nat \subseteq T
  <2> HIDE DEF T
  <2> QED
    BY <1>3, <1>4, SetInduction
<1>6. j - i - 1 \in Nat /\ i + 1 + (j - i - 1) = j
  OBVIOUS
<1> QED
  BY <1>5, <1>6

\* Of the elements of a nonempty set one has the least number.
LEMMA LeastBy ==
  ASSUME NEW S, S # {}, NEW f, \A x \in S : f[x] \in Nat
  PROVE  \E x \in S : \A y \in S : f[x] <= f[y]
<1> DEFINE N == {f[x] : x \in S}
<1>1. N \in SUBSET Nat /\ N # {}
  OBVIOUS
<1>2. PICK n \in N : \A k \in N : n <= k
  <2> HIDE DEF N
  <2> QED
    BY <1>1, LeastNat
<1>3. PICK x \in S : f[x] = n
  OBVIOUS
<1> QED
  BY <1>2, <1>3
-----------------------------------------------------------------------------
(* Sums over finite sets, as the number of the units they are made of. *)
Units(f, S) == UNION {{x} \X (0 .. f[x] - 1) : x \in S}
Total(f, S) == Cardinality(Units(f, S))
Summed(S, f) == IsFiniteSet(S) /\ \A x \in S : f[x] \in Nat

\* A sum is a number, and its elements can be taken one by one.
LEMMA TotalFacts ==
  ASSUME NEW S, NEW f, Summed(S, f)
  PROVE  /\ IsFiniteSet(Units(f, S)) /\ Total(f, S) \in Nat
         /\ Total(f, {}) = 0
         /\ \A x \in S : Total(f, S) = f[x] + Total(f, S \ {x}) /\ Total(f, S \ {x}) \in Nat
<1> DEFINE Part(x) == {x} \X (0 .. f[x] - 1)
           g == [x \in S |-> Part(x)]
           T == {Part(x) : x \in S}
<1>1. ASSUME NEW x \in S PROVE IsFiniteSet(Part(x)) /\ Cardinality(Part(x)) = f[x]
  <2>1. f[x] \in Nat
    BY DEF Summed
  <2>2. IsFiniteSet(0 .. f[x] - 1) /\ Cardinality(0 .. f[x] - 1) = f[x]
    BY <2>1, IntervalSize
  <2>3. IsFiniteSet({x}) /\ Cardinality({x}) = 1
    BY FS_Singleton
  <2>4. IsFiniteSet(Part(x)) /\ Cardinality(Part(x)) = Cardinality({x}) * Cardinality(0 .. f[x] - 1)
    BY <2>2, <2>3, FS_Product
  <2> QED
    BY <2>1, <2>2, <2>3, <2>4
<1>2. IsFiniteSet(Units(f, S))
  <2>1. g \in Surjection(S, T)
    BY DEF Surjection
  <2>2. IsFiniteSet(T)
    <3>1. IsFiniteSet(S)
      BY DEF Summed
    <3> HIDE DEF g, T
    <3> QED
      BY <2>1, <3>1, FS_Surjection
  <2>3. \A t \in T : IsFiniteSet(t)
    BY <1>1
  <2>4. IsFiniteSet(UNION T)
    <3> HIDE DEF T
    <3> QED
      BY <2>2, <2>3, FS_UNION
  <2> QED
    BY <2>4 DEF Units
<1>3. Units(f, {}) = {}
  BY DEF Units
<1>4. ASSUME NEW x \in S
      PROVE  Total(f, S) = f[x] + Total(f, S \ {x}) /\ Total(f, S \ {x}) \in Nat
  <2>1. Units(f, S) = Part(x) \cup Units(f, S \ {x}) /\ Part(x) \cap Units(f, S \ {x}) = {}
    BY DEF Units
  <2>2. IsFiniteSet(Units(f, S \ {x}))
    <3>1. Units(f, S \ {x}) \in SUBSET Units(f, S)
      BY <2>1
    <3> QED
      BY <3>1, <1>2, FS_Subset
  <2>3. Cardinality(Part(x) \cup Units(f, S \ {x})) =
          Cardinality(Part(x)) + Cardinality(Units(f, S \ {x})) - Cardinality(Part(x) \cap Units(f, S \ {x}))
    <3>1. IsFiniteSet(Part(x))
      BY <1>1
    <3> HIDE DEF Part
    <3> QED
      BY <3>1, <2>2, FS_Union
  <2>4. Cardinality({}) = 0 /\ Cardinality(Part(x)) = f[x] /\ f[x] \in Nat
    BY <1>1, FS_EmptySet DEF Summed
  <2>5. Cardinality(Units(f, S \ {x})) \in Nat
    BY <2>2, FS_CardinalityType
  <2>6. Cardinality(Units(f, S)) = f[x] + Cardinality(Units(f, S \ {x})) - 0
    BY <2>1, <2>3, <2>4
  <2> QED
    BY <2>4, <2>5, <2>6 DEF Total
<1>5. Total(f, {}) = 0
  BY <1>3, FS_EmptySet DEF Total
<1>6. Total(f, S) \in Nat
  BY <1>2, FS_CardinalityType DEF Total
<1> QED
  BY <1>2, <1>4, <1>5, <1>6

\* A sum depends on the values at the elements only.
LEMMA SameTotal ==
  ASSUME NEW S, NEW f, NEW g, \A x \in S : f[x] = g[x]
  PROVE  Total(f, S) = Total(g, S)
BY DEF Total, Units

\* A function that adds the values up, one element after another.
AddsUp(k, S, f) ==
  k = [s \in SUBSET S |-> IF s = {} THEN 0 ELSE f[CHOOSE x \in s : TRUE] + k[s \ {CHOOSE x \in s : TRUE}]]

\* The sums of the subsets are one.
LEMMA TotalAddsUp ==
  ASSUME NEW S, NEW f, Summed(S, f)
  PROVE  AddsUp([s \in SUBSET S |-> Total(f, s)], S, f)
<1> DEFINE First(s) == CHOOSE x \in s : TRUE
           g == [s \in SUBSET S |-> Total(f, s)]
<1>1. ASSUME NEW s \in SUBSET S PROVE Summed(s, f)
  BY FS_Subset DEF Summed
<1>2. ASSUME NEW s \in SUBSET S, s # {} PROVE First(s) \in s /\ s \ {First(s)} \in SUBSET S
  BY <1>2
<1>3. \A s \in SUBSET S : Total(f, s) = IF s = {} THEN 0 ELSE f[First(s)] + Total(f, s \ {First(s)})
  <2> TAKE s \in SUBSET S
  <2>1. CASE s = {}
    <3>1. Summed({}, f)
      BY <1>1
    <3> QED
      BY <2>1, <3>1, TotalFacts
  <2>2. CASE s # {}
    <3>1. First(s) \in s /\ Summed(s, f)
      BY <2>2, <1>1, <1>2
    <3> HIDE DEF First
    <3> QED
      BY <2>2, <3>1, TotalFacts
  <2> QED
    BY <2>1, <2>2
<1>4. g = [s \in SUBSET S |-> IF s = {} THEN 0 ELSE f[First(s)] + g[s \ {First(s)}]]
  <2>1. \A s \in SUBSET S : s # {} => g[s \ {First(s)}] = Total(f, s \ {First(s)})
    BY <1>2
  <2> HIDE DEF First
  <2> QED
    BY <1>3, <2>1
<1> QED
  BY <1>4 DEF AddsUp

\* And they are the only one.
LEMMA AddsUpTotal ==
  ASSUME NEW S, NEW f, Summed(S, f), NEW k, AddsUp(k, S, f)
  PROVE  k[S] = Total(f, S)
<1> DEFINE First(s) == CHOOSE x \in s : TRUE
           g == [s \in SUBSET S |-> Total(f, s)]
           N == {n \in Nat : \A s \in SUBSET S : Cardinality(s) = n => k[s] = g[s]}
<1>1. AddsUp(g, S, f)
  BY TotalAddsUp
<1>2. ASSUME NEW s \in SUBSET S, s # {} PROVE First(s) \in s /\ s \ {First(s)} \in SUBSET S
  BY <1>2
<1>3. \A s \in SUBSET S : IsFiniteSet(s) /\ Cardinality(s) \in Nat
  BY FS_Subset, FS_CardinalityType DEF Summed
<1>4. \A s \in SUBSET S : /\ k[s] = IF s = {} THEN 0 ELSE f[First(s)] + k[s \ {First(s)}]
                          /\ g[s] = IF s = {} THEN 0 ELSE f[First(s)] + g[s \ {First(s)}]
  <2>1. /\ k = [s \in SUBSET S |-> IF s = {} THEN 0 ELSE f[First(s)] + k[s \ {First(s)}]]
        /\ g = [s \in SUBSET S |-> IF s = {} THEN 0 ELSE f[First(s)] + g[s \ {First(s)}]]
    <3> HIDE DEF g
    <3> QED
      BY <1>1 DEF AddsUp
  <2> HIDE DEF First, g
  <2> QED
    BY <2>1
<1> HIDE DEF First, g
<1>5. 0 \in N
  <2>1. \A s \in SUBSET S : Cardinality(s) = 0 => s = {}
    BY <1>3, FS_EmptySet
  <2> QED
    BY <2>1, <1>4
<1>6. ASSUME NEW n \in N, n \in Nat PROVE n + 1 \in N
  <2> SUFFICES ASSUME NEW s \in SUBSET S, Cardinality(s) = n + 1 PROVE k[s] = g[s]
    BY <1>6
  <2>1. s # {}
    <3>1. Cardinality({}) = 0 /\ n + 1 # 0
      BY <1>6, FS_EmptySet
    <3> QED
      BY <3>1
  <2>2. First(s) \in s /\ s \ {First(s)} \in SUBSET S
    BY <1>2, <2>1
  <2>3. Cardinality(s \ {First(s)}) = n
    <3>1. Cardinality(s \ {First(s)}) = Cardinality(s) - 1
      BY <1>3, <2>2, FS_RemoveElement
    <3> QED
      BY <3>1, <1>6
  <2>4. k[s \ {First(s)}] = g[s \ {First(s)}]
    BY <1>6, <2>2, <2>3
  <2> QED
    BY <1>4, <2>1, <2>4
<1>7. Nat \subseteq N
  <2> HIDE DEF N
  <2> QED
    BY <1>5, <1>6, SetInduction
<1>8. k[S] = g[S]
  <2>1. S \in SUBSET S /\ Cardinality(S) \in N
    BY <1>3, <1>7
  <2> QED
    BY <2>1
<1> QED
  BY <1>8 DEF g
=============================================================================
