----------------------------- MODULE HeapLemmas -----------------------------
(***************************************************************************)
(* What the functions of the object heap keep of blocks, references and    *)
(* counts, for any blocks, sizes and lengths.                              *)
(***************************************************************************)
EXTENDS ObjHeap, Arithmetic, SequenceTheorems

-----------------------------------------------------------------------------
(***************************************************************************)
(* Sets that grow until they stay as they are.                             *)
(***************************************************************************)
Grows(F) == F \in [SUBSET Id -> SUBSET Id] /\ \A A, B \in SUBSET Id : A \subseteq B => F[A] \subseteq F[B]

Stages(F, S, n, stage) ==
  stage = [k \in 0 .. n |-> IF k = 0 THEN S ELSE F[stage[k - 1]]]

\* The stages exist, up to any number.
LEMMA StagesExist ==
  ASSUME NEW F \in [SUBSET Id -> SUBSET Id], NEW S \in SUBSET Id
  PROVE  \A n \in Nat : \E stage \in [0 .. n -> SUBSET Id] : Stages(F, S, n, stage)
<1> DEFINE Ns == {n \in Nat : \E stage \in [0 .. n -> SUBSET Id] : Stages(F, S, n, stage)}
<1>1. 0 \in Ns
  <2>1. PICK stage : stage = [k \in 0 .. 0 |-> S]
    OBVIOUS
  <2>2. stage \in [0 .. 0 -> SUBSET Id] /\ Stages(F, S, 0, stage)
    BY <2>1 DEF Stages
  <2> QED
    BY <2>2
<1>2. ASSUME NEW n \in Nat, n \in Ns PROVE n + 1 \in Ns
  <2>1. PICK stage \in [0 .. n -> SUBSET Id] : Stages(F, S, n, stage)
    BY <1>2
  <2>2. PICK more : more = [k \in 0 .. n + 1 |-> IF k = n + 1 THEN F[stage[n]] ELSE stage[k]]
    OBVIOUS
  <2>3. more \in [0 .. n + 1 -> SUBSET Id]
    BY <2>1, <2>2
  <2>4. ASSUME NEW k \in 0 .. n + 1 PROVE more[k] = IF k = 0 THEN S ELSE F[more[k - 1]]
    <3>1. CASE k = n + 1
      <4>1. k # 0 /\ k - 1 = n /\ n \in 0 .. n + 1 /\ n # n + 1
        BY <3>1
      <4> QED
        BY <2>2, <3>1, <4>1
    <3>2. CASE k # n + 1
      <4>1. k \in 0 .. n /\ (k # 0 => k - 1 \in 0 .. n + 1 /\ k - 1 # n + 1)
        BY <3>2
      <4>2. stage[k] = IF k = 0 THEN S ELSE F[stage[k - 1]]
        BY <2>1, <4>1 DEF Stages
      <4> QED
        BY <2>2, <3>2, <4>1, <4>2
    <3> QED
      BY <3>1, <3>2
  <2>5. Stages(F, S, n + 1, more)
    <3>1. more = [k \in 0 .. n + 1 |-> more[k]]
      BY <2>3
    <3> QED
      BY <2>4, <3>1 DEF Stages
  <2> QED
    BY <2>3, <2>5
<1> HIDE DEF Ns
<1>3. Nat \subseteq Ns
  BY <1>1, <1>2, SetInduction
<1> QED
  BY <1>3 DEF Ns

\* What a set grows to is a fixpoint, and the least there is above the set.
LEMMA FixpointFacts ==
  ASSUME NEW F, Grows(F), NEW S \in SUBSET Id, S \subseteq F[S]
  PROVE  /\ Fixpoint(F, S) \in SUBSET Id
         /\ S \subseteq Fixpoint(F, S)
         /\ F[Fixpoint(F, S)] = Fixpoint(F, S)
         /\ \A T \in SUBSET Id : S \subseteq T /\ F[T] \subseteq T => Fixpoint(F, S) \subseteq T
<1>1. PICK n \in Nat : n = Cardinality(Id)
  BY BlocksAssumption, FS_CardinalityType
<1>2. PICK chosen : chosen = CHOOSE stage : Stages(F, S, n, stage)
  OBVIOUS
<1>3. Fixpoint(F, S) = chosen[n]
  BY <1>1, <1>2 DEF Fixpoint, Stages
<1>4. \E stage : Stages(F, S, n, stage)
  BY StagesExist DEF Grows
<1>5. chosen = [k \in 0 .. n |-> IF k = 0 THEN S ELSE F[chosen[k - 1]]]
  BY <1>2, <1>4 DEF Stages
<1>6. chosen[0] = S /\ \A k \in Nat : k + 1 <= n => chosen[k + 1] = F[chosen[k]]
  <2>1. chosen[0] = S
    BY <1>5
  <2>2. ASSUME NEW k \in Nat, k + 1 <= n PROVE chosen[k + 1] = F[chosen[k]]
    <3>1. k + 1 \in 0 .. n /\ k + 1 # 0 /\ (k + 1) - 1 = k
      BY <2>2
    <3> QED
      BY <1>5, <3>1
  <2> QED
    BY <2>1, <2>2
<1>7. \A k \in Nat : k <= n => chosen[k] \in SUBSET Id /\ S \subseteq chosen[k] /\ chosen[k] \subseteq F[chosen[k]]
  <2> DEFINE Ns == {k \in Nat : k <= n =>
                      chosen[k] \in SUBSET Id /\ S \subseteq chosen[k] /\ chosen[k] \subseteq F[chosen[k]]}
  <2>1. 0 \in Ns
    BY <1>6
  <2>2. ASSUME NEW k \in Nat, k \in Ns PROVE k + 1 \in Ns
    <3> SUFFICES ASSUME k + 1 <= n
                 PROVE  /\ chosen[k + 1] \in SUBSET Id /\ S \subseteq chosen[k + 1]
                        /\ chosen[k + 1] \subseteq F[chosen[k + 1]]
      OBVIOUS
    <3>1. PICK A : A = chosen[k]
      OBVIOUS
    <3>2. A \in SUBSET Id /\ S \subseteq A /\ A \subseteq F[A]
      BY <2>2, <3>1
    <3>3. F[A] \in SUBSET Id /\ F[A] \subseteq F[F[A]]
      BY <3>2 DEF Grows
    <3>4. chosen[k + 1] = F[A]
      BY <1>6, <3>1
    <3> QED
      BY <3>2, <3>3, <3>4
  <2> HIDE DEF Ns
  <2>3. Nat \subseteq Ns
    BY <2>1, <2>2, SetInduction
  <2> QED
    BY <2>3 DEF Ns
<1>8. ASSUME NEW T \in SUBSET Id, S \subseteq T, F[T] \subseteq T
      PROVE  \A k \in Nat : k <= n => chosen[k] \subseteq T
  <2> DEFINE Ns == {k \in Nat : k <= n => chosen[k] \subseteq T}
  <2>1. 0 \in Ns
    BY <1>6, <1>8
  <2>2. ASSUME NEW k \in Nat, k \in Ns PROVE k + 1 \in Ns
    <3> SUFFICES ASSUME k + 1 <= n PROVE chosen[k + 1] \subseteq T
      OBVIOUS
    <3>1. chosen[k] \subseteq T /\ chosen[k] \in SUBSET Id
      BY <1>7, <2>2
    <3>2. F[chosen[k]] \subseteq F[T]
      BY <3>1 DEF Grows
    <3> QED
      BY <1>6, <1>8, <3>2
  <2> HIDE DEF Ns
  <2>3. Nat \subseteq Ns
    BY <2>1, <2>2, SetInduction
  <2> QED
    BY <2>3 DEF Ns
<1>9. \A k \in Nat : k <= n => F[chosen[k]] = chosen[k] \/ Cardinality(chosen[k]) >= k
  <2> DEFINE Ns == {k \in Nat : k <= n => F[chosen[k]] = chosen[k] \/ Cardinality(chosen[k]) >= k}
  <2>1. 0 \in Ns
    <3>1. IsFiniteSet(chosen[0])
      BY <1>6, BlocksAssumption, FS_Subset
    <3>2. Cardinality(chosen[0]) \in Nat
      BY <3>1, FS_CardinalityType
    <3> QED
      BY <3>2
  <2>2. ASSUME NEW k \in Nat, k \in Ns PROVE k + 1 \in Ns
    <3> SUFFICES ASSUME k + 1 <= n
                 PROVE  F[chosen[k + 1]] = chosen[k + 1] \/ Cardinality(chosen[k + 1]) >= k + 1
      OBVIOUS
    <3>1. PICK A, B : A = chosen[k] /\ B = chosen[k + 1]
      OBVIOUS
    <3>2. B = F[A] /\ A \subseteq B /\ B \in SUBSET Id
      BY <1>6, <1>7, <3>1
    <3>3. CASE F[A] = A
      BY <3>1, <3>2, <3>3
    <3>4. CASE F[A] # A
      <4>1. Cardinality(A) >= k
        BY <2>2, <3>1, <3>4
      <4>2. IsFiniteSet(B)
        BY <3>2, BlocksAssumption, FS_Subset
      <4>3. /\ A # B /\ IsFiniteSet(A) /\ Cardinality(A) <= Cardinality(B)
            /\ Cardinality(B) = Cardinality(A) => B = A
        <5>1. A # B /\ A \in SUBSET B
          BY <3>2, <3>4
        <5>2. IsFiniteSet(A) /\ Cardinality(A) <= Cardinality(B) /\ (Cardinality(B) = Cardinality(A) => B = A)
          BY <4>2, <5>1, FS_Subset
        <5> QED
          BY <5>1, <5>2
      <4>4. Cardinality(A) \in Nat /\ Cardinality(B) \in Nat
        BY <4>2, <4>3, FS_CardinalityType
      <4> QED
        BY <3>1, <4>1, <4>3, <4>4
    <3> QED
      BY <3>3, <3>4
  <2> HIDE DEF Ns
  <2>3. Nat \subseteq Ns
    BY <2>1, <2>2, SetInduction
  <2> QED
    BY <2>3 DEF Ns
<1>10. PICK R : R = chosen[n] /\ R \in SUBSET Id /\ S \subseteq R /\ R \subseteq F[R]
  BY <1>7
<1>11. F[R] = R
  <2>1. F[R] = R \/ Cardinality(R) >= n
    BY <1>9, <1>10
  <2>2. CASE Cardinality(R) >= n
    <3>1. R = Id
      <4>1. R # Id => Cardinality(R) < n /\ Cardinality(R) \in Nat
        BY <1>1, <1>10, BlocksAssumption, FS_Subset, FS_CardinalityType
      <4> QED
        BY <2>2, <4>1
    <3>2. F[R] \in SUBSET Id
      BY <1>10 DEF Grows
    <3> QED
      BY <1>10, <3>1, <3>2
  <2> QED
    BY <2>1, <2>2
<1>12. \A T \in SUBSET Id : S \subseteq T /\ F[T] \subseteq T => R \subseteq T
  BY <1>8, <1>10
<1> QED
  BY <1>3, <1>10, <1>11, <1>12

-----------------------------------------------------------------------------
(***************************************************************************)
(* Blocks that can be reached.                                             *)
(***************************************************************************)

\* The closure of a set contains it, goes on to whatever is next, and contains
\* no more than any set that does.
LEMMA ClosureFacts ==
  ASSUME NEW next \in [Id -> SUBSET Id], NEW S \in SUBSET Id
  PROVE  /\ Closure(next, S) \in SUBSET Id
         /\ S \subseteq Closure(next, S)
         /\ \A x \in Closure(next, S) : next[x] \subseteq Closure(next, S)
         /\ \A T \in SUBSET Id : S \subseteq T /\ (\A x \in T : next[x] \subseteq T) => Closure(next, S) \subseteq T
<1>1. PICK F : F = [R \in SUBSET Id |-> R \cup UNION {next[x] : x \in R}]
  OBVIOUS
<1>2. \A R \in SUBSET Id : F[R] = R \cup UNION {next[x] : x \in R}
  BY <1>1
<1>3. \A R \in SUBSET Id : F[R] \in SUBSET Id
  BY <1>2
<1>4. \A A, B \in SUBSET Id : A \subseteq B => F[A] \subseteq F[B]
  BY <1>2
<1>5. Grows(F)
  BY <1>1, <1>3, <1>4 DEF Grows
<1>6. S \subseteq F[S]
  BY <1>2
<1>7. PICK C : C = Closure(next, S) /\ C = Fixpoint(F, S)
  BY <1>1 DEF Closure
<1>8. C \in SUBSET Id /\ S \subseteq C /\ F[C] = C
  BY <1>5, <1>6, <1>7, FixpointFacts
<1>9. \A T \in SUBSET Id : S \subseteq T /\ F[T] \subseteq T => C \subseteq T
  BY <1>5, <1>6, <1>7, FixpointFacts
<1>10. \A x \in C : next[x] \subseteq C
  BY <1>2, <1>8
<1>11. ASSUME NEW T \in SUBSET Id, S \subseteq T, \A x \in T : next[x] \subseteq T
       PROVE  C \subseteq T
  <2>1. F[T] \subseteq T
    BY <1>2, <1>11
  <2> QED
    BY <1>9, <1>11, <2>1
<1> QED
  BY <1>7, <1>8, <1>10, <1>11

\* References in the elements of blocks name blocks.
ElementsTyped(h) == \A x \in Id : h[x].elems \in Seq(OBJ)

\* So that what an element leads to is a block.
LEMMA TargetIds ==
  /\ \A ref \in OBJ : Target(ref) \in SUBSET Id
  /\ \A h : ElementsTyped(h) => \A x \in Id : Targets(h, x) \in SUBSET Id
<1>1. \A ref \in OBJ : Target(ref) \in SUBSET Id
  BY DEF Target, OBJ, Ref
<1>2. ASSUME NEW h, ElementsTyped(h), NEW x \in Id PROVE Targets(h, x) \in SUBSET Id
  <2>1. PICK xs \in Seq(OBJ) : xs = h[x].elems
    BY <1>2 DEF ElementsTyped
  <2>2. \A i \in DOMAIN xs : xs[i] \in OBJ
    BY <2>1, ElementOfSeq
  <2> QED
    BY <1>1, <2>1, <2>2 DEF Targets
<1> QED
  BY <1>1, <1>2

\* What is reached from a set of blocks is the closure under what elements point to.
LEMMA ReachedFacts ==
  ASSUME NEW h, ElementsTyped(h), NEW S \in SUBSET Id
  PROVE  /\ ReachedFrom(h, S) \in SUBSET Id
         /\ S \subseteq ReachedFrom(h, S)
         /\ \A x \in ReachedFrom(h, S) : Targets(h, x) \subseteq ReachedFrom(h, S)
         /\ \A T \in SUBSET Id :
              S \subseteq T /\ (\A x \in T : Targets(h, x) \subseteq T) => ReachedFrom(h, S) \subseteq T
<1>1. PICK next : next = [x \in Id |-> Targets(h, x)]
  OBVIOUS
<1>2. next \in [Id -> SUBSET Id] /\ \A x \in Id : next[x] = Targets(h, x)
  BY <1>1, TargetIds
<1>3. PICK R : R = ReachedFrom(h, S) /\ R = Closure(next, S)
  BY <1>1 DEF ReachedFrom
<1>4. R \in SUBSET Id /\ S \subseteq R /\ \A x \in R : next[x] \subseteq R
  BY <1>2, <1>3, ClosureFacts
<1>5. \A T \in SUBSET Id : S \subseteq T /\ (\A x \in T : next[x] \subseteq T) => R \subseteq T
  BY <1>2, <1>3, ClosureFacts
<1>6. ASSUME NEW T \in SUBSET Id, S \subseteq T, \A x \in T : Targets(h, x) \subseteq T
      PROVE  R \subseteq T
  <2>1. \A x \in T : next[x] \subseteq T
    BY <1>2, <1>6
  <2> QED
    BY <1>5, <1>6, <2>1
<1>7. \A x \in R : Targets(h, x) \subseteq R
  BY <1>2, <1>4
<1> QED
  BY <1>3, <1>4, <1>6, <1>7

-----------------------------------------------------------------------------
(***************************************************************************)
(* The sizes of blocks.                                                    *)
(***************************************************************************)

\* The elements that fit in a block of each size.
LEMMA BlockSizes ==
  ASSUME NEW n \in Nat
  PROVE  /\ SMALLEST * pow2[n] \in Nat /\ SMALLEST * pow2[n] > n /\ SMALLEST * pow2[n] >= 2
         /\ \A m \in Nat : m <= n => SMALLEST * pow2[m] <= SMALLEST * pow2[n]
<1>1. PICK p \in Nat, s \in Nat : p = pow2[n] /\ s = SMALLEST /\ p > n /\ s >= 2
  BY Pow2Grows, SizesAssumption
<1>2. s * p \in Nat /\ s * p >= 2 * p
  BY <1>1
<1>3. ASSUME NEW m \in Nat, m <= n PROVE s * pow2[m] <= s * p
  <2>1. PICK q \in Nat : q = pow2[m]
    BY Pow2Grows
  <2>2. q <= p
    <3>1. CASE m = n
      BY <1>1, <2>1, <3>1
    <3>2. CASE m < n
      <4>1. pow2[m] < pow2[n]
        BY <3>2, Pow2Increases
      <4> QED
        BY <1>1, <2>1, <4>1
    <3> QED
      BY <1>3, <3>1, <3>2
  <2>3. PICK d \in Nat : p = q + d
    <3>1. p - q \in Nat /\ p = q + (p - q)
      BY <2>2
    <3> QED
      BY <3>1
  <2>4. s * p = s * q + s * d /\ s * d >= 0 /\ s * q \in Nat /\ s * d \in Nat
    BY <2>3
  <2> QED
    BY <2>1, <2>4
<1> QED
  BY <1>1, <1>2, <1>3

\* A sequence gets the smallest block that is enough for it.
LEMMA CapacityFacts ==
  ASSUME NEW length \in Nat
  PROVE  /\ seq_capacity(length) \in Nat /\ seq_capacity(length) >= length /\ seq_capacity(length) >= 1
         /\ \A other \in Nat : other <= seq_capacity(length) => seq_capacity(other) <= seq_capacity(length)
<1> DEFINE Fits(n, len) == /\ SMALLEST * pow2[n] > len
                           /\ \A m \in 0 .. n - 1 : SMALLEST * pow2[m] <= len
<1>1. ASSUME NEW len \in Nat
      PROVE  \E n \in 0 .. len : Fits(n, len) /\ seq_capacity(len) = SMALLEST * pow2[n] - 1
  <2>1. PICK Ns : Ns = {n \in Nat : SMALLEST * pow2[n] > len}
    OBVIOUS
  <2>2. len \in Ns
    BY <2>1, BlockSizes
  <2>3. PICK n \in Ns : \A m \in Ns : n <= m
    <3>1. Ns \in SUBSET Nat /\ Ns # {}
      BY <2>1, <2>2
    <3> QED
      BY <3>1, LeastNat
  <2>4. n \in 0 .. len
    BY <2>1, <2>2, <2>3
  <2>5. ASSUME NEW m \in 0 .. n - 1 PROVE SMALLEST * pow2[m] <= len
    <3>1. m \in Nat /\ m \notin Ns
      BY <2>3, <2>4
    <3>2. SMALLEST * pow2[m] \in Nat /\ ~ (SMALLEST * pow2[m] > len)
      BY <2>1, <3>1, BlockSizes
    <3> QED
      BY <3>2
  <2>6. Fits(n, len)
    BY <2>1, <2>5
  <2>7. PICK k : k = CHOOSE j \in 0 .. len : Fits(j, len)
    OBVIOUS
  <2>8. k \in 0 .. len /\ Fits(k, len)
    BY <2>4, <2>6, <2>7
  <2>9. seq_capacity(len) = SMALLEST * pow2[k] - 1
    BY <2>7 DEF seq_capacity
  <2> HIDE DEF Fits
  <2> QED
    BY <2>8, <2>9
<1>2. PICK k \in 0 .. length : Fits(k, length) /\ seq_capacity(length) = SMALLEST * pow2[k] - 1
  BY <1>1
<1>3. PICK c \in Nat : c = SMALLEST * pow2[k] /\ c >= 2 /\ c > length /\ seq_capacity(length) = c - 1
  BY <1>2, BlockSizes
<1>4. ASSUME NEW other \in Nat, other <= seq_capacity(length)
      PROVE  seq_capacity(other) <= seq_capacity(length)
  <2>1. PICK j \in 0 .. other : Fits(j, other) /\ seq_capacity(other) = SMALLEST * pow2[j] - 1
    BY <1>1
  <2>2. j <= k
    <3> SUFFICES ASSUME k < j PROVE FALSE
      OBVIOUS
    <3>1. k \in 0 .. j - 1
      OBVIOUS
    <3>2. SMALLEST * pow2[k] <= other
      BY <2>1, <3>1
    <3> QED
      BY <1>3, <1>4, <3>2
  <2>3. PICK d \in Nat : d = SMALLEST * pow2[j] /\ d <= c
    BY <1>3, <2>2, BlockSizes
  <2> QED
    BY <1>3, <2>1, <2>3
<1> QED
  BY <1>3, <1>4

Largest == seq_capacity(MAX_LENGTH)

\* The largest block is enough for a sequence of any length up to the largest.
LEMMA LargestFacts ==
  /\ Largest \in Nat /\ MAX_LENGTH <= Largest /\ MAX_LENGTH \in Nat /\ 2 <= MAX_LENGTH
  /\ Slot = 1 .. Largest /\ IsFiniteSet(Slot)
  /\ \A n \in Nat : n <= Largest => /\ seq_capacity(n) \in Nat /\ seq_capacity(n) <= Largest
                                    /\ seq_capacity(n) >= n /\ seq_capacity(n) >= 1
<1>1. MAX_LENGTH \in Nat /\ 2 <= MAX_LENGTH
  BY SizesAssumption
<1>2. Largest \in Nat /\ MAX_LENGTH <= Largest
  BY <1>1, CapacityFacts DEF Largest
<1>3. Slot = 1 .. Largest /\ IsFiniteSet(Slot)
  BY <1>2, IntervalSize DEF Slot, Largest
<1>4. \A n \in Nat : n <= Largest => seq_capacity(n) <= Largest
  BY <1>1, CapacityFacts DEF Largest
<1>5. \A n \in Nat : seq_capacity(n) \in Nat /\ seq_capacity(n) >= n /\ seq_capacity(n) >= 1
  BY CapacityFacts
<1> QED
  BY <1>1, <1>2, <1>3, <1>4, <1>5

-----------------------------------------------------------------------------
(***************************************************************************)
(* Counting references.                                                    *)
(***************************************************************************)

\* The reference is to the block x, in the memory m.
Refers(m, ref, x) == ref \notin Inline \cup {NONE} /\ ref.mem = m /\ ref.obj = x
One(m, ref, x) == IF Refers(m, ref, x) THEN 1 ELSE 0
Among(m, refs, x) == Cardinality({i \in DOMAIN refs : Refers(m, refs[i], x)})

\* The places of the references to x in the elements of the blocks in D.
Places(h, m, D, x) ==
  {p \in D \X Slot : p[2] \in DOMAIN h[p[1]].elems /\ Refers(m, h[p[1]].elems[p[2]], x)}

\* References and what is inline are told apart.
LEMMA Kinship ==
  /\ NONE \notin OBJ /\ Inline \cap Ref = {} /\ NONE \notin Inline
  /\ \A ref \in OBJ : ref \notin Inline => ref \in Ref /\ ref.obj \in Id /\ ref.mem \in Memory
                                           /\ ref.off \in Nat /\ ref.len \in Nat
  /\ \A mode : CurrMemory(mode) \in Memory
BY InlineAssumption DEF OBJ, Ref, Memory, CurrMemory

\* What the code counts in a sequence are the references to the memory in use.
LEMMA CountedAmong ==
  ASSUME NEW mode, NEW refs \in Seq(OBJ), NEW x
  PROVE  Counted(mode, refs, x) = Among(CurrMemory(mode), refs, x) /\ Counted(mode, refs, x) \in Nat
<1>1. \A i \in DOMAIN refs : refs[i] \in OBJ
  BY LenProperties
<1>2. PICK c : c = CurrMemory(mode)
  OBVIOUS
<1>3. \A i \in DOMAIN refs : is_gc_obj(mode, refs[i]) /\ refs[i].obj = x <=> Refers(c, refs[i], x)
  BY <1>1, <1>2, Kinship DEF is_gc_obj, Refers
<1>4. {i \in DOMAIN refs : is_gc_obj(mode, refs[i]) /\ refs[i].obj = x} = {i \in DOMAIN refs : Refers(c, refs[i], x)}
  BY <1>3
<1>5. IsFiniteSet(DOMAIN refs)
  BY LenProperties, IntervalSize
<1>6. IsFiniteSet({i \in DOMAIN refs : Refers(c, refs[i], x)})
  BY <1>5, FS_Subset
<1> QED
  BY <1>2, <1>4, <1>6, FS_CardinalityType DEF Counted, Among

\* One reference counts once, or not at all.
LEMMA CountedOne ==
  ASSUME NEW mode, NEW ref \in OBJ, NEW x
  PROVE  Counted(mode, <<ref>>, x) = One(CurrMemory(mode), ref, x)
<1>1. PICK c : c = CurrMemory(mode)
  OBVIOUS
<1>2. PICK N : N = {i \in DOMAIN <<ref>> : is_gc_obj(mode, <<ref>>[i]) /\ <<ref>>[i].obj = x}
  OBVIOUS
<1>3. N = IF Refers(c, ref, x) THEN {1} ELSE {}
  BY <1>1, <1>2, Kinship DEF is_gc_obj, Refers
<1>4. Cardinality(N) = IF Refers(c, ref, x) THEN 1 ELSE 0
  BY <1>3, FS_EmptySet, FS_Singleton
<1> QED
  BY <1>1, <1>2, <1>4 DEF Counted, One

\* Appending a reference adds it to the count.
LEMMA AmongAppend ==
  ASSUME NEW m, NEW refs \in Seq(OBJ), NEW ref \in OBJ, NEW x
  PROVE  Among(m, Append(refs, ref), x) = Among(m, refs, x) + One(m, ref, x)
<1>1. PICK n \in Nat : n = Len(refs) /\ DOMAIN refs = 1 .. n
  BY LenProperties
<1>2. PICK more : more = Append(refs, ref)
  OBVIOUS
<1>3. DOMAIN more = 1 .. n + 1 /\ more[n + 1] = ref /\ \A i \in 1 .. n : more[i] = refs[i]
  BY <1>1, <1>2, AppendProperties, LenProperties
<1>4. PICK A, B : /\ A = {i \in DOMAIN refs : Refers(m, refs[i], x)}
                  /\ B = {i \in DOMAIN more : Refers(m, more[i], x)}
  OBVIOUS
<1>5. IsFiniteSet(A) /\ n + 1 \notin A
  <2>1. IsFiniteSet(DOMAIN refs)
    BY <1>1, IntervalSize
  <2> QED
    BY <1>1, <1>4, <2>1, FS_Subset
<1>6. B = IF Refers(m, ref, x) THEN A \cup {n + 1} ELSE A
  <2>1. \A i \in 1 .. n : i \in B <=> i \in A
    BY <1>1, <1>3, <1>4
  <2>2. n + 1 \in B <=> Refers(m, ref, x)
    BY <1>1, <1>3, <1>4
  <2>3. A \in SUBSET (1 .. n) /\ B \in SUBSET (1 .. n + 1)
    BY <1>1, <1>3, <1>4
  <2>4. 1 .. n + 1 = (1 .. n) \cup {n + 1}
    BY <1>1
  <2>5. CASE Refers(m, ref, x)
    <3>1. \A i : i \in B <=> i \in A \cup {n + 1}
      BY <2>1, <2>2, <2>3, <2>4, <2>5
    <3> QED
      BY <2>5, <3>1
  <2>6. CASE ~ Refers(m, ref, x)
    <3>1. \A i : i \in B <=> i \in A
      BY <2>1, <2>2, <2>3, <2>4, <2>6
    <3> QED
      BY <2>6, <3>1
  <2> QED
    BY <2>5, <2>6
<1>7. Cardinality(B) = Cardinality(A) + One(m, ref, x)
  <2>1. Cardinality(A) \in Nat
    BY <1>5, FS_CardinalityType
  <2>2. Cardinality(A \cup {n + 1}) = Cardinality(A) + 1
    BY <1>5, FS_AddElement
  <2> QED
    BY <1>6, <2>1, <2>2 DEF One
<1> QED
  BY <1>2, <1>4, <1>7 DEF Among

\* Places are finitely many, and those in blocks apart add up.
LEMMA PlacesFacts ==
  ASSUME NEW h, NEW m, NEW x
  PROVE  /\ \A D \in SUBSET Id : /\ IsFiniteSet(Places(h, m, D, x))
                                 /\ Cardinality(Places(h, m, D, x)) \in Nat
         /\ \A D, E \in SUBSET Id : D \cap E = {} =>
              Cardinality(Places(h, m, D \cup E, x)) =
                Cardinality(Places(h, m, D, x)) + Cardinality(Places(h, m, E, x))
         /\ \A D, E \in SUBSET Id : D \subseteq E =>
              Cardinality(Places(h, m, D, x)) <= Cardinality(Places(h, m, E, x))
<1>1. ASSUME NEW D \in SUBSET Id
      PROVE  IsFiniteSet(Places(h, m, D, x)) /\ Cardinality(Places(h, m, D, x)) \in Nat
  <2>1. IsFiniteSet(D \X Slot)
    BY BlocksAssumption, LargestFacts, FS_Subset, FS_Product
  <2>2. Places(h, m, D, x) \in SUBSET (D \X Slot)
    BY DEF Places
  <2> QED
    BY <2>1, <2>2, FS_Subset, FS_CardinalityType
<1>2. ASSUME NEW D \in SUBSET Id, NEW E \in SUBSET Id, D \cap E = {}
      PROVE  Cardinality(Places(h, m, D \cup E, x)) =
               Cardinality(Places(h, m, D, x)) + Cardinality(Places(h, m, E, x))
  <2>1. PICK P, Q : P = Places(h, m, D, x) /\ Q = Places(h, m, E, x)
    OBVIOUS
  <2>2. Places(h, m, D \cup E, x) = P \cup Q /\ P \cap Q = {}
    BY <1>2, <2>1 DEF Places
  <2>3. IsFiniteSet(P) /\ IsFiniteSet(Q) /\ Cardinality(P) \in Nat /\ Cardinality(Q) \in Nat
    BY <1>1, <2>1
  <2>4. Cardinality(P \cup Q) = Cardinality(P) + Cardinality(Q) - Cardinality(P \cap Q)
    BY <2>3, FS_Union
  <2>5. Cardinality(P \cap Q) = 0
    BY <2>2, FS_EmptySet
  <2>6. PICK a \in Nat, b \in Nat : a = Cardinality(P) /\ b = Cardinality(Q)
    BY <2>3
  <2>7. Cardinality(P \cup Q) = a + b
    BY <2>4, <2>5, <2>6
  <2> QED
    BY <2>1, <2>2, <2>6, <2>7
<1>3. ASSUME NEW D \in SUBSET Id, NEW E \in SUBSET Id, D \subseteq E
      PROVE  Cardinality(Places(h, m, D, x)) <= Cardinality(Places(h, m, E, x))
  <2>1. Places(h, m, D, x) \in SUBSET Places(h, m, E, x)
    BY <1>3 DEF Places
  <2> QED
    BY <1>1, <2>1, FS_Subset
<1> QED
  BY <1>1, <1>2, <1>3

\* The counting of the code, by places.
LEMMA CountedFromPlaces ==
  ASSUME NEW h, ElementsTyped(h), NEW mode, NEW D \in SUBSET Id, NEW x
  PROVE  CountedFrom(h, mode, D, x) = Cardinality(Places(h, CurrMemory(mode), D, x))
<1>1. PICK c : c = CurrMemory(mode)
  OBVIOUS
<1>2. ASSUME NEW p \in D \X Slot, p[2] \in DOMAIN h[p[1]].elems
      PROVE  Counted(mode, <<h[p[1]].elems[p[2]]>>, x) = 1 <=> Refers(c, h[p[1]].elems[p[2]], x)
  <2>1. PICK r : r = h[p[1]].elems[p[2]]
    OBVIOUS
  <2>2. r \in OBJ
    <3>1. PICK xs \in Seq(OBJ) : xs = h[p[1]].elems
      BY DEF ElementsTyped
    <3>2. p[2] \in DOMAIN xs /\ r = xs[p[2]]
      BY <1>2, <2>1, <3>1
    <3> QED
      BY <3>2, LenProperties
  <2>3. Counted(mode, <<r>>, x) = One(c, r, x)
    BY <1>1, <2>2, CountedOne
  <2> QED
    BY <2>1, <2>3 DEF One
<1>3. {p \in D \X Slot : p[2] \in DOMAIN h[p[1]].elems /\ Counted(mode, <<h[p[1]].elems[p[2]]>>, x) = 1}
        = Places(h, c, D, x)
  BY <1>2 DEF Places
<1> QED
  BY <1>1, <1>3 DEF CountedFrom

\* The places in one block are those of its elements.
LEMMA PlacesOfOne ==
  ASSUME NEW h, NEW m, NEW x \in Id, NEW y, DOMAIN h[x].elems \subseteq Slot
  PROVE  Cardinality(Places(h, m, {x}, y)) = Among(m, h[x].elems, y)
<1>1. PICK xs, N : xs = h[x].elems /\ N = {i \in DOMAIN xs : Refers(m, xs[i], y)}
  OBVIOUS
<1>2. IsFiniteSet(N)
  <2>1. N \in SUBSET Slot
    BY <1>1
  <2> QED
    BY <2>1, LargestFacts, FS_Subset
<1>3. Places(h, m, {x}, y) = {<<x, i>> : i \in N}
  BY <1>1 DEF Places
<1>4. PICK P, f : P = {<<x, i>> : i \in N} /\ f = [i \in N |-> <<x, i>>]
  OBVIOUS
<1>5. f \in Bijection(N, P)
  <2>1. f \in [N -> P]
    BY <1>4
  <2>2. \A i, j \in N : f[i] = f[j] => i = j
    BY <1>4
  <2>3. \A p \in P : \E i \in N : f[i] = p
    BY <1>4
  <2> QED
    BY <2>1, <2>2, <2>3 DEF Bijection, Injection, Surjection, IsInjective
<1>6. Cardinality(P) = Cardinality(N)
  BY <1>2, <1>5, FS_Bijection DEF ExistsBijection
<1> QED
  BY <1>1, <1>3, <1>4, <1>6 DEF Among

-----------------------------------------------------------------------------
(***************************************************************************)
(* Heaps: what each block is, what references to it can be used for, and   *)
(* how its count relates to the references there are.                      *)
(***************************************************************************)
ObjectOK(o) ==
  /\ o \in Object
  /\ o.kind = "seq" => o.capacity <= Largest /\ (o.copy = NONE => Len(o.elems) <= o.capacity)
  /\ Len(o.elems) <= Largest
  /\ o.copy = NONE <=> ~ IsCopied(o)
  /\ o.copy # NONE => o.mem = "try" /\ o.elems = <<>>

HeapOK(h) == h = [x \in Id |-> h[x]] /\ \A x \in Id : h[x] = FREE \/ ObjectOK(h[x])

Objects(h, m) == {x \in Live(h) : h[x].mem = m}
NoCopies(h) == \A x \in Live(h) : h[x].copy = NONE

\* Where the contents of a block are.
Home(h, x) == IF h[x].copy = NONE THEN x ELSE h[x].copy

\* The reference is to a block there is, says where it is, and shows what it has.
Usable(h, ref) ==
  ref \in Inline \/ /\ ref \in Ref /\ h[ref.obj] # FREE /\ ref.mem = h[ref.obj].mem
                    /\ ref.len <= MAX_LENGTH
                    /\ ref.off + ref.len <= Len(h[Home(h, ref.obj)].elems)

\* The references to memory m from the blocks in D are to objects.
Alive(h, m, D) ==
  \A x \in D : \A i \in DOMAIN h[x].elems : \A y : Refers(m, h[x].elems[i], y) => y \in Objects(h, m)

\* Each object of memory m counts the references from objects of m, and
\* besides as many as outer says.
Within(h, m, x) == Cardinality(Places(h, m, Objects(h, m), x))
Balanced(h, m, outer) == \A x \in Objects(h, m) : h[x].count = outer[x] + Within(h, m, x)

\* What is known of the blocks of a heap.
LEMMA HeapFacts ==
  ASSUME NEW h, HeapOK(h)
  PROVE  /\ ElementsTyped(h)
         /\ \A x \in Id : /\ DOMAIN h[x].elems \subseteq Slot
                          /\ DOMAIN h[x].elems = 1 .. Len(h[x].elems) /\ Len(h[x].elems) \in Nat
                          /\ \A i \in DOMAIN h[x].elems : h[x].elems[i] \in OBJ
         /\ \A m : Objects(h, m) \in SUBSET Id
         /\ Live(h) \in SUBSET Id
         /\ \A x \in Live(h) : h[x].mem \in Memory /\ h[x].kind \in Kinds /\ h[x].count \in Nat \ {0}
<1>1. ASSUME NEW x \in Id
      PROVE  h[x].elems \in Seq(OBJ) /\ Len(h[x].elems) <= Largest
  <2>1. CASE h[x] = FREE
    <3>1. h[x].elems = <<>>
      BY <2>1 DEF FREE
    <3>2. <<>> \in Seq(OBJ) /\ Len(<<>>) = 0
      BY EmptySeq
    <3> QED
      BY <3>1, <3>2, LargestFacts
  <2>2. CASE ObjectOK(h[x])
    BY <2>2 DEF ObjectOK, Object
  <2> QED
    BY <2>1, <2>2 DEF HeapOK
<1>2. ASSUME NEW x \in Id
      PROVE  /\ DOMAIN h[x].elems \subseteq Slot
             /\ DOMAIN h[x].elems = 1 .. Len(h[x].elems) /\ Len(h[x].elems) \in Nat
             /\ \A i \in DOMAIN h[x].elems : h[x].elems[i] \in OBJ
  <2>1. PICK xs \in Seq(OBJ) : xs = h[x].elems /\ Len(xs) <= Largest
    BY <1>1
  <2>2. Len(xs) \in Nat /\ DOMAIN xs = 1 .. Len(xs) /\ \A i \in DOMAIN xs : xs[i] \in OBJ
    BY LenProperties
  <2>3. DOMAIN xs \subseteq Slot
    BY <2>1, <2>2, LargestFacts
  <2> QED
    BY <2>1, <2>2, <2>3
<1>3. \A m : Objects(h, m) \in SUBSET Id
  BY DEF Objects, Live
<1>4. \A x \in Live(h) : h[x].mem \in Memory /\ h[x].kind \in Kinds /\ h[x].count \in Nat \ {0}
  BY DEF Live, HeapOK, ObjectOK, Object
<1>5. Live(h) \in SUBSET Id
  BY DEF Live
<1> QED
  BY <1>1, <1>2, <1>3, <1>4, <1>5 DEF ElementsTyped

\* An object is no free block.
LEMMA LiveFacts ==
  /\ FREE \notin Object
  /\ \A h : HeapOK(h) => \A x \in Live(h) : ObjectOK(h[x])
<1>1. FREE \notin Object
  BY DEF FREE, Object
<1> QED
  BY <1>1 DEF HeapOK, Live

\* Usable references are to objects of the memory they name.
LEMMA UsableRefers ==
  ASSUME NEW h, HeapOK(h), NEW ref, Usable(h, ref), NEW m, NEW x, Refers(m, ref, x)
  PROVE  x \in Objects(h, m)
BY Kinship DEF Usable, Refers, Objects, Live, Ref

\* So that what can be used from some blocks is alive.
LEMMA UsableAlive ==
  ASSUME NEW h, HeapOK(h), NEW D, \A x \in D : \A i \in DOMAIN h[x].elems : Usable(h, h[x].elems[i]), NEW m
  PROVE  Alive(h, m, D)
BY UsableRefers DEF Alive

-----------------------------------------------------------------------------
(***************************************************************************)
(* Heaps that differ in the counts, and in the blocks that are freed.      *)
(***************************************************************************)
Thinned(h, h2, D) ==
  h2 = [x \in Id |-> IF x \in D \/ h[x] = FREE THEN FREE ELSE [h[x] EXCEPT !.count = h2[x].count]]

\* Everything but the counts stays.
LEMMA ThinnedFacts ==
  ASSUME NEW h, HeapOK(h), NEW D, NEW h2, Thinned(h, h2, D),
         \A x \in Live(h) \ D : h2[x].count \in Nat \ {0}
  PROVE  /\ HeapOK(h2)
         /\ Live(h2) = Live(h) \ D
         /\ \A x \in Live(h) \ D : /\ h2[x].kind = h[x].kind /\ h2[x].mem = h[x].mem
                                   /\ h2[x].capacity = h[x].capacity
                                   /\ h2[x].elems = h[x].elems /\ h2[x].copy = h[x].copy
         /\ \A m : Objects(h2, m) = Objects(h, m) \ D
         /\ NoCopies(h) => NoCopies(h2)
<1>1. \A x \in Id : h2[x] = IF x \in D \/ h[x] = FREE THEN FREE ELSE [h[x] EXCEPT !.count = h2[x].count]
  BY DEF Thinned
<1>2. \A x \in Id : x \in Live(h) => ObjectOK(h[x])
  BY LiveFacts
<1>3. ASSUME NEW x \in Live(h) \ D
      PROVE  /\ h2[x].kind = h[x].kind /\ h2[x].mem = h[x].mem
             /\ h2[x].capacity = h[x].capacity
             /\ h2[x].elems = h[x].elems /\ h2[x].copy = h[x].copy
             /\ ObjectOK(h2[x])
  <2>1. PICK o, n : o = h[x] /\ n = h2[x].count /\ h2[x] = [o EXCEPT !.count = n] /\ n \in Nat \ {0}
    BY <1>1, <1>3 DEF Live
  <2>2. ObjectOK(o)
    BY <1>2, <1>3, <2>1 DEF Live
  <2>3. o \in [kind : Kinds, mem : Memory, count : Nat \ {0}, capacity : Nat, elems : Seq(OBJ), copy : Id \cup {NONE}]
    BY <2>2 DEF ObjectOK, Object
  <2>4. PICK p : p = h2[x]
    OBVIOUS
  <2>5. /\ p \in [kind : Kinds, mem : Memory, count : Nat \ {0}, capacity : Nat, elems : Seq(OBJ), copy : Id \cup {NONE}]
        /\ p.kind = o.kind /\ p.mem = o.mem /\ p.capacity = o.capacity /\ p.elems = o.elems /\ p.copy = o.copy
    BY <2>1, <2>3, <2>4
  <2>6. IsCopied(p) <=> IsCopied(o)
    BY <2>5 DEF IsCopied
  <2>7. ObjectOK(p)
    BY <2>2, <2>5, <2>6 DEF ObjectOK, Object
  <2> QED
    BY <2>1, <2>4, <2>5, <2>7
<1>4. Live(h2) = Live(h) \ D
  <2>1. \A x \in Live(h) \ D : h2[x] # FREE
    BY <1>3, LiveFacts DEF ObjectOK
  <2> QED
    BY <1>1, <2>1 DEF Live
<1>5. \A m : Objects(h2, m) = Objects(h, m) \ D
  BY <1>3, <1>4 DEF Objects
<1>6. HeapOK(h2)
  <2>1. h2 = [x \in Id |-> h2[x]]
    BY DEF Thinned
  <2>2. \A x \in Id : h2[x] = FREE \/ ObjectOK(h2[x])
    BY <1>1, <1>3 DEF Live
  <2> QED
    BY <2>1, <2>2 DEF HeapOK
<1>7. NoCopies(h) => NoCopies(h2)
  BY <1>3, <1>4 DEF NoCopies
<1> QED
  BY <1>3, <1>4, <1>5, <1>6, <1>7

\* Places in blocks that stay are the same.
LEMMA SamePlaces ==
  ASSUME NEW h, NEW h2, NEW D, \A x \in D : h2[x].elems = h[x].elems, NEW m, NEW y
  PROVE  Places(h2, m, D, y) = Places(h, m, D, y)
BY DEF Places

\* References to blocks that stay can be used as before.
LEMMA ThinnedUsable ==
  ASSUME NEW h, HeapOK(h), NEW D, NEW h2, Thinned(h, h2, D),
         \A x \in Live(h) \ D : h2[x].count \in Nat \ {0},
         NEW ref, Usable(h, ref), ref \in Inline \/ (ref.obj \notin D /\ Home(h, ref.obj) \in Live(h) \ D)
  PROVE  Usable(h2, ref)
<1>1. CASE ref \in Inline
  BY <1>1 DEF Usable
<1>2. CASE ref \notin Inline
  <2>1. /\ ref \in Ref /\ h[ref.obj] # FREE /\ ref.mem = h[ref.obj].mem /\ ref.obj \in Id
        /\ ref.len <= MAX_LENGTH /\ ref.off + ref.len <= Len(h[Home(h, ref.obj)].elems)
    BY <1>2 DEF Usable, Ref
  <2>2. ref.obj \in Live(h) \ D
    BY <1>2, <2>1 DEF Live
  <2>3. /\ h2[ref.obj].mem = h[ref.obj].mem /\ h2[ref.obj].copy = h[ref.obj].copy
        /\ ref.obj \in Live(h2)
    BY <2>2, ThinnedFacts
  <2>4. Home(h2, ref.obj) = Home(h, ref.obj)
    BY <2>3 DEF Home
  <2>5. h2[Home(h, ref.obj)].elems = h[Home(h, ref.obj)].elems
    BY <1>2, ThinnedFacts
  <2> QED
    BY <2>1, <2>3, <2>4, <2>5 DEF Usable, Live
<1> QED
  BY <1>1, <1>2

-----------------------------------------------------------------------------
(***************************************************************************)
(* Releasing a reference.                                                  *)
(***************************************************************************)
\* The references to x that go when those in D go with the one released.
Lost(h, m, ref, D, x) == One(m, ref, x) + Cardinality(Places(h, m, D, x))
Doomed(h, m, ref) ==
  [D \in SUBSET Id |-> {x \in Live(h) : Lost(h, m, ref, D, x) > 0 /\ h[x].count <= Lost(h, m, ref, D, x)}]

\* The counting of the code, and that more of it goes with more.
LEMMA LostFacts ==
  ASSUME NEW h, HeapOK(h), NEW mode, NEW c, c = CurrMemory(mode), NEW ref \in OBJ
  PROVE  /\ \A D \in SUBSET Id : \A x : /\ Lost(h, c, ref, D, x) \in Nat
                                    /\ Counted(mode, <<ref>>, x) + CountedFrom(h, mode, D, x) = Lost(h, c, ref, D, x)
         /\ \A D, E \in SUBSET Id : \A x : D \subseteq E => Lost(h, c, ref, D, x) <= Lost(h, c, ref, E, x)
<1>1. ASSUME NEW D \in SUBSET Id, NEW x
      PROVE  /\ Cardinality(Places(h, c, D, x)) \in Nat /\ One(c, ref, x) \in Nat
             /\ Counted(mode, <<ref>>, x) + CountedFrom(h, mode, D, x) = Lost(h, c, ref, D, x)
  <2>1. Cardinality(Places(h, c, D, x)) \in Nat /\ One(c, ref, x) \in Nat
    BY PlacesFacts DEF One
  <2>2. Counted(mode, <<ref>>, x) = One(c, ref, x)
    BY CountedOne
  <2>3. CountedFrom(h, mode, D, x) = Cardinality(Places(h, c, D, x))
    BY HeapFacts, CountedFromPlaces
  <2> QED
    BY <2>1, <2>2, <2>3 DEF Lost
<1>2. ASSUME NEW D \in SUBSET Id, NEW x
      PROVE  Lost(h, c, ref, D, x) \in Nat
  BY <1>1 DEF Lost
<1>3. ASSUME NEW D \in SUBSET Id, NEW E \in SUBSET Id, NEW x, D \subseteq E
      PROVE  Lost(h, c, ref, D, x) <= Lost(h, c, ref, E, x)
  <2>1. PICK k, l, n : k = Cardinality(Places(h, c, D, x)) /\ l = Cardinality(Places(h, c, E, x)) /\ n = One(c, ref, x)
    OBVIOUS
  <2>2. k \in Nat /\ l \in Nat /\ n \in Nat /\ k <= l
    BY <1>1, <1>3, <2>1, PlacesFacts
  <2> QED
    BY <2>1, <2>2 DEF Lost
<1> QED
  BY <1>1, <1>2, <1>3

\* What dies is the least set with nothing more to die.
LEMMA DyingFacts ==
  ASSUME NEW h, HeapOK(h), NEW mode, NEW c, c = CurrMemory(mode), NEW ref \in OBJ
  PROVE  /\ Dying(h, mode, ref) \in SUBSET Id
         /\ Doomed(h, c, ref)[Dying(h, mode, ref)] = Dying(h, mode, ref)
         /\ \A T \in SUBSET Id : Doomed(h, c, ref)[T] \subseteq T => Dying(h, mode, ref) \subseteq T
<1>1. PICK F : F = Doomed(h, c, ref)
  OBVIOUS
<1>2. \A D \in SUBSET Id : F[D] = {x \in Live(h) : Lost(h, c, ref, D, x) > 0 /\ h[x].count <= Lost(h, c, ref, D, x)}
  BY <1>1 DEF Doomed
<1>3. Grows(F)
  <2>1. F = [D \in SUBSET Id |-> F[D]] /\ \A D \in SUBSET Id : F[D] \in SUBSET Id
    BY <1>1, HeapFacts DEF Doomed
  <2>2. F \in [SUBSET Id -> SUBSET Id]
    BY <2>1
  <2>3. ASSUME NEW A \in SUBSET Id, NEW B \in SUBSET Id, A \subseteq B, NEW x \in F[A]
        PROVE  x \in F[B]
    <3>1. x \in Live(h) /\ Lost(h, c, ref, A, x) > 0 /\ h[x].count <= Lost(h, c, ref, A, x)
      BY <1>2, <2>3
    <3>2. PICK k, l, n : k = Lost(h, c, ref, A, x) /\ l = Lost(h, c, ref, B, x) /\ n = h[x].count
      OBVIOUS
    <3>3. k \in Nat /\ l \in Nat /\ k <= l /\ n \in Nat
      BY <2>3, <3>1, <3>2, LostFacts, HeapFacts
    <3>4. l > 0 /\ n <= l
      BY <3>1, <3>2, <3>3
    <3> QED
      BY <1>2, <3>1, <3>2, <3>4
  <2> QED
    BY <2>2, <2>3 DEF Grows
<1>4. Dying(h, mode, ref) = Fixpoint(F, {})
  <2>1. \A D \in SUBSET Id : \A x : Counted(mode, <<ref>>, x) + CountedFrom(h, mode, D, x) = Lost(h, c, ref, D, x)
    BY LostFacts
  <2>2. [D \in SUBSET Id |-> {x \in Live(h) : /\ Counted(mode, <<ref>>, x) + CountedFrom(h, mode, D, x) > 0
                                             /\ h[x].count <= Counted(mode, <<ref>>, x) + CountedFrom(h, mode, D, x)}] = F
    BY <1>1, <2>1 DEF Doomed
  <2> QED
    BY <2>2 DEF Dying
<1>5. {} \in SUBSET Id /\ {} \subseteq F[{}]
  OBVIOUS
<1> QED
  BY <1>1, <1>3, <1>4, <1>5, FixpointFacts

\* A reference goes that its object has a count for.
Releasable(h, c, ref, ext) ==
  /\ Alive(h, c, Objects(h, c))
  /\ \A x : Refers(c, ref, x) => x \in Objects(h, c)
  /\ Balanced(h, c, [x \in Id |-> ext[x] + One(c, ref, x)])

\* What dies had no other references left than from what dies with it,
\* everything else keeps the count of those that stay, and no free block is met.
LEMMA ReleaseFacts ==
  ASSUME NEW h, HeapOK(h), NEW mode, NEW c, c = CurrMemory(mode), NEW ref \in OBJ,
         NEW ext \in [Id -> Nat], Releasable(h, c, ref, ext),
         NEW D, D = Dying(h, mode, ref), NEW h2, h2 = release(h, mode, ref)
  PROVE  /\ D \subseteq Objects(h, c)
         /\ Thinned(h, h2, D)
         /\ \A x \in Live(h) \ D : h2[x].count \in Nat \ {0}
         /\ \A x \in Id : x \notin Objects(h, c) => h2[x] = h[x]
         /\ Alive(h2, c, Objects(h2, c)) /\ Balanced(h2, c, ext)
         /\ \A x \in D : ext[x] = 0
         /\ ~ ReachesFree(h, mode, ref)
<1>1. PICK F, Ob : F = Doomed(h, c, ref) /\ Ob = Objects(h, c)
  OBVIOUS
<1>2. \A E \in SUBSET Id : F[E] = {x \in Live(h) : Lost(h, c, ref, E, x) > 0 /\ h[x].count <= Lost(h, c, ref, E, x)}
  BY <1>1 DEF Doomed
<1>3. D \in SUBSET Id /\ F[D] = D /\ \A T \in SUBSET Id : F[T] \subseteq T => D \subseteq T
  BY <1>1, DyingFacts
<1>4. Ob \in SUBSET Id /\ \A x : x \in Ob <=> x \in Live(h) /\ h[x].mem = c
  BY <1>1, HeapFacts DEF Objects
\* Only objects lose references.
<1>5. ASSUME NEW E \in SUBSET Id, E \subseteq Ob, NEW x, x \notin Ob
      PROVE  Lost(h, c, ref, E, x) = 0
  <2>1. ~ Refers(c, ref, x)
    BY <1>1, <1>5 DEF Releasable
  <2>2. Places(h, c, E, x) = {}
    BY <1>1, <1>5 DEF Releasable, Alive, Places
  <2> QED
    BY <2>1, <2>2, FS_EmptySet DEF Lost, One
<1>6. D \subseteq Ob
  <2>1. F[Ob] \subseteq Ob
    BY <1>2, <1>4, <1>5
  <2> QED
    BY <1>3, <1>4, <2>1
<1>7. ASSUME NEW x \in Ob
      PROVE  /\ Lost(h, c, ref, D, x) \in Nat /\ Cardinality(Places(h, c, Ob \ D, x)) \in Nat
             /\ h[x].count = ext[x] + Lost(h, c, ref, D, x) + Cardinality(Places(h, c, Ob \ D, x))
             /\ h[x].count \in Nat \ {0} /\ ext[x] \in Nat
  <2>1. PICK n, p, q, e, k : /\ n = h[x].count /\ p = Cardinality(Places(h, c, D, x))
                            /\ q = Cardinality(Places(h, c, Ob \ D, x)) /\ e = ext[x] /\ k = One(c, ref, x)
    OBVIOUS
  <2>2. D \in SUBSET Id /\ Ob \ D \in SUBSET Id /\ D \cap (Ob \ D) = {} /\ D \cup (Ob \ D) = Ob
    BY <1>3, <1>4, <1>6
  <2>3. Cardinality(Places(h, c, Ob, x)) = p + q
    BY <2>1, <2>2, PlacesFacts
  <2>4. x \in Id /\ n = e + k + Cardinality(Places(h, c, Ob, x))
    BY <1>1, <1>4, <1>7, <2>1 DEF Releasable, Balanced, Within
  <2>5. p \in Nat /\ q \in Nat /\ k \in Nat /\ e \in Nat /\ n \in Nat \ {0}
    BY <1>4, <1>7, <2>1, <2>2, <2>4, PlacesFacts, HeapFacts DEF One
  <2>6. Lost(h, c, ref, D, x) = k + p
    BY <2>1 DEF Lost
  <2> QED
    BY <2>1, <2>3, <2>4, <2>5, <2>6
<1>8. ASSUME NEW x \in Live(h) \ D
      PROVE  /\ h2[x] = [h[x] EXCEPT !.count = h2[x].count]
             /\ h2[x].count \in Nat \ {0}
             /\ x \in Ob => h2[x].count = ext[x] + Cardinality(Places(h, c, Ob \ D, x))
             /\ x \notin Ob => h2[x] = h[x]
  <2>0. x \in Id /\ x \notin D /\ h[x] # FREE /\ h[x].count \in Nat \ {0} /\ h[x] \in Object
    BY HeapFacts, LiveFacts DEF Live, ObjectOK
  <2>1. PICK o, k, l : o = h[x] /\ k = Counted(mode, <<ref>>, x) /\ l = CountedFrom(h, mode, D, x)
    OBVIOUS
  <2>2. k + l = Lost(h, c, ref, D, x)
    BY <1>3, <2>1, LostFacts
  <2>2a. k \in Nat /\ l \in Nat
    <3>1. k = One(c, ref, x) /\ One(c, ref, x) \in Nat
      BY <2>1, CountedOne DEF One
    <3>2. l = Cardinality(Places(h, c, D, x))
      BY <1>3, <2>1, HeapFacts, CountedFromPlaces
    <3> QED
      BY <1>3, <3>1, <3>2, PlacesFacts
  <2>3. h2[x] = [o EXCEPT !.count = @ - k - l]
    BY <2>0, <2>1 DEF release
  <2>4. o \in Object /\ o.count \in Nat \ {0}
    BY <2>0, <2>1
  <2>5. h2[x].count = o.count - (k + l)
    BY <2>2a, <2>3, <2>4 DEF Object
  <2>6. h2[x] = [o EXCEPT !.count = h2[x].count]
    BY <2>3, <2>4 DEF Object
  <2>7. CASE x \in Ob
    <3>1. PICK e, n, q : e = ext[x] /\ n = Lost(h, c, ref, D, x) /\ q = Cardinality(Places(h, c, Ob \ D, x))
      OBVIOUS
    <3>2. n \in Nat /\ q \in Nat /\ o.count = e + n + q /\ e \in Nat
      BY <1>7, <2>1, <2>7, <3>1
    <3>3. ~ (n > 0 /\ o.count <= n)
      BY <1>2, <1>3, <1>8, <2>1, <3>1
    <3>4. h2[x].count = e + q /\ e + q \in Nat \ {0}
      BY <2>2, <2>4, <2>5, <3>1, <3>2, <3>3
    <3> QED
      BY <2>1, <2>6, <2>7, <3>1, <3>4
  <2>8. CASE x \notin Ob
    <3>1. Lost(h, c, ref, D, x) = 0
      BY <1>3, <1>5, <1>6, <2>8
    <3>2. k = 0 /\ l = 0
      BY <2>2, <2>2a, <3>1
    <3>3. h2[x] = o
      BY <2>3, <2>4, <3>2 DEF Object
    <3> QED
      BY <2>1, <2>4, <2>6, <2>8, <3>3
  <2> QED
    BY <2>7, <2>8
<1>9. Thinned(h, h2, D)
  <2>1. h2 = [x \in Id |-> h2[x]]
    BY DEF release
  <2>2. \A x \in Id : x \in D \/ h[x] = FREE => h2[x] = FREE
    BY DEF release
  <2>3. \A x \in Id : h2[x] = IF x \in D \/ h[x] = FREE THEN FREE ELSE [h[x] EXCEPT !.count = h2[x].count]
    BY <1>8, <2>2 DEF Live
  <2> QED
    BY <2>1, <2>3 DEF Thinned
<1>10. \A x \in Live(h) \ D : h2[x].count \in Nat \ {0}
  BY <1>8
<1>11. \A x \in Id : x \notin Ob => h2[x] = h[x]
  <2>1. \A x \in Id : h[x] = FREE => h2[x] = FREE
    BY DEF release
  <2> QED
    BY <1>6, <1>8, <2>1 DEF Live
<1>12. ASSUME NEW x \in D
       PROVE  ext[x] = 0 /\ Places(h, c, Ob \ D, x) = {}
  <2>1. PICK e, n, q : e = ext[x] /\ n = Lost(h, c, ref, D, x) /\ q = Cardinality(Places(h, c, Ob \ D, x))
    OBVIOUS
  <2>2. n \in Nat /\ q \in Nat /\ h[x].count = e + n + q /\ e \in Nat
    BY <1>6, <1>7, <1>12, <2>1
  <2>3. h[x].count <= n
    BY <1>2, <1>3, <1>12, <2>1
  <2>4. e = 0 /\ q = 0
    BY <2>2, <2>3
  <2>5. IsFiniteSet(Places(h, c, Ob \ D, x))
    BY <1>4, PlacesFacts
  <2> QED
    BY <2>1, <2>4, <2>5, FS_EmptySet
<1>13. /\ Objects(h2, c) = Ob \ D
       /\ \A x \in Ob \ D : h2[x].elems = h[x].elems
  BY <1>1, <1>4, <1>9, <1>10, ThinnedFacts
<1>14. Alive(h2, c, Objects(h2, c))
  <2>1. ASSUME NEW x \in Ob \ D, NEW i \in DOMAIN h[x].elems, NEW y, Refers(c, h[x].elems[i], y)
        PROVE  y \in Ob \ D
    <3>1. y \in Ob
      BY <1>1, <2>1 DEF Releasable, Alive
    <3>2. <<x, i>> \in Places(h, c, Ob \ D, y)
      <4>1. x \in Id /\ DOMAIN h[x].elems \subseteq Slot
        BY <1>4, HeapFacts
      <4> QED
        BY <2>1, <4>1 DEF Places
    <3> QED
      BY <1>12, <3>1, <3>2
  <2> QED
    BY <1>13, <2>1 DEF Alive
<1>15. Balanced(h2, c, ext)
  <2>1. \A x : Places(h2, c, Ob \ D, x) = Places(h, c, Ob \ D, x)
    BY <1>13, SamePlaces
  <2>2. \A x \in Ob \ D : h2[x].count = ext[x] + Cardinality(Places(h, c, Ob \ D, x))
    BY <1>4, <1>8
  <2> QED
    BY <1>13, <2>1, <2>2 DEF Balanced, Within
<1>16. ~ ReachesFree(h, mode, ref)
  <2>1. ASSUME NEW x \in Id, h[x] = FREE
        PROVE  Counted(mode, <<ref>>, x) + CountedFrom(h, mode, D, x) = 0
    <3>1. x \notin Ob
      BY <1>4, <2>1 DEF Live
    <3>2. Lost(h, c, ref, D, x) = 0
      BY <1>3, <1>5, <1>6, <3>1
    <3> QED
      BY <1>3, <3>2, LostFacts
  <2> QED
    BY <2>1 DEF ReachesFree
<1> QED
  BY <1>1, <1>6, <1>9, <1>10, <1>11, <1>12, <1>14, <1>15, <1>16

-----------------------------------------------------------------------------
(***************************************************************************)
(* Making objects and references.                                          *)
(***************************************************************************)
InStd(ref) == ref \in Inline \/ ref.mem = "std"

\* What is in an object can be used, and what is in standard memory stays there.
Closed(h, m) ==
  \A x \in Objects(h, m) : \A i \in DOMAIN h[x].elems :
    Usable(h, h[x].elems[i]) /\ (m = "std" => InStd(h[x].elems[i]))

\* The heap while a program evaluates.
Evaluable(mode, h) ==
  /\ HeapOK(h) /\ NoCopies(h)
  /\ \A m \in Memory : Closed(h, m)
  /\ mode = "normal" => Objects(h, "try") = {}

\* A reference was made that is counted, and nothing lost.
Made(mode, h, h2, ref) ==
  /\ Evaluable(mode, h2)
  /\ Usable(h2, ref)
  /\ \A r : Usable(h, r) => Usable(h2, r)
Counts(mode, h, h2, ref) ==
  \A m \in Memory, ext \in [Id -> Nat] :
    /\ \A x \in Id : ext[x] > 0 => x \in Live(h)
    /\ Balanced(h, m, ext)
    => Balanced(h2, m, [x \in Id |-> ext[x] + IF m = CurrMemory(mode) THEN One(m, ref, x) ELSE 0])

\* Both memories of an object are closed, and all there is of memory.
LEMMA EvaluableFacts ==
  ASSUME NEW mode \in {"normal", "try"}, NEW h, Evaluable(mode, h)
  PROVE  /\ \A ref : Usable(h, ref) => /\ ref \in OBJ
                                       /\ mode = "normal" => InStd(ref)
                                       /\ ref \notin Inline => ref.obj \in Live(h) /\ h[ref.obj].copy = NONE /\ Home(h, ref.obj) = ref.obj
         /\ \A m \in Memory : Alive(h, m, Live(h))
         /\ \A x \in Live(h) : \A i \in DOMAIN h[x].elems : Usable(h, h[x].elems[i])
<1>1. ASSUME NEW ref, Usable(h, ref)
      PROVE  /\ ref \in OBJ
             /\ mode = "normal" => InStd(ref)
             /\ ref \notin Inline => ref.obj \in Live(h) /\ h[ref.obj].copy = NONE /\ Home(h, ref.obj) = ref.obj
  <2>1. ref \in OBJ
    BY <1>1 DEF Usable, OBJ
  <2>2. ASSUME ref \notin Inline
        PROVE  ref.obj \in Live(h) /\ h[ref.obj].copy = NONE /\ Home(h, ref.obj) = ref.obj
    BY <1>1, <2>2 DEF Usable, Ref, Live, Evaluable, NoCopies, Home
  <2>3. ASSUME mode = "normal", ref \notin Inline
        PROVE  ref.mem = "std"
    <3>1. ref.mem \in Memory /\ ref.mem = h[ref.obj].mem
      BY <1>1, <2>1, <2>3, Kinship DEF Usable
    <3> QED
      BY <2>2, <2>3, <3>1 DEF Evaluable, Objects, Memory
  <2> QED
    BY <2>1, <2>2, <2>3 DEF InStd
<1>2. ASSUME NEW x \in Live(h), NEW i \in DOMAIN h[x].elems
      PROVE  Usable(h, h[x].elems[i])
  <2>1. h[x].mem \in Memory
    BY HeapFacts DEF Evaluable
  <2> QED
    BY <1>2, <2>1 DEF Evaluable, Closed, Objects
<1>3. \A m \in Memory : Alive(h, m, Live(h))
  BY <1>2, UsableAlive DEF Evaluable
<1> QED
  BY <1>1, <1>2, <1>3

\* The references in two sequences add up.
LEMMA AmongConcat ==
  ASSUME NEW m, NEW s \in Seq(OBJ), NEW t \in Seq(OBJ), NEW x
  PROVE  /\ Among(m, s \o t, x) = Among(m, s, x) + Among(m, t, x)
         /\ Among(m, s, x) \in Nat /\ Among(m, t, x) \in Nat
<1>1. PICK k, l, r : k = Len(s) /\ l = Len(t) /\ r = s \o t
  OBVIOUS
<1>2. /\ k \in Nat /\ l \in Nat /\ DOMAIN s = 1 .. k /\ DOMAIN t = 1 .. l /\ DOMAIN r = 1 .. k + l
      /\ \A i \in 1 .. k + l : r[i] = IF i <= k THEN s[i] ELSE t[i - k]
  BY <1>1, ConcatProperties, LenProperties
<1>3. PICK A, B, C, E : /\ A = {i \in DOMAIN s : Refers(m, s[i], x)} /\ B = {i \in DOMAIN t : Refers(m, t[i], x)}
                        /\ C = {k + i : i \in B} /\ E = {i \in DOMAIN r : Refers(m, r[i], x)}
  OBVIOUS
<1>4. IsFiniteSet(A) /\ IsFiniteSet(B) /\ Cardinality(A) \in Nat /\ Cardinality(B) \in Nat
  <2>1. IsFiniteSet(1 .. k) /\ IsFiniteSet(1 .. l)
    BY <1>2, FS_Interval
  <2>2. A \subseteq 1 .. k /\ B \subseteq 1 .. l
    BY <1>2, <1>3
  <2>3. IsFiniteSet(A) /\ IsFiniteSet(B)
    BY <2>1, <2>2, FS_Subset
  <2> QED
    BY <2>3, FS_CardinalityType
<1>5. IsFiniteSet(C) /\ Cardinality(C) = Cardinality(B)
  <2>1. PICK f : f = [i \in B |-> k + i]
    OBVIOUS
  <2>2. \A i \in B : i \in Nat
    BY <1>2, <1>3
  <2>3. f \in [B -> C] /\ (\A i, j \in B : f[i] = f[j] => i = j) /\ \A c \in C : \E i \in B : f[i] = c
    BY <1>2, <1>3, <2>1, <2>2
  <2>4. f \in Bijection(B, C)
    BY <2>3 DEF Bijection, Injection, Surjection, IsInjective
  <2> QED
    BY <1>4, <2>4, FS_Bijection DEF ExistsBijection
<1>6. E = A \cup C /\ A \cap C = {}
  <2>1. \A i : i \in C <=> i \in 1 .. k + l /\ i > k /\ Refers(m, r[i], x)
    <3>1. ASSUME NEW j \in B
          PROVE  k + j \in 1 .. k + l /\ k + j > k /\ Refers(m, r[k + j], x)
      <4>1. j \in 1 .. l /\ Refers(m, t[j], x)
        BY <1>2, <1>3, <3>1
      <4>2. k + j \in 1 .. k + l /\ ~ (k + j <= k) /\ (k + j) - k = j /\ k + j > k
        BY <1>2, <4>1
      <4>3. r[k + j] = t[j]
        BY <1>2, <4>2
      <4> QED
        BY <4>1, <4>2, <4>3
    <3>2. ASSUME NEW i \in 1 .. k + l, i > k, Refers(m, r[i], x)
          PROVE  i \in C
      <4>1. i - k \in 1 .. l /\ k + (i - k) = i /\ ~ (i <= k)
        BY <1>2, <3>2
      <4>2. r[i] = t[i - k]
        BY <1>2, <4>1
      <4>3. i - k \in B
        BY <1>2, <1>3, <3>2, <4>1, <4>2
      <4> QED
        BY <1>3, <4>1, <4>3
    <3> QED
      BY <1>3, <3>1, <3>2
  <2>2. \A i : i \in A <=> i \in 1 .. k + l /\ i <= k /\ Refers(m, r[i], x)
    <3>1. \A i \in 1 .. k : i \in 1 .. k + l /\ i <= k /\ r[i] = s[i]
      BY <1>2
    <3>2. \A i \in 1 .. k + l : i <= k => i \in 1 .. k
      BY <1>2
    <3> QED
      BY <1>2, <1>3, <3>1, <3>2
  <2>3. \A i : i \in E <=> i \in 1 .. k + l /\ Refers(m, r[i], x)
    BY <1>2, <1>3
  <2>4. \A i \in 1 .. k + l : i <= k <=> ~ (i > k)
    BY <1>2
  <2> QED
    BY <2>1, <2>2, <2>3, <2>4
<1>7. Cardinality(E) = Cardinality(A) + Cardinality(C)
  <2>1. PICK p, q : p = Cardinality(A) /\ q = Cardinality(C) /\ p \in Nat /\ q \in Nat
    BY <1>4, <1>5
  <2>2. Cardinality(A \cup C) = p + q - Cardinality(A \cap C)
    BY <1>4, <1>5, <2>1, FS_Union
  <2>3. Cardinality(A \cap C) = 0
    BY <1>6, FS_EmptySet
  <2>4. Cardinality(A \cup C) = p + q
    BY <2>1, <2>2, <2>3
  <2> QED
    BY <1>6, <2>1, <2>4
<1> QED
  BY <1>1, <1>3, <1>4, <1>5, <1>7 DEF Among

\* Counting references in no object: everything stays but the counts.
LEMMA AddFacts ==
  ASSUME NEW h, HeapOK(h), NEW mode, NEW c, c = CurrMemory(mode), NEW refs \in Seq(OBJ),
         NEW h2, h2 = vec_add_ref(h, mode, refs)
  PROVE  /\ Thinned(h, h2, {})
         /\ \A x \in Live(h) : /\ h2[x].count = h[x].count + Among(c, refs, x)
                               /\ Among(c, refs, x) \in Nat /\ h2[x].count \in Nat \ {0}
         /\ \A x \in Id : h[x] = FREE => h2[x] = FREE
<1>1. ASSUME NEW x \in Live(h)
      PROVE  /\ h2[x].count = h[x].count + Among(c, refs, x)
             /\ h2[x] = [h[x] EXCEPT !.count = h2[x].count]
             /\ Among(c, refs, x) \in Nat /\ h2[x].count \in Nat \ {0}
  <2>1. x \in Id /\ h[x] # FREE /\ h[x] \in Object /\ h[x].count \in Nat \ {0}
    BY HeapFacts, LiveFacts DEF Live, ObjectOK
  <2>2. PICK o, k : o = h[x] /\ k = Counted(mode, refs, x)
    OBVIOUS
  <2>3. h2[x] = [o EXCEPT !.count = @ + k]
    BY <2>1, <2>2 DEF vec_add_ref
  <2>4. k = Among(c, refs, x) /\ k \in Nat
    BY <2>2, CountedAmong
  <2>5. h2[x].count = o.count + k /\ o.count \in Nat \ {0}
    BY <2>1, <2>2, <2>3 DEF Object
  <2>6. h2[x] = [o EXCEPT !.count = h2[x].count]
    BY <2>3, <2>5
  <2> QED
    BY <2>2, <2>4, <2>5, <2>6
<1>2. h2 = [x \in Id |-> h2[x]] /\ \A x \in Id : h[x] = FREE => h2[x] = FREE
  BY DEF vec_add_ref
<1>3. \A x \in Id : h2[x] = IF x \in {} \/ h[x] = FREE THEN FREE ELSE [h[x] EXCEPT !.count = h2[x].count]
  BY <1>1, <1>2 DEF Live
<1>4. Thinned(h, h2, {})
  BY <1>2, <1>3 DEF Thinned
<1> QED
  BY <1>1, <1>2, <1>4

Added(h, h2, m, refs) ==
  /\ HeapOK(h2) /\ Live(h2) = Live(h) /\ (NoCopies(h) => NoCopies(h2))
  /\ \A x \in Id : h[x] = FREE => h2[x] = FREE
  /\ \A x \in Live(h) : /\ h2[x].kind = h[x].kind /\ h2[x].mem = h[x].mem /\ h2[x].capacity = h[x].capacity
                         /\ h2[x].elems = h[x].elems /\ h2[x].copy = h[x].copy
                         /\ h2[x].count = h[x].count + Among(m, refs, x) /\ Among(m, refs, x) \in Nat
\* So that it is the same heap, but for them.
LEMMA AddedFacts ==
  \A h, mode, refs : HeapOK(h) /\ refs \in Seq(OBJ) =>
    Added(h, vec_add_ref(h, mode, refs), CurrMemory(mode), refs)
<1>1. ASSUME NEW h, NEW mode, NEW refs, HeapOK(h), refs \in Seq(OBJ),
             NEW h2, h2 = vec_add_ref(h, mode, refs), NEW c, c = CurrMemory(mode), NEW D, D = {}
      PROVE  Added(h, h2, c, refs)
  <2>1. /\ Thinned(h, h2, {})
        /\ \A x \in Live(h) : /\ h2[x].count = h[x].count + Among(c, refs, x)
                               /\ Among(c, refs, x) \in Nat /\ h2[x].count \in Nat \ {0}
        /\ \A x \in Id : h[x] = FREE => h2[x] = FREE
    BY <1>1, AddFacts
  <2>2. Thinned(h, h2, D) /\ \A x \in Live(h) \ D : h2[x].count \in Nat \ {0}
    BY <1>1, <2>1
  <2>3. /\ HeapOK(h2) /\ Live(h2) = Live(h) \ D
        /\ \A x \in Live(h) \ D : /\ h2[x].kind = h[x].kind /\ h2[x].mem = h[x].mem
                                   /\ h2[x].capacity = h[x].capacity
                                   /\ h2[x].elems = h[x].elems /\ h2[x].copy = h[x].copy
        /\ NoCopies(h) => NoCopies(h2)
    <3>1. HeapOK(h)
      BY <1>1
    <3> QED
      BY <2>2, <3>1, ThinnedFacts
  <2>4. \A S : S \ D = S
    BY <1>1
  <2> QED
    BY <2>1, <2>3, <2>4 DEF Added
<1> QED
  BY <1>1

\* Another reference to what a reference is to, or to a part of it.
LEMMA AliasFacts ==
  ASSUME NEW mode \in {"normal", "try"}, NEW h, Evaluable(mode, h), NEW ref, Usable(h, ref),
         NEW h2, h2 = add_ref(h, mode, ref), NEW part, Usable(h, part),
         \A m, x : Refers(m, part, x) <=> Refers(m, ref, x)
  PROVE  Made(mode, h, h2, part) /\ Counts(mode, h, h2, part)
<1>1. PICK c : c = CurrMemory(mode)
  OBVIOUS
<1>2. HeapOK(h) /\ NoCopies(h) /\ ref \in OBJ /\ <<ref>> \in Seq(OBJ) /\ h2 = vec_add_ref(h, mode, <<ref>>)
  BY EvaluableFacts DEF Evaluable, add_ref
<1>3. /\ Thinned(h, h2, {})
      /\ \A x \in Live(h) : h2[x].count = h[x].count + Among(c, <<ref>>, x) /\ h2[x].count \in Nat \ {0}
  <2>1. PICK refs : refs = <<ref>>
    OBVIOUS
  <2>2. refs \in Seq(OBJ) /\ h2 = vec_add_ref(h, mode, refs) /\ HeapOK(h)
    BY <1>2, <2>1
  <2>3. /\ Thinned(h, h2, {})
        /\ \A x \in Live(h) : /\ h2[x].count = h[x].count + Among(c, refs, x)
                              /\ Among(c, refs, x) \in Nat /\ h2[x].count \in Nat \ {0}
    BY <1>1, <2>2, AddFacts
  <2> QED
    BY <2>1, <2>3
<1>4. \A x : Among(c, <<ref>>, x) = One(c, part, x)
  <2>1. \A x : Among(c, <<ref>>, x) = One(c, ref, x)
    BY <1>1, <1>2, CountedAmong, CountedOne
  <2> QED
    BY <2>1 DEF One
<1>5. /\ HeapOK(h2) /\ NoCopies(h2) /\ Live(h2) = Live(h)
      /\ \A x \in Live(h) : h2[x].elems = h[x].elems /\ h2[x].mem = h[x].mem
      /\ \A m : Objects(h2, m) = Objects(h, m)
  <2>1. PICK D : D = {}
    OBVIOUS
  <2>2. Thinned(h, h2, D) /\ \A x \in Live(h) \ D : h2[x].count \in Nat \ {0}
    BY <1>3, <2>1
  <2>3. /\ HeapOK(h2) /\ Live(h2) = Live(h) \ D
        /\ \A x \in Live(h) \ D : h2[x].elems = h[x].elems /\ h2[x].mem = h[x].mem
        /\ \A m : Objects(h2, m) = Objects(h, m) \ D
        /\ NoCopies(h2)
    BY <1>2, <2>2, ThinnedFacts
  <2>4. \A S : S \ D = S
    BY <2>1
  <2> QED
    BY <2>3, <2>4
<1>6. \A r : Usable(h, r) => Usable(h2, r)
  <2>1. ASSUME NEW r, Usable(h, r)
        PROVE  r \in Inline \/ (r.obj \notin {} /\ Home(h, r.obj) \in Live(h) \ {})
    BY <2>1, EvaluableFacts
  <2> QED
    BY <1>2, <1>3, <2>1, ThinnedUsable
<1>7. Evaluable(mode, h2)
  <2>1. \A m \in Memory : Closed(h2, m)
    BY <1>5, <1>6 DEF Closed, Objects, Evaluable
  <2> QED
    BY <1>5, <2>1 DEF Evaluable
<1>8. ASSUME NEW m \in Memory, NEW ext \in [Id -> Nat], Balanced(h, m, ext), NEW x \in Objects(h, m)
      PROVE  h2[x].count = ext[x] + (IF m = c THEN One(m, part, x) ELSE 0) + Within(h2, m, x)
  <2>1. Places(h2, m, Objects(h, m), x) = Places(h, m, Objects(h, m), x)
    BY <1>5, SamePlaces DEF Objects
  <2>2. Within(h2, m, x) = Within(h, m, x)
    BY <1>5, <2>1 DEF Within
  <2>3. x \in Live(h) /\ h[x].mem = m /\ h[x].count = ext[x] + Within(h, m, x) /\ ext[x] \in Nat /\ Within(h, m, x) \in Nat
    BY <1>2, <1>8, PlacesFacts, HeapFacts DEF Objects, Balanced, Live, Within
  <2>4. h2[x].count = h[x].count + One(c, part, x)
    BY <1>3, <1>4, <2>3
  <2>5. m # c => One(c, part, x) = 0
    <3>1. Refers(c, part, x) => x \in Objects(h, c)
      BY <1>2, UsableRefers
    <3> QED
      BY <2>3, <3>1 DEF One, Objects
  <2>6. One(c, part, x) \in Nat
    BY DEF One
  <2>7. PICK n, e, k, j : n = h2[x].count /\ e = ext[x] /\ k = Within(h, m, x) /\ j = One(c, part, x)
    OBVIOUS
  <2>8. CASE m = c
    <3>1. n = e + j + k
      BY <2>3, <2>4, <2>6, <2>7
    <3> QED
      BY <2>2, <2>7, <2>8, <3>1
  <2>9. CASE m # c
    <3>1. n = e + 0 + k
      BY <2>3, <2>4, <2>5, <2>7, <2>9
    <3> QED
      BY <2>2, <2>7, <2>9, <3>1
  <2> QED
    BY <2>8, <2>9
<1>9. Counts(mode, h, h2, part)
  <2>1. ASSUME NEW m \in Memory, NEW ext \in [Id -> Nat], Balanced(h, m, ext)
        PROVE  Balanced(h2, m, [x \in Id |-> ext[x] + IF m = CurrMemory(mode) THEN One(m, part, x) ELSE 0])
    <3>1. \A x \in Objects(h2, m) : x \in Id /\ x \in Objects(h, m)
      BY <1>5 DEF Objects, Live
    <3> QED
      BY <1>1, <1>8, <2>1, <3>1 DEF Balanced
  <2> QED
    BY <2>1 DEF Counts
<1> QED
  BY <1>6, <1>7, <1>9 DEF Made

\* One block gets more elements, or is taken to hold them; nothing else changes
\* but counts.
Grown(h, h2, y, new) ==
  /\ h2[y] # FREE /\ h2[y].elems = h[y].elems \o new /\ h2[y].copy = NONE
  /\ h[y] # FREE => h2[y].mem = h[y].mem
  /\ \A x \in Id : x # y => /\ h2[x] # FREE <=> h[x] # FREE
                            /\ h2[x].mem = h[x].mem /\ h2[x].elems = h[x].elems /\ h2[x].copy = h[x].copy

\* The references from that block are those there were and the new ones.
LEMMA GrownWithin ==
  ASSUME NEW h, HeapOK(h), NEW h2, HeapOK(h2), NEW y \in Id, NEW new \in Seq(OBJ), Grown(h, h2, y, new), NEW m
  PROVE  /\ Objects(h2, m) = Objects(h, m) \cup (IF h2[y].mem = m THEN {y} ELSE {})
         /\ \A z : Within(h2, m, z) = Within(h, m, z) + (IF h2[y].mem = m THEN Among(m, new, z) ELSE 0)
<1>1. PICK Ob : Ob = Objects(h, m)
  OBVIOUS
<1>2. Ob \in SUBSET Id /\ \A x : x \in Ob <=> x \in Id /\ h[x] # FREE /\ h[x].mem = m
  BY <1>1 DEF Objects, Live
<1>3. \A x : x \in Objects(h2, m) <=> x \in Id /\ h2[x] # FREE /\ h2[x].mem = m
  BY DEF Objects, Live
<1>4. \A x \in Id : x # y => (x \in Objects(h2, m) <=> x \in Ob) /\ h2[x].elems = h[x].elems
  BY <1>2, <1>3 DEF Grown
<1>5. y \in Objects(h2, m) <=> h2[y].mem = m
  BY <1>3 DEF Grown
<1>6. h2[y].mem # m => y \notin Ob
  BY <1>2 DEF Grown
<1>7. Objects(h2, m) = Ob \cup (IF h2[y].mem = m THEN {y} ELSE {})
  <2>1. \A x : x \in Objects(h2, m) => x \in Id
    BY <1>3
  <2>2. CASE h2[y].mem = m
    <3>1. \A x : x \in Objects(h2, m) <=> x \in Ob \cup {y}
      BY <1>2, <1>4, <1>5, <2>1, <2>2
    <3> QED
      BY <2>2, <3>1
  <2>3. CASE h2[y].mem # m
    <3>1. \A x : x \in Objects(h2, m) <=> x \in Ob
      BY <1>2, <1>4, <1>5, <1>6, <2>1, <2>3
    <3> QED
      BY <2>3, <3>1
  <2> QED
    BY <2>2, <2>3
<1>8. ASSUME NEW z
      PROVE  Within(h2, m, z) = Within(h, m, z) + (IF h2[y].mem = m THEN Among(m, new, z) ELSE 0)
  <2>1. Within(h, m, z) = Cardinality(Places(h, m, Ob, z)) /\ Within(h, m, z) \in Nat
    BY <1>1, <1>2, PlacesFacts DEF Within
  <2>2. CASE h2[y].mem # m
    <3>1. Objects(h2, m) = Ob
      BY <1>7, <2>2
    <3>2. \A x \in Ob : h2[x].elems = h[x].elems
      BY <1>2, <1>4, <1>6, <2>2
    <3>3. Within(h2, m, z) = Within(h, m, z)
      BY <2>1, <3>1, <3>2, SamePlaces DEF Within
    <3> QED
      BY <2>1, <2>2, <3>3
  <2>3. CASE h2[y].mem = m
    <3>1. PICK Rest : Rest = Ob \ {y}
      OBVIOUS
    <3>2. /\ Rest \in SUBSET Id /\ {y} \in SUBSET Id /\ Rest \cap {y} = {} /\ Rest \cup {y} = Ob \cup {y}
          /\ Objects(h2, m) = Rest \cup {y}
      BY <1>2, <1>7, <2>3, <3>1
    <3>3. Places(h2, m, Rest, z) = Places(h, m, Rest, z)
      <4>1. \A x \in Rest : h2[x].elems = h[x].elems
        BY <1>2, <1>4, <3>1
      <4> QED
        BY <4>1, SamePlaces
    <3>4. /\ Cardinality(Places(h2, m, {y}, z)) = Among(m, h2[y].elems, z)
          /\ Cardinality(Places(h, m, {y}, z)) = Among(m, h[y].elems, z)
      BY HeapFacts, PlacesOfOne
    <3>5. PICK old : old = h[y].elems
      OBVIOUS
    <3>6. /\ Among(m, h2[y].elems, z) = Among(m, old, z) + Among(m, new, z)
          /\ Among(m, old, z) \in Nat /\ Among(m, new, z) \in Nat
      <4>1. old \in Seq(OBJ) /\ h2[y].elems = old \o new
        BY <3>5, HeapFacts DEF ElementsTyped, Grown
      <4> QED
        BY <4>1, AmongConcat
    <3>7. Places(h, m, Ob \cup {y}, z) = Places(h, m, Ob, z)
      <4>1. CASE y \in Ob
        <5>1. Ob \cup {y} = Ob
          BY <4>1
        <5> QED
          BY <5>1
      <4>2. CASE y \notin Ob
        <5>1. h[y] = FREE
          BY <1>2, <2>3, <4>2 DEF Grown
        <5>2. DOMAIN h[y].elems = {}
          BY <5>1 DEF FREE
        <5> QED
          BY <5>2 DEF Places
      <4> QED
        BY <4>1, <4>2
    <3>8. PICK p, q, r : p = Cardinality(Places(h, m, Rest, z)) /\ q = Among(m, old, z) /\ r = Among(m, new, z)
      OBVIOUS
    <3>9. p \in Nat /\ q \in Nat /\ r \in Nat
      BY <3>2, <3>6, <3>8, PlacesFacts
    <3>10. Within(h, m, z) = p + q
      BY <2>1, <3>2, <3>4, <3>5, <3>7, <3>8, PlacesFacts
    <3>11. Within(h2, m, z) = p + (q + r)
      <4>1. Within(h2, m, z) = Cardinality(Places(h2, m, Rest \cup {y}, z))
        BY <3>2 DEF Within
      <4>2. Cardinality(Places(h2, m, Rest \cup {y}, z))
              = Cardinality(Places(h2, m, Rest, z)) + Cardinality(Places(h2, m, {y}, z))
        <5>1. PICK S : S = {y}
          OBVIOUS
        <5>2. S \in SUBSET Id /\ Rest \in SUBSET Id /\ Rest \cap S = {}
          BY <3>2, <5>1
        <5>3. Cardinality(Places(h2, m, Rest \cup S, z))
                = Cardinality(Places(h2, m, Rest, z)) + Cardinality(Places(h2, m, S, z))
          <6>1. \A D, E \in SUBSET Id : D \cap E = {} =>
                  Cardinality(Places(h2, m, D \cup E, z)) =
                    Cardinality(Places(h2, m, D, z)) + Cardinality(Places(h2, m, E, z))
            BY PlacesFacts
          <6> QED
            BY <5>2, <6>1
        <5> QED
          BY <5>1, <5>3
      <4>3. Cardinality(Places(h2, m, Rest, z)) = p
        BY <3>3, <3>8
      <4>4. Cardinality(Places(h2, m, {y}, z)) = q + r
        BY <3>4, <3>6, <3>8
      <4> QED
        BY <4>1, <4>2, <4>3, <4>4
    <3> QED
      BY <2>3, <3>8, <3>9, <3>10, <3>11
  <2> QED
    BY <2>2, <2>3
<1> QED
  BY <1>1, <1>7, <1>8

\* What was usable stays so, and what the block has got is usable in it.
LEMMA GrownEvaluable ==
  ASSUME NEW mode \in {"normal", "try"}, NEW h, Evaluable(mode, h), NEW h2, HeapOK(h2),
         NEW y \in Id, NEW new \in Seq(OBJ), Grown(h, h2, y, new),
         \A i \in DOMAIN new : Usable(h, new[i]) /\ (h2[y].mem = "std" => InStd(new[i])),
         mode = "normal" => h2[y].mem = "std"
  PROVE  Evaluable(mode, h2) /\ \A r : Usable(h, r) => Usable(h2, r)
<1>1. HeapOK(h) /\ NoCopies(h)
  BY DEF Evaluable
<1>2. NoCopies(h2)
  BY <1>1 DEF NoCopies, Live, Grown
<1>3. ASSUME NEW r, Usable(h, r)
      PROVE  Usable(h2, r)
  <2>1. CASE r \in Inline
    BY <2>1 DEF Usable
  <2>2. CASE r \notin Inline
    <3>1. PICK x : x = r.obj
      OBVIOUS
    <3>2. /\ r \in Ref /\ x \in Id /\ h[x] # FREE /\ r.mem = h[x].mem /\ r.len <= MAX_LENGTH
          /\ r.off \in Nat /\ r.len \in Nat /\ r.off + r.len <= Len(h[x].elems) /\ h[x].copy = NONE
      <4>1. Home(h, x) = x /\ h[x].copy = NONE
        BY <1>3, <2>2, <3>1, EvaluableFacts
      <4> QED
        BY <1>3, <2>2, <3>1, <4>1 DEF Usable, Ref
    <3>3. h2[x] # FREE /\ h2[x].mem = h[x].mem /\ h2[x].copy = NONE
      BY <3>2 DEF Grown
    <3>4. r.off + r.len <= Len(h2[x].elems)
      <4>1. CASE x # y
        BY <3>2, <4>1 DEF Grown
      <4>2. CASE x = y
        <5>1. PICK old \in Seq(OBJ) : old = h[y].elems
          BY <1>1, HeapFacts DEF ElementsTyped
        <5>2. h2[y].elems = old \o new
          BY <5>1 DEF Grown
        <5>3. Len(old \o new) = Len(old) + Len(new) /\ Len(old) \in Nat /\ Len(new) \in Nat
          BY <5>1, ConcatProperties, LenProperties
        <5>4. r.off + r.len <= Len(old)
          BY <3>2, <4>2, <5>1
        <5> QED
          BY <3>2, <4>2, <5>2, <5>3, <5>4
      <4> QED
        BY <4>1, <4>2
    <3>5. Home(h2, x) = x
      BY <3>3 DEF Home
    <3> QED
      BY <3>1, <3>2, <3>3, <3>4, <3>5 DEF Usable
  <2> QED
    BY <2>1, <2>2
<1>4. ASSUME NEW m \in Memory, NEW x \in Objects(h2, m), NEW i \in DOMAIN h2[x].elems
      PROVE  Usable(h2, h2[x].elems[i]) /\ (m = "std" => InStd(h2[x].elems[i]))
  <2>1. x \in Id /\ h2[x].mem = m /\ h2[x] # FREE
    BY <1>4 DEF Objects, Live
  <2>2. ASSUME x \in Objects(h, m), NEW j \in DOMAIN h[x].elems
        PROVE  Usable(h2, h[x].elems[j]) /\ (m = "std" => InStd(h[x].elems[j]))
    BY <1>3, <2>2 DEF Evaluable, Closed
  <2>3. CASE x # y
    <3>1. x \in Objects(h, m) /\ h2[x].elems = h[x].elems
      BY <2>1, <2>3 DEF Grown, Objects, Live
    <3> QED
      BY <1>4, <2>2, <3>1
  <2>4. CASE x = y
    <3>1. PICK old, k : old = h[y].elems /\ k = Len(old)
      OBVIOUS
    <3>2. old \in Seq(OBJ) /\ h2[y].elems = old \o new
      BY <1>1, <3>1, HeapFacts DEF ElementsTyped, Grown
    <3>3. /\ DOMAIN (old \o new) = 1 .. k + Len(new) /\ k \in Nat /\ Len(new) \in Nat
          /\ DOMAIN old = 1 .. k /\ DOMAIN new = 1 .. Len(new)
          /\ \A j \in 1 .. k + Len(new) : (old \o new)[j] = IF j <= k THEN old[j] ELSE new[j - k]
      BY <3>1, <3>2, ConcatProperties, LenProperties
    <3>4. i \in 1 .. k + Len(new) /\ h2[x].elems[i] = IF i <= k THEN old[i] ELSE new[i - k]
      BY <1>4, <2>4, <3>2, <3>3
    <3>5. CASE i <= k
      <4>1. i \in DOMAIN old
        BY <3>3, <3>4, <3>5
      <4>2. y \in Objects(h, m)
        <5>1. h[y] # FREE
          BY <3>1, <4>1 DEF FREE
        <5> QED
          BY <2>1, <2>4, <5>1 DEF Grown, Objects, Live
      <4> QED
        BY <2>2, <2>4, <3>1, <3>4, <3>5, <4>1, <4>2
    <3>6. CASE ~ (i <= k)
      <4>1. i - k \in DOMAIN new
        BY <3>3, <3>4, <3>6
      <4> QED
        BY <1>3, <2>1, <2>4, <3>4, <3>6, <4>1
    <3> QED
      BY <3>5, <3>6
  <2> QED
    BY <2>3, <2>4
<1>5. mode = "normal" => Objects(h2, "try") = {}
  <2>1. ASSUME mode = "normal", NEW x \in Objects(h2, "try")
        PROVE  FALSE
    <3>1. x # y
      BY <2>1 DEF Objects
    <3>2. x \in Objects(h, "try")
      BY <2>1, <3>1 DEF Objects, Live, Grown
    <3> QED
      BY <2>1, <3>2 DEF Evaluable
  <2> QED
    BY <2>1
<1> QED
  BY <1>2, <1>3, <1>4, <1>5 DEF Evaluable, Closed

\* What an object can be made of.
Elementary(mode, h, kind, elems) ==
  /\ kind \in Kinds /\ elems \in Seq(OBJ)
  /\ IF kind = "seq" THEN Len(elems) <= MAX_LENGTH ELSE Len(elems) \in 1 .. Largest
  /\ \A i \in DOMAIN elems : Usable(h, elems[i])

\* A new object takes a block that is free, and its references count.
LEMMA BuildFacts ==
  ASSUME NEW mode \in {"normal", "try"}, NEW h, Evaluable(mode, h), NEW kind, NEW elems,
         Elementary(mode, h, kind, elems), NEW x \in Id, h[x] = FREE,
         NEW made, made = build(h, mode, kind, elems, x)
  PROVE  /\ Made(mode, h, made.heap, made.ref) /\ Counts(mode, h, made.heap, made.ref)
         /\ Grown(h, made.heap, x, elems)
<1>1. PICK c, h1, h2, o : /\ c = CurrMemory(mode) /\ h1 = vec_add_ref(h, mode, elems)
                          /\ o = NewObject(mode, kind, elems) /\ h2 = [h1 EXCEPT ![x] = o]
  OBVIOUS
<1>2. HeapOK(h) /\ NoCopies(h) /\ c \in Memory /\ elems \in Seq(OBJ) /\ kind \in Kinds
  BY <1>1, Kinship DEF Evaluable, Elementary
<1>3. /\ Thinned(h, h1, {})
      /\ \A z \in Live(h) : /\ h1[z].count = h[z].count + Among(c, elems, z)
                            /\ Among(c, elems, z) \in Nat /\ h1[z].count \in Nat \ {0}
      /\ \A z \in Id : h[z] = FREE => h1[z] = FREE
  BY <1>1, <1>2, AddFacts
<1>4. /\ HeapOK(h1) /\ Live(h1) = Live(h)
      /\ \A z \in Live(h) : h1[z].elems = h[z].elems /\ h1[z].mem = h[z].mem /\ h1[z].copy = h[z].copy
  <2>1. PICK D : D = {}
    OBVIOUS
  <2>2. Thinned(h, h1, D) /\ \A z \in Live(h) \ D : h1[z].count \in Nat \ {0}
    BY <1>3, <2>1
  <2>3. /\ HeapOK(h1) /\ Live(h1) = Live(h) \ D
        /\ \A z \in Live(h) \ D : h1[z].elems = h[z].elems /\ h1[z].mem = h[z].mem /\ h1[z].copy = h[z].copy
    BY <1>2, <2>2, ThinnedFacts
  <2> QED
    BY <2>1, <2>3
<1>5. /\ Len(elems) \in Nat /\ Len(elems) <= Largest
      /\ kind = "seq" => Len(elems) <= MAX_LENGTH
      /\ kind # "seq" => elems # <<>>
  BY LargestFacts, EmptySeq, LenProperties DEF Elementary
<1>6. /\ o.kind = kind /\ o.mem = c /\ o.count = 1 /\ o.elems = elems /\ o.copy = NONE
      /\ o.capacity = IF kind = "seq" THEN seq_capacity(Len(elems)) ELSE 0
  BY <1>1 DEF NewObject
<1>7. ObjectOK(o)
  <2>1. PICK n, cap : n = Len(elems) /\ cap = seq_capacity(Len(elems))
    OBVIOUS
  <2>2. cap \in Nat /\ cap >= n /\ cap >= 1 /\ cap <= Largest
    BY <1>5, <2>1, LargestFacts
  <2>3. o.capacity \in Nat /\ (kind = "seq" => o.capacity = cap)
    BY <1>6, <2>1, <2>2
  <2>4. o = [kind |-> kind, mem |-> c, count |-> 1, capacity |-> o.capacity, elems |-> elems, copy |-> NONE]
    BY <1>1, <1>6 DEF NewObject
  <2>5. o \in Object
    BY <1>2, <2>3, <2>4 DEF Object
  <2>6. ~ IsCopied(o)
    BY <1>5, <1>6, <2>2, <2>3 DEF IsCopied
  <2>7. kind = "seq" => o.capacity <= Largest /\ Len(elems) <= o.capacity
    BY <1>5, <2>1, <2>2, <2>3
  <2> QED
    BY <1>5, <1>6, <2>5, <2>6, <2>7 DEF ObjectOK
<1>8. h2[x] = o /\ (\A z \in Id : z # x => h2[z] = h1[z]) /\ h2 = [z \in Id |-> h2[z]]
  BY <1>1, <1>4 DEF HeapOK
<1>9. HeapOK(h2)
  BY <1>4, <1>7, <1>8 DEF HeapOK
<1>10. Grown(h, h2, x, elems)
  <2>1. h[x].elems = <<>> /\ <<>> \o elems = elems
    <3>1. h[x].elems = <<>>
      BY DEF FREE
    <3>2. <<>> \o elems = elems
      BY <1>2, ConcatEmptySeq
    <3> QED
      BY <3>1, <3>2
  <2>2. o # FREE
    BY <1>7, LiveFacts DEF ObjectOK
  <2>3. ASSUME NEW z \in Id, z # x
        PROVE  /\ h2[z] # FREE <=> h[z] # FREE
               /\ h2[z].mem = h[z].mem /\ h2[z].elems = h[z].elems /\ h2[z].copy = h[z].copy
    <3>1. CASE h[z] = FREE
      BY <1>3, <1>8, <2>3, <3>1
    <3>2. CASE h[z] # FREE
      <4>1. z \in Live(h) /\ z \in Live(h1)
        BY <1>4, <2>3, <3>2 DEF Live
      <4>2. h1[z] # FREE
        BY <4>1 DEF Live
      <4> QED
        BY <1>4, <1>8, <2>3, <3>2, <4>1, <4>2
    <3> QED
      BY <3>1, <3>2
  <2> QED
    BY <1>6, <1>8, <2>1, <2>2, <2>3 DEF Grown
<1>11. mode = "normal" => c = "std"
  BY <1>1 DEF CurrMemory
<1>12. \A i \in DOMAIN elems : Usable(h, elems[i]) /\ (c = "std" => InStd(elems[i]))
  <2>1. ASSUME NEW i \in DOMAIN elems
        PROVE  Usable(h, elems[i]) /\ (mode = "normal" => InStd(elems[i]))
    BY <2>1, EvaluableFacts DEF Elementary
  <2>2. c = "std" => mode = "normal"
    BY <1>1 DEF CurrMemory
  <2> QED
    BY <2>1, <2>2
<1>13. Evaluable(mode, h2) /\ \A r : Usable(h, r) => Usable(h2, r)
  BY <1>2, <1>6, <1>8, <1>9, <1>10, <1>11, <1>12, GrownEvaluable
<1>14. PICK ref : ref = make_ref(mode, kind, x, elems)
  OBVIOUS
<1>15. /\ ref \in Ref /\ ref.obj = x /\ ref.mem = c /\ ref.off = 0
       /\ ref.len = IF kind = "seq" THEN Len(elems) ELSE 0
       /\ ref \notin Inline /\ ref # NONE
  <2>1. ref.obj = x /\ ref.mem = c /\ ref.off = 0 /\ ref.len = IF kind = "seq" THEN Len(elems) ELSE 0
    BY <1>1, <1>14 DEF make_ref, make_slice
  <2>2. ref \in Ref
    BY <1>1, <1>2, <1>5, <1>14 DEF make_ref, make_slice, Ref
  <2> QED
    BY <2>1, <2>2, Kinship DEF OBJ
<1>16. Usable(h2, ref)
  <2>1. Home(h2, x) = x /\ h2[x] # FREE /\ h2[x].mem = c
    BY <1>6, <1>8, <1>10 DEF Home, Grown
  <2>2. ref.len <= MAX_LENGTH /\ ref.off + ref.len <= Len(h2[x].elems)
    BY <1>5, <1>6, <1>8, <1>15, LargestFacts
  <2> QED
    BY <1>15, <2>1, <2>2 DEF Usable
<1>17. ASSUME NEW m \in Memory, NEW ext \in [Id -> Nat],
              \A z \in Id : ext[z] > 0 => z \in Live(h), Balanced(h, m, ext), NEW z \in Objects(h2, m)
       PROVE  h2[z].count = ext[z] + (IF m = c THEN One(m, ref, z) ELSE 0) + Within(h2, m, z)
  <2>1. /\ Objects(h2, m) = Objects(h, m) \cup (IF c = m THEN {x} ELSE {})
        /\ Within(h2, m, z) = Within(h, m, z) + (IF c = m THEN Among(m, elems, z) ELSE 0)
    BY <1>2, <1>6, <1>8, <1>9, <1>10, GrownWithin
  <2>2. z \in Id /\ ext[z] \in Nat /\ Within(h, m, z) \in Nat /\ Objects(h, m) \in SUBSET Id
    BY <1>2, <1>17, HeapFacts, PlacesFacts DEF Objects, Live, Within
  <2>3. CASE z = x
    <3>1. m = c /\ h2[z].count = 1 /\ One(m, ref, z) = 1
      BY <1>6, <1>8, <1>15, <1>17, <2>3 DEF Objects, One, Refers
    <3>2. ext[z] = 0
      BY <1>17, <2>2, <2>3 DEF Live
    <3>3. Among(m, elems, z) = 0
      <4>1. {i \in DOMAIN elems : Refers(m, elems[i], z)} = {}
        <5>1. ASSUME NEW i \in DOMAIN elems, Refers(m, elems[i], z)
              PROVE  FALSE
          <6>1. z \in Objects(h, m)
            BY <1>2, <1>12, <5>1, UsableRefers
          <6> QED
            BY <2>3, <6>1 DEF Objects, Live
        <5> QED
          BY <5>1
      <4> QED
        BY <4>1, FS_EmptySet DEF Among
    <3>4. Within(h, m, z) = 0
      <4>1. Alive(h, m, Objects(h, m))
        BY EvaluableFacts DEF Alive, Objects
      <4>2. Places(h, m, Objects(h, m), z) = {}
        BY <2>3, <4>1 DEF Places, Alive, Objects, Live
      <4> QED
        BY <4>2, FS_EmptySet DEF Within
    <3> QED
      BY <2>1, <3>1, <3>2, <3>3, <3>4
  <2>4. CASE z # x
    <3>1. z \in Objects(h, m) /\ z \in Live(h) /\ h[z].mem = m
      BY <1>17, <2>1, <2>4 DEF Objects
    <3>2. h2[z].count = h[z].count + Among(c, elems, z) /\ Among(c, elems, z) \in Nat
      BY <1>3, <1>8, <2>2, <2>4, <3>1
    <3>3. h[z].count = ext[z] + Within(h, m, z)
      BY <1>17, <3>1 DEF Balanced
    <3>4. One(m, ref, z) = 0
      BY <1>15, <2>4 DEF One, Refers
    <3>5. m # c => Among(c, elems, z) = 0
      <4>1. ASSUME m # c, NEW i \in DOMAIN elems, Refers(c, elems[i], z)
            PROVE  FALSE
        <5>1. z \in Objects(h, c)
          BY <1>2, <1>12, <4>1, UsableRefers
        <5> QED
          BY <3>1, <4>1, <5>1 DEF Objects
      <4>2. m # c => {i \in DOMAIN elems : Refers(c, elems[i], z)} = {}
        BY <4>1
      <4> QED
        BY <4>2, FS_EmptySet DEF Among
    <3>6. PICK n, e, k, j : n = h2[z].count /\ e = ext[z] /\ k = Within(h, m, z) /\ j = Among(c, elems, z)
      OBVIOUS
    <3>7. n = e + k + j /\ e \in Nat /\ k \in Nat /\ j \in Nat
      BY <2>2, <3>2, <3>3, <3>6
    <3>8. CASE m = c
      <4>1. Within(h2, m, z) = k + j
        BY <2>1, <3>6, <3>8
      <4> QED
        BY <3>4, <3>6, <3>7, <3>8, <4>1
    <3>9. CASE m # c
      <4>1. Within(h2, m, z) = k + 0 /\ j = 0
        BY <2>1, <3>5, <3>6, <3>9
      <4> QED
        BY <3>6, <3>7, <3>9, <4>1
    <3> QED
      BY <3>8, <3>9
  <2> QED
    BY <2>3, <2>4
<1>18. Counts(mode, h, h2, ref)
  <2>1. ASSUME NEW m \in Memory, NEW ext \in [Id -> Nat],
               \A z \in Id : ext[z] > 0 => z \in Live(h), Balanced(h, m, ext)
        PROVE  Balanced(h2, m, [z \in Id |-> ext[z] + IF m = CurrMemory(mode) THEN One(m, ref, z) ELSE 0])
    <3>1. \A z \in Objects(h2, m) : z \in Id
      BY DEF Objects, Live
    <3>2. \A z \in Objects(h2, m) :
            h2[z].count = ext[z] + (IF m = c THEN One(m, ref, z) ELSE 0) + Within(h2, m, z)
      BY <1>17, <2>1
    <3> QED
      BY <1>1, <3>1, <3>2 DEF Balanced
  <2> QED
    BY <2>1 DEF Counts
<1>19. made.heap = h2 /\ made.ref = ref
  BY <1>1, <1>14 DEF build
<1> QED
  BY <1>10, <1>13, <1>16, <1>18, <1>19 DEF Made

\* A sequence can be extended that ends where its block does.
Extendable(mode, h, ref, new) ==
  /\ ref \notin Inline /\ Usable(h, ref) /\ h[ref.obj].kind = "seq"
  /\ new \in Seq(OBJ) /\ \A i \in DOMAIN new : Usable(h, new[i])
  /\ ref.len + Len(new) <= MAX_LENGTH
  /\ can_be_extended(h, ref, Len(new))
  /\ mode = "try" /\ ref.mem = "std" => \A i \in DOMAIN new : new[i] \in Inline

\* It is extended there: what is appended counts, and so does the new reference
\* to the block.
LEMMA ExtendFacts ==
  ASSUME NEW mode \in {"normal", "try"}, NEW h, Evaluable(mode, h), NEW ref, NEW new,
         Extendable(mode, h, ref, new), NEW h2,
         h2 = vec_add_ref([h EXCEPT ![ref.obj].elems = @ \o new], mode, Append(new, ref)),
         NEW longer, longer = make_slice(ref.obj, ref.mem, ref.off, ref.len + Len(new))
  PROVE  /\ Made(mode, h, h2, longer) /\ Counts(mode, h, h2, longer)
         /\ Grown(h, h2, ref.obj, new) /\ h2[ref.obj].kind = "seq"
<1>1. PICK c, y, o, p, h0 : /\ c = CurrMemory(mode) /\ y = ref.obj /\ o = h[y]
                            /\ p = [o EXCEPT !.elems = @ \o new] /\ h0 = [h EXCEPT ![y] = p]
  OBVIOUS
<1>2. /\ HeapOK(h) /\ NoCopies(h) /\ c \in Memory /\ new \in Seq(OBJ) /\ ref \in Ref /\ ref \in OBJ /\ y \in Id
      /\ y \in Live(h) /\ o.copy = NONE /\ o.kind = "seq" /\ ref.mem = o.mem
  <2>1. HeapOK(h) /\ NoCopies(h) /\ c \in Memory
    BY <1>1, Kinship DEF Evaluable
  <2>2. Usable(h, ref) /\ ref \notin Inline /\ new \in Seq(OBJ) /\ o.kind = "seq"
    BY <1>1 DEF Extendable
  <2>3. ref \in OBJ /\ y \in Live(h) /\ o.copy = NONE
    BY <1>1, <2>2, EvaluableFacts
  <2>4. ref \in Ref /\ ref.mem = o.mem
    BY <1>1, <2>2 DEF Usable
  <2> QED
    BY <2>1, <2>2, <2>3, <2>4 DEF Live
<1>3. ObjectOK(o) /\ o \in [kind : Kinds, mem : Memory, count : Nat \ {0}, capacity : Nat, elems : Seq(OBJ), copy : Id \cup {NONE}]
  BY <1>1, <1>2, LiveFacts DEF ObjectOK, Object
<1>4. PICK k, l : k = Len(o.elems) /\ l = Len(new)
  OBVIOUS
<1>5. /\ k \in Nat /\ l \in Nat /\ k + l <= o.capacity /\ o.capacity <= Largest /\ o.capacity \in Nat
      /\ ref.off + ref.len = k /\ ref.off \in Nat /\ ref.len \in Nat /\ ref.len + l <= MAX_LENGTH
  <2>1. o.elems \in Seq(OBJ) /\ o.capacity \in Nat /\ o.capacity <= Largest
    BY <1>2, <1>3 DEF ObjectOK
  <2>2. ref.off + ref.len = k /\ k + l <= o.capacity
    BY <1>1, <1>4 DEF Extendable, can_be_extended
  <2>3. ref.off \in Nat /\ ref.len \in Nat /\ ref.len + l <= MAX_LENGTH
    BY <1>2, <1>4 DEF Ref, Extendable
  <2> QED
    BY <1>2, <1>4, <2>1, <2>2, <2>3, LenProperties
<1>6. /\ p.kind = "seq" /\ p.mem = o.mem /\ p.count = o.count /\ p.capacity = o.capacity /\ p.copy = NONE
      /\ p.elems = o.elems \o new /\ p.elems \in Seq(OBJ) /\ Len(p.elems) = k + l
      /\ p \in Object
  <2>1. o.elems \o new \in Seq(OBJ) /\ Len(o.elems \o new) = k + l
    BY <1>2, <1>3, <1>4, ConcatProperties
  <2>2. PICK q : q = o.elems \o new
    OBVIOUS
  <2>3. p = [o EXCEPT !.elems = q] /\ q \in Seq(OBJ)
    BY <1>1, <2>1, <2>2
  <2>4. p.kind = o.kind /\ p.mem = o.mem /\ p.count = o.count /\ p.capacity = o.capacity /\ p.copy = o.copy /\ p.elems = q
    BY <1>3, <2>3
  <2>5. p \in Object
    BY <1>3, <2>3 DEF Object
  <2> QED
    BY <1>2, <2>1, <2>2, <2>4, <2>5
<1>7. ObjectOK(p)
  <2>1. IsCopied(p) <=> IsCopied(o)
    BY <1>2, <1>6 DEF IsCopied
  <2>2. Len(p.elems) <= p.capacity /\ p.capacity <= Largest /\ Len(p.elems) <= Largest
    BY <1>5, <1>6, LargestFacts
  <2>3. ~ IsCopied(o)
    BY <1>2, <1>3 DEF ObjectOK
  <2> QED
    BY <1>6, <2>1, <2>2, <2>3 DEF ObjectOK
<1>8. h0[y] = p /\ (\A z \in Id : z # y => h0[z] = h[z]) /\ h0 = [z \in Id |-> h0[z]]
  BY <1>1, <1>2 DEF HeapOK
<1>9. HeapOK(h0) /\ Live(h0) = Live(h)
  <2>1. p # FREE /\ o # FREE
    BY <1>3, <1>6, LiveFacts DEF Object
  <2>2. HeapOK(h0)
    BY <1>2, <1>7, <1>8 DEF HeapOK
  <2> QED
    BY <1>1, <1>8, <2>1, <2>2 DEF Live
<1>10. PICK refs : refs = Append(new, ref)
  OBVIOUS
<1>11. refs \in Seq(OBJ) /\ h2 = vec_add_ref(h0, mode, refs)
  <2>1. h0 = [h EXCEPT ![ref.obj].elems = @ \o new]
    BY <1>1
  <2> QED
    BY <1>2, <1>10, <2>1, AppendProperties
<1>12. /\ Added(h0, h2, c, refs)
       /\ \A z \in Id : h0[z] = FREE => h2[z] = FREE
  <2>1. HeapOK(h0)
    BY <1>9
  <2>2. Added(h0, vec_add_ref(h0, mode, refs), c, refs)
    BY <1>1, <1>11, <2>1, AddedFacts
  <2> QED
    BY <1>11, <2>2 DEF Added
<1>13. /\ HeapOK(h2) /\ Live(h2) = Live(h)
       /\ \A z \in Live(h) : /\ h2[z].kind = h0[z].kind
                             /\ h2[z].elems = h0[z].elems /\ h2[z].mem = h0[z].mem /\ h2[z].copy = h0[z].copy
                             /\ h2[z].count = h0[z].count + Among(c, refs, z)
  BY <1>9, <1>12 DEF Added
<1>14. Grown(h, h2, y, new)
  <2>1. h2[y] # FREE /\ h2[y].elems = o.elems \o new /\ h2[y].copy = NONE /\ h2[y].mem = o.mem
    BY <1>2, <1>6, <1>8, <1>13 DEF Live
  <2>2. ASSUME NEW z \in Id, z # y
        PROVE  /\ h2[z] # FREE <=> h[z] # FREE
               /\ h2[z].mem = h[z].mem /\ h2[z].elems = h[z].elems /\ h2[z].copy = h[z].copy
    <3>1. CASE h[z] = FREE
      BY <1>8, <1>12, <2>2, <3>1
    <3>2. CASE h[z] # FREE
      <4>1. z \in Live(h) /\ z \in Live(h2)
        BY <1>13, <2>2, <3>2 DEF Live
      <4>2. h2[z] # FREE
        BY <4>1 DEF Live
      <4> QED
        BY <1>8, <1>13, <2>2, <3>2, <4>1, <4>2
    <3> QED
      BY <3>1, <3>2
  <2> QED
    BY <1>1, <2>1, <2>2 DEF Grown
<1>15. h2[y].mem = o.mem /\ h2[y].kind = "seq"
  BY <1>2, <1>6, <1>8, <1>13
<1>16. /\ o.mem \in Memory /\ (mode = "normal" => o.mem = "std")
       /\ o.mem # c => mode = "try" /\ o.mem = "std" /\ \A i \in DOMAIN new : new[i] \in Inline
  <2>1. o.mem \in Memory
    BY <1>1, <1>2, HeapFacts
  <2>2. mode = "normal" => o.mem = "std"
    BY <1>1, <1>2, <2>1 DEF Evaluable, Objects, Memory
  <2>3. o.mem # c => mode = "try" /\ o.mem = "std"
    BY <1>1, <2>1, <2>2 DEF CurrMemory, Memory
  <2> QED
    BY <1>2, <2>1, <2>2, <2>3 DEF Extendable
<1>17. \A i \in DOMAIN new : Usable(h, new[i]) /\ (h2[y].mem = "std" => InStd(new[i]))
  <2>1. ASSUME NEW i \in DOMAIN new, o.mem = "std"
        PROVE  InStd(new[i])
    <3>1. CASE mode = "normal"
      BY <2>1, <3>1, EvaluableFacts DEF Extendable
    <3>2. CASE mode = "try"
      BY <1>2, <2>1, <3>2 DEF Extendable, InStd
    <3> QED
      BY <3>1, <3>2
  <2> QED
    BY <1>15, <2>1 DEF Extendable
<1>18. Evaluable(mode, h2) /\ \A r : Usable(h, r) => Usable(h2, r)
  <2>1. HeapOK(h2) /\ y \in Id /\ new \in Seq(OBJ) /\ (mode = "normal" => h2[y].mem = "std")
    BY <1>2, <1>13, <1>15, <1>16
  <2>2. ASSUME NEW g, HeapOK(g), Grown(h, g, y, new),
               \A i \in DOMAIN new : Usable(h, new[i]) /\ (g[y].mem = "std" => InStd(new[i])),
               mode = "normal" => g[y].mem = "std"
        PROVE  Evaluable(mode, g) /\ \A r : Usable(h, r) => Usable(g, r)
    BY <2>1, <2>2, GrownEvaluable
  <2> QED
    BY <1>14, <1>17, <2>1, <2>2
<1>19. /\ longer \in Ref /\ longer.obj = y /\ longer.mem = ref.mem /\ longer.off = ref.off /\ longer.len = ref.len + l
       /\ longer \notin Inline /\ longer # NONE
  <2>1. /\ longer.obj = y /\ longer.mem = ref.mem /\ longer.off = ref.off /\ longer.len = ref.len + l
        /\ longer \in Ref
    BY <1>1, <1>2, <1>4, <1>5, <1>16 DEF make_slice, Ref
  <2> QED
    BY <2>1, Kinship DEF OBJ
<1>20. Usable(h2, longer)
  <2>1. Home(h2, y) = y /\ h2[y] # FREE
    BY <1>14 DEF Home, Grown
  <2>2. longer.len <= MAX_LENGTH /\ longer.off + longer.len <= Len(h2[y].elems)
    <3>1. Len(h2[y].elems) = k + l
      BY <1>1, <1>6, <1>14 DEF Grown
    <3> QED
      BY <1>5, <1>19, <3>1
  <2> QED
    BY <1>2, <1>15, <1>19, <2>1, <2>2 DEF Usable
<1>21. ASSUME NEW m \in Memory, NEW ext \in [Id -> Nat], Balanced(h, m, ext), NEW z \in Objects(h2, m)
       PROVE  h2[z].count = ext[z] + (IF m = c THEN One(m, longer, z) ELSE 0) + Within(h2, m, z)
  <2>1. /\ Objects(h2, m) = Objects(h, m) \cup (IF h2[y].mem = m THEN {y} ELSE {})
        /\ Within(h2, m, z) = Within(h, m, z) + (IF h2[y].mem = m THEN Among(m, new, z) ELSE 0)
    BY <1>2, <1>13, <1>14, GrownWithin
  <2>2. z \in Objects(h, m)
    BY <1>1, <1>2, <1>15, <1>21, <2>1 DEF Objects
  <2>3. z \in Id /\ z \in Live(h) /\ h[z].mem = m /\ ext[z] \in Nat /\ Within(h, m, z) \in Nat
    BY <1>2, <2>2, HeapFacts, PlacesFacts DEF Objects, Live, Within
  <2>4. h0[z].count = h[z].count
    BY <1>1, <1>6, <1>8, <2>3
  <2>5. h[z].count = ext[z] + Within(h, m, z)
    BY <1>21, <2>2 DEF Balanced
  <2>6. Among(c, refs, z) = Among(c, new, z) + One(c, ref, z)
    BY <1>2, <1>10, AmongAppend
  <2>7. One(c, ref, z) = One(c, longer, z) /\ One(c, ref, z) \in Nat
    BY <1>1, <1>2, <1>19, Kinship DEF One, Refers, Extendable
  <2>8. \A mm : Among(mm, new, z) \in Nat
    BY <1>2, AmongConcat
  <2>9. ASSUME NEW mm, mm # c, o.mem # c
        PROVE  Among(mm, new, z) = 0 /\ Among(c, new, z) = 0
    <3>1. \A n : {i \in DOMAIN new : Refers(n, new[i], z)} = {}
      BY <1>16, <2>9 DEF Refers
    <3> QED
      BY <3>1, FS_EmptySet DEF Among
  <2>10. m # c => Among(c, new, z) = 0 /\ One(c, ref, z) = 0
    <3>1. ASSUME m # c, NEW r, Usable(h, r)
          PROVE  ~ Refers(c, r, z)
      <4>1. Refers(c, r, z) => z \in Objects(h, c)
        BY <1>2, <3>1, UsableRefers
      <4> QED
        BY <2>3, <3>1, <4>1 DEF Objects
    <3>2. m # c => {i \in DOMAIN new : Refers(c, new[i], z)} = {}
      BY <3>1 DEF Extendable
    <3> QED
      BY <3>1, <3>2, FS_EmptySet DEF Among, One, Extendable
  <2>11. PICK n, e, w, j, i, s : /\ n = h2[z].count /\ e = ext[z] /\ w = Within(h, m, z) /\ j = Among(c, new, z)
                                 /\ i = One(c, longer, z) /\ s = Among(m, new, z)
    OBVIOUS
  <2>12. n = e + w + (j + i) /\ e \in Nat /\ w \in Nat /\ j \in Nat /\ i \in Nat /\ s \in Nat
    BY <1>13, <2>3, <2>4, <2>5, <2>6, <2>7, <2>8, <2>11
  <2>13. CASE m = c
    <3>1. CASE o.mem = c
      <4>1. Within(h2, m, z) = w + j
        BY <1>15, <2>1, <2>11, <2>13, <3>1
      <4> QED
        BY <2>11, <2>12, <2>13, <4>1
    <3>2. CASE o.mem # c
      <4>1. Within(h2, m, z) = w + 0
        BY <1>15, <2>1, <2>11, <2>13, <3>2
      <4>2. j = 0
        <5>1. \E mm \in Memory : mm # c
          BY DEF Memory
        <5> QED
          BY <2>9, <2>11, <3>2, <5>1
      <4> QED
        BY <2>11, <2>12, <2>13, <4>1, <4>2
    <3> QED
      BY <3>1, <3>2
  <2>14. CASE m # c
    <3>1. j = 0 /\ i = 0
      BY <2>7, <2>10, <2>11, <2>14
    <3>5. n = e + 0 + w
      BY <2>12, <3>1
    <3>2. Within(h2, m, z) = w + (IF o.mem = m THEN s ELSE 0)
      BY <1>15, <2>1, <2>11
    <3>3. o.mem = m => s = 0
      BY <2>9, <2>11, <2>14
    <3>4. Within(h2, m, z) = w
      BY <2>12, <3>2, <3>3
    <3> QED
      BY <2>11, <2>14, <3>4, <3>5
  <2> QED
    BY <2>13, <2>14
<1>22. Counts(mode, h, h2, longer)
  <2>1. ASSUME NEW m \in Memory, NEW ext \in [Id -> Nat], Balanced(h, m, ext)
        PROVE  Balanced(h2, m, [z \in Id |-> ext[z] + IF m = CurrMemory(mode) THEN One(m, longer, z) ELSE 0])
    <3>1. \A z \in Objects(h2, m) : z \in Id
      BY DEF Objects, Live
    <3>2. \A z \in Objects(h2, m) :
            h2[z].count = ext[z] + (IF m = c THEN One(m, longer, z) ELSE 0) + Within(h2, m, z)
      BY <1>21, <2>1
    <3> QED
      BY <1>1, <3>1, <3>2 DEF Balanced
  <2> QED
    BY <2>1 DEF Counts
<1> QED
  BY <1>1, <1>14, <1>15, <1>18, <1>20, <1>22 DEF Made

\* A part of a sequence, by its offset and length.
LEMMA PartFacts ==
  ASSUME NEW S, NEW all \in Seq(S), NEW off \in Nat, NEW n \in Nat, off + n <= Len(all),
         NEW s, s = SubSeq(all, off + 1, off + n)
  PROVE  /\ s \in Seq(S) /\ Len(s) = n /\ DOMAIN s = 1 .. n
         /\ \A i \in 1 .. n : s[i] = all[off + i] /\ off + i \in DOMAIN all
<1>1. PICK first \in Int : first = off + 1
  OBVIOUS
<1>2. PICK last \in Int : last = off + n
  OBVIOUS
<1>3. Len(all) \in Nat /\ DOMAIN all = 1 .. Len(all) /\ \A i \in 1 .. Len(all) : all[i] \in S
  BY LenProperties
<1>4. \A i \in first .. last : i \in 1 .. Len(all)
  BY <1>1, <1>2, <1>3
<1>5. \A i \in first .. last : all[i] \in S
  BY <1>3, <1>4
<1>6. s = SubSeq(all, first, last)
  BY <1>1, <1>2
<1>7. s \in Seq(S)
  BY ONLY <1>5, <1>6, SubSeqProperties
<1>8. Len(s) = IF first <= last THEN last - first + 1 ELSE 0
  BY ONLY <1>5, <1>6, SubSeqProperties
<1>9. \A i \in 1 .. last - first + 1 : s[i] = all[first + i - 1]
  BY ONLY <1>5, <1>6, SubSeqProperties
<1>10. Len(s) = n
  BY <1>1, <1>2, <1>8
<1>11. ASSUME NEW i \in 1 .. n
       PROVE  s[i] = all[off + i] /\ off + i \in DOMAIN all
  <2>1. i \in 1 .. last - first + 1 /\ first + i - 1 = off + i /\ off + i \in 1 .. Len(all)
    BY <1>1, <1>2, <1>3
  <2> QED
    BY <1>3, <1>9, <2>1
<1> QED
  BY <1>7, <1>10, <1>11, LenProperties

\* What a reference shows of a sequence is part of what its block has.
LEMMA ShownFacts ==
  ASSUME NEW mode \in {"normal", "try"}, NEW h, Evaluable(mode, h), NEW ref, Usable(h, ref), is_seq(h, ref)
  PROVE  /\ SeqElems(h, ref) \in Seq(OBJ)
         /\ Len(SeqElems(h, ref)) = get_seq_length(ref) /\ get_seq_length(ref) \in 0 .. MAX_LENGTH
         /\ DOMAIN SeqElems(h, ref) = 1 .. get_seq_length(ref)
         /\ \A i \in DOMAIN SeqElems(h, ref) : Usable(h, SeqElems(h, ref)[i])
         /\ ref # EMPTY_SEQ => /\ ref \notin Inline /\ h[ref.obj].kind = "seq" /\ ref.len = get_seq_length(ref)
                               /\ \A i \in DOMAIN SeqElems(h, ref) :
                                    ref.off + i \in DOMAIN h[ref.obj].elems /\ SeqElems(h, ref)[i] = h[ref.obj].elems[ref.off + i]
<1>1. CASE ref = EMPTY_SEQ
  <2>1. SeqElems(h, ref) = <<>> /\ get_seq_length(ref) = 0
    BY <1>1 DEF SeqElems, get_seq_length
  <2>2. <<>> \in Seq(OBJ) /\ Len(<<>>) = 0 /\ DOMAIN <<>> = 1 .. 0 /\ 1 .. 0 = {}
    BY EmptySeq
  <2>3. 0 \in 0 .. MAX_LENGTH
    BY LargestFacts
  <2> QED
    BY <1>1, <2>1, <2>2, <2>3
<1>2. CASE ref # EMPTY_SEQ
  <2>1. ref \notin Inline /\ h[ref.obj].kind = "seq"
    BY <1>2 DEF is_seq, is_ne_seq
  <2>2. PICK x, all, off, n : x = ref.obj /\ all = h[x].elems /\ off = ref.off /\ n = ref.len
    OBVIOUS
  <2>3. x \in Live(h) /\ ref \in Ref /\ Home(h, x) = x
    BY <2>1, <2>2, EvaluableFacts DEF Usable
  <2>4. x \in Id /\ off \in Nat /\ n \in Nat /\ n <= MAX_LENGTH /\ off + n <= Len(all)
    BY <2>1, <2>2, <2>3 DEF Usable, Ref, Live
  <2>5. all \in Seq(OBJ) /\ Len(all) \in Nat /\ DOMAIN all = 1 .. Len(all)
    BY <2>2, <2>4, HeapFacts, LenProperties DEF ElementsTyped, Evaluable
  <2>6. PICK s : s = SubSeq(all, off + 1, off + n)
    OBVIOUS
  <2>7. /\ s \in Seq(OBJ) /\ Len(s) = n /\ DOMAIN s = 1 .. n
        /\ \A i \in 1 .. n : s[i] = all[off + i] /\ off + i \in DOMAIN all
    <3>1. all \in Seq(OBJ) /\ off \in Nat /\ n \in Nat /\ off + n <= Len(all)
      BY <2>4, <2>5
    <3> QED
      BY ONLY <2>6, <3>1, PartFacts
  <2>8. SeqElems(h, ref) = s /\ get_seq_length(ref) = n
    BY <1>2, <2>2, <2>6 DEF SeqElems, get_seq_length
  <2>9. \A i \in DOMAIN s : Usable(h, s[i])
    BY <2>2, <2>3, <2>7, EvaluableFacts
  <2>10. n \in 0 .. MAX_LENGTH
    BY <2>4, LargestFacts
  <2> QED
    BY <2>1, <2>2, <2>7, <2>8, <2>9, <2>10
<1> QED
  BY <1>1, <1>2

\* Nothing changes, and what is inline is not counted.
LEMMA InlineMade ==
  ASSUME NEW mode \in {"normal", "try"}, NEW h, Evaluable(mode, h), NEW ref \in Inline
  PROVE  Made(mode, h, h, ref) /\ Counts(mode, h, h, ref)
<1>1. Made(mode, h, h, ref)
  BY DEF Made, Usable
<1>2. \A m, x : One(m, ref, x) = 0
  BY DEF One, Refers
<1>3. ASSUME NEW m \in Memory, NEW ext \in [Id -> Nat], Balanced(h, m, ext)
      PROVE  Balanced(h, m, [x \in Id |-> ext[x] + IF m = CurrMemory(mode) THEN One(m, ref, x) ELSE 0])
  <2>1. \A x \in Objects(h, m) : x \in Id
    BY DEF Objects, Live
  <2>2. \A x \in Id : ext[x] + (IF m = CurrMemory(mode) THEN One(m, ref, x) ELSE 0) = ext[x]
    BY <1>2
  <2> QED
    BY <1>3, <2>1, <2>2 DEF Balanced
<1> QED
  BY <1>1, <1>3 DEF Counts

\* A slice is another reference to the block, for part of what is shown.
LEMMA SliceFacts ==
  ASSUME NEW mode \in {"normal", "try"}, NEW h, Evaluable(mode, h), NEW ref, Usable(h, ref), is_seq(h, ref),
         NEW first \in Nat, NEW len \in Nat, first + len <= get_seq_length(ref),
         NEW made, made = get_seq_slice(h, mode, ref, first, len)
  PROVE  Made(mode, h, made.heap, made.ref) /\ Counts(mode, h, made.heap, made.ref)
<1>1. CASE len = 0
  BY <1>1, InlineMade DEF get_seq_slice, Inline
<1>2. CASE len # 0
  <2>1. ref # EMPTY_SEQ
    BY <1>2 DEF get_seq_length
  <2>2. ref \notin Inline /\ ref.len = get_seq_length(ref) /\ ref.len \in Nat /\ ref.len <= MAX_LENGTH
    BY <2>1, ShownFacts, LargestFacts
  <2>3. PICK part : part = make_slice(ref.obj, ref.mem, ref.off + first, len)
    OBVIOUS
  <2>4. ref \in Ref /\ ref.obj \in Id /\ ref.mem \in Memory /\ ref.off \in Nat
    BY <2>2 DEF Usable, Ref
  <2>5. /\ part \in Ref /\ part.obj = ref.obj /\ part.mem = ref.mem /\ part.off = ref.off + first /\ part.len = len
        /\ part \notin Inline /\ part # NONE /\ ref # NONE
    <3>1. part.obj = ref.obj /\ part.mem = ref.mem /\ part.off = ref.off + first /\ part.len = len /\ part \in Ref
      BY <2>3, <2>4 DEF make_slice, Ref
    <3> QED
      BY <2>4, <3>1, Kinship DEF OBJ
  <2>6. Usable(h, part)
    <3>1. h[ref.obj] # FREE /\ ref.mem = h[ref.obj].mem /\ ref.off + ref.len <= Len(h[Home(h, ref.obj)].elems)
      BY <2>2 DEF Usable
    <3>2. Home(h, ref.obj) = ref.obj /\ Len(h[ref.obj].elems) \in Nat
      BY <2>2, <2>4, EvaluableFacts, HeapFacts DEF Evaluable
    <3>3. part.len <= MAX_LENGTH /\ part.off + part.len <= Len(h[ref.obj].elems)
      <4>1. PICK k, o, n : k = Len(h[ref.obj].elems) /\ o = ref.off /\ n = ref.len
        OBVIOUS
      <4>2. k \in Nat /\ o \in Nat /\ n \in Nat /\ o + n <= k /\ n <= MAX_LENGTH /\ first + len <= n
        BY <2>2, <2>4, <3>1, <3>2, <4>1
      <4>3. len <= MAX_LENGTH /\ (o + first) + len <= k
        BY <4>2, LargestFacts
      <4> QED
        BY <2>5, <4>1, <4>3
    <3> QED
      BY <2>5, <3>1, <3>2, <3>3 DEF Usable
  <2>7. \A m, x : Refers(m, part, x) <=> Refers(m, ref, x)
    BY <2>2, <2>5, Kinship DEF Refers
  <2>8. PICK h2 : h2 = add_ref(h, mode, ref)
    OBVIOUS
  <2>9. Made(mode, h, h2, part) /\ Counts(mode, h, h2, part)
    BY <2>6, <2>7, <2>8, AliasFacts
  <2>10. made.heap = h2 /\ made.ref = part
    BY <1>2, <2>3, <2>8 DEF get_seq_slice
  <2> QED
    BY <2>9, <2>10
<1> QED
  BY <1>1, <1>2

\* The memory in use is what a release changes, and there only what is not
\* referred to any more goes.
LEMMA ReleaseKeeps ==
  ASSUME NEW h, HeapOK(h), NEW mode, NEW c, c = CurrMemory(mode), NEW ref \in OBJ,
         NEW ext \in [Id -> Nat], Releasable(h, c, ref, ext), NEW h2, h2 = release(h, mode, ref)
  PROVE  /\ HeapOK(h2) /\ (NoCopies(h) => NoCopies(h2))
         /\ Alive(h2, c, Objects(h2, c)) /\ Balanced(h2, c, ext) /\ ~ ReachesFree(h, mode, ref)
         /\ Live(h2) \subseteq Live(h)
         /\ \A x \in Live(h2) : h2[x].elems = h[x].elems /\ h2[x].mem = h[x].mem /\ h2[x].copy = h[x].copy
         /\ \A m : m # c => /\ Objects(h2, m) = Objects(h, m)
                            /\ \A other : Balanced(h, m, other) => Balanced(h2, m, other)
         /\ \A r : /\ Usable(h, r)
                   /\ \A x : Refers(c, r, x) => x \in Objects(h2, c) \/ ext[x] > 0
                   /\ r \notin Inline => h[r.obj].copy = NONE
                   => Usable(h2, r)
<1>1. PICK D : D = Dying(h, mode, ref)
  OBVIOUS
<1>2. /\ D \subseteq Objects(h, c)
      /\ Thinned(h, h2, D)
      /\ \A x \in Live(h) \ D : h2[x].count \in Nat \ {0}
      /\ \A x \in Id : x \notin Objects(h, c) => h2[x] = h[x]
      /\ Alive(h2, c, Objects(h2, c)) /\ Balanced(h2, c, ext)
      /\ \A x \in D : ext[x] = 0
      /\ ~ ReachesFree(h, mode, ref)
  BY <1>1, ReleaseFacts
<1>3. /\ HeapOK(h2)
      /\ Live(h2) = Live(h) \ D
      /\ \A x \in Live(h) \ D : /\ h2[x].kind = h[x].kind /\ h2[x].mem = h[x].mem
                                /\ h2[x].capacity = h[x].capacity
                                /\ h2[x].elems = h[x].elems /\ h2[x].copy = h[x].copy
      /\ \A m : Objects(h2, m) = Objects(h, m) \ D
      /\ NoCopies(h) => NoCopies(h2)
  BY <1>2, ThinnedFacts
<1>4. \A m : m # c => Objects(h, m) \cap D = {} /\ Objects(h2, m) = Objects(h, m)
  BY <1>2, <1>3 DEF Objects
<1>5. ASSUME NEW m, m # c, NEW other, Balanced(h, m, other)
      PROVE  Balanced(h2, m, other)
  <2>1. \A x \in Objects(h, m) : x \in Id /\ x \notin Objects(h, c)
    BY <1>5 DEF Objects, Live
  <2>2. \A x \in Objects(h, m) : h2[x] = h[x]
    BY <1>2, <2>1
  <2>3. \A x : Places(h2, m, Objects(h, m), x) = Places(h, m, Objects(h, m), x)
    BY <2>2, SamePlaces
  <2>4. Objects(h2, m) = Objects(h, m)
    BY <1>4, <1>5
  <2> QED
    BY <1>5, <2>2, <2>3, <2>4 DEF Balanced, Within
<1>6. ASSUME NEW r, Usable(h, r), \A x : Refers(c, r, x) => x \in Objects(h2, c) \/ ext[x] > 0,
             r \notin Inline => h[r.obj].copy = NONE
      PROVE  Usable(h2, r)
  <2>1. CASE r \in Inline
    BY <2>1 DEF Usable
  <2>2. CASE r \notin Inline
    <3>1. r \in Ref /\ r.obj \in Id /\ r.obj \in Live(h) /\ r.mem = h[r.obj].mem /\ r # NONE
      BY <1>6, <2>2, Kinship DEF Usable, Ref, Live, OBJ
    <3>2. Home(h, r.obj) = r.obj
      BY <1>6, <2>2 DEF Home
    <3>3. r.obj \notin D
      <4>1. CASE r.mem = c
        <5>1. Refers(c, r, r.obj)
          BY <2>2, <3>1, <4>1 DEF Refers
        <5>2. r.obj \in Objects(h2, c) \/ ext[r.obj] > 0
          BY <1>6, <5>1
        <5> QED
          BY <1>2, <1>3, <5>2
      <4>2. CASE r.mem # c
        BY <1>2, <3>1, <4>2 DEF Objects
      <4> QED
        BY <4>1, <4>2
    <3> QED
      BY <1>2, <1>6, <3>1, <3>2, <3>3, ThinnedUsable
  <2> QED
    BY <2>1, <2>2
<1> QED
  BY <1>2, <1>3, <1>4, <1>5, <1>6

\* Standard memory stays closed when a reference to it is released.
LEMMA ReleaseStd ==
  ASSUME NEW h, HeapOK(h), NEW mode, CurrMemory(mode) = "std", NEW ref \in OBJ,
         NEW ext \in [Id -> Nat], Releasable(h, "std", ref, ext), NEW h2, h2 = release(h, mode, ref),
         Closed(h, "std")
  PROVE  Closed(h2, "std")
<1>1. /\ HeapOK(h2) /\ Alive(h2, "std", Objects(h2, "std")) /\ Live(h2) \subseteq Live(h)
      /\ \A x \in Live(h2) : h2[x].elems = h[x].elems /\ h2[x].mem = h[x].mem /\ h2[x].copy = h[x].copy
      /\ \A r : /\ Usable(h, r)
                /\ \A x : Refers("std", r, x) => x \in Objects(h2, "std") \/ ext[x] > 0
                /\ r \notin Inline => h[r.obj].copy = NONE
                => Usable(h2, r)
  BY ReleaseKeeps
<1>2. ASSUME NEW x \in Objects(h2, "std"), NEW i \in DOMAIN h2[x].elems
      PROVE  Usable(h2, h2[x].elems[i]) /\ InStd(h2[x].elems[i])
  <2>1. x \in Objects(h, "std") /\ h2[x].elems = h[x].elems
    BY <1>1, <1>2 DEF Objects
  <2>2. PICK r : r = h[x].elems[i]
    OBVIOUS
  <2>3. Usable(h, r) /\ InStd(r)
    BY <1>2, <2>1, <2>2 DEF Closed
  <2>4. \A y : Refers("std", r, y) => y \in Objects(h2, "std")
    BY <1>1, <1>2, <2>1, <2>2 DEF Alive
  <2>5. r \notin Inline => h[r.obj].copy = NONE
    <3>1. ASSUME r \notin Inline
          PROVE  h[r.obj].copy = NONE
      <4>1. r.obj \in Live(h) /\ h[r.obj].mem = "std"
        BY <2>3, <3>1 DEF Usable, InStd, Live, Ref
      <4> QED
        BY <4>1, LiveFacts DEF ObjectOK
    <3> QED
      BY <3>1
  <2>6. Usable(h2, r)
    BY <1>1, <2>3, <2>4, <2>5
  <2> QED
    BY <2>1, <2>2, <2>3, <2>6
<1> QED
  BY <1>2 DEF Closed

\* So does the heap while a program evaluates.
LEMMA ReleaseEvaluable ==
  ASSUME NEW mode \in {"normal", "try"}, NEW h, Evaluable(mode, h), NEW c, c = CurrMemory(mode), NEW ref \in OBJ,
         NEW ext \in [Id -> Nat], Releasable(h, c, ref, ext), NEW h2, h2 = release(h, mode, ref)
  PROVE  /\ Evaluable(mode, h2)
         /\ \A r : Usable(h, r) /\ (\A x : Refers(c, r, x) => ext[x] > 0) => Usable(h2, r)
<1>1. /\ HeapOK(h2) /\ NoCopies(h2) /\ Alive(h2, c, Objects(h2, c)) /\ Live(h2) \subseteq Live(h)
      /\ \A x \in Live(h2) : h2[x].elems = h[x].elems /\ h2[x].mem = h[x].mem /\ h2[x].copy = h[x].copy
      /\ \A r : /\ Usable(h, r)
                /\ \A x : Refers(c, r, x) => x \in Objects(h2, c) \/ ext[x] > 0
                /\ r \notin Inline => h[r.obj].copy = NONE
                => Usable(h2, r)
  <2>1. HeapOK(h) /\ NoCopies(h)
    BY DEF Evaluable
  <2> QED
    BY <2>1, ReleaseKeeps
<1>2. ASSUME NEW m \in Memory, NEW x \in Objects(h2, m), NEW i \in DOMAIN h2[x].elems
      PROVE  Usable(h2, h2[x].elems[i]) /\ (m = "std" => InStd(h2[x].elems[i]))
  <2>1. x \in Objects(h, m) /\ h2[x].elems = h[x].elems /\ x \in Live(h)
    BY <1>1, <1>2 DEF Objects
  <2>2. PICK r : r = h[x].elems[i]
    OBVIOUS
  <2>3. Usable(h, r) /\ (m = "std" => InStd(r)) /\ (mode = "normal" => InStd(r))
    BY <1>2, <2>1, <2>2, EvaluableFacts DEF Evaluable, Closed
  <2>4. ASSUME NEW y, Refers(c, r, y)
        PROVE  y \in Objects(h2, c)
    <3>1. m = c
      <4>1. CASE mode = "normal"
        BY <2>1, <4>1 DEF Evaluable, Memory, CurrMemory
      <4>2. CASE mode = "try"
        BY <2>3, <2>4, <4>2 DEF Refers, InStd, Memory, CurrMemory
      <4> QED
        BY <4>1, <4>2
    <3> QED
      BY <1>1, <1>2, <2>1, <2>2, <2>4, <3>1 DEF Alive
  <2>5. Usable(h2, r)
    BY <1>1, <2>3, <2>4, EvaluableFacts
  <2> QED
    BY <2>1, <2>2, <2>3, <2>5
<1>3. mode = "normal" => Objects(h2, "try") = {}
  BY <1>1 DEF Evaluable, Objects
<1>4. Evaluable(mode, h2)
  BY <1>1, <1>2, <1>3 DEF Evaluable, Closed
<1>5. ASSUME NEW r, Usable(h, r), \A x : Refers(c, r, x) => ext[x] > 0
      PROVE  Usable(h2, r)
  BY <1>1, <1>5, EvaluableFacts
<1> QED
  BY <1>4, <1>5

-----------------------------------------------------------------------------
(***************************************************************************)
(* Copying to standard memory.                                             *)
(***************************************************************************)
\* Where an object was copied to is an object of the same kind.
CopiesOK(h) ==
  \A x \in Live(h) : h[x].copy # NONE =>
    /\ h[x].copy \in Objects(h, "std")
    /\ h[h[x].copy].kind = h[x].kind

Copyable(h, ref) ==
  /\ HeapOK(h) /\ Closed(h, "std") /\ Closed(h, "try") /\ CopiesOK(h) /\ Usable(h, ref)

\* What copying a reference is copying, if anything.
Visited(h, r) == IF r \notin Inline /\ r.mem = "try" /\ ~ IsCopied(h[r.obj]) THEN {r.obj} ELSE {}

\* What has to be copied is what the reference leads to of temporary objects
\* that have not been, and no more.
LEMMA ToCopyFacts ==
  ASSUME NEW h, NEW ref, Copyable(h, ref), NEW S, S = ToCopy(h, ref)
  PROVE  /\ S \subseteq Objects(h, "try") /\ S \in SUBSET Id
         /\ \A x \in S : h[x].copy = NONE /\ ~ IsCopied(h[x])
         /\ Visited(h, ref) \subseteq S
         /\ \A x \in S : \A i \in DOMAIN h[x].elems : Usable(h, h[x].elems[i]) /\ Visited(h, h[x].elems[i]) \subseteq S
         /\ \A T \in SUBSET Id :
              /\ Visited(h, ref) \subseteq T
              /\ \A x \in T : \A i \in DOMAIN h[x].elems : Visited(h, h[x].elems[i]) \subseteq T
              => S \subseteq T
<1>1. PICK next : next = [x \in Id |-> UNION {Visited(h, h[x].elems[i]) : i \in DOMAIN h[x].elems}]
  OBVIOUS
<1>2. S = Closure(next, Visited(h, ref))
  BY <1>1 DEF ToCopy, Visited
<1>3. HeapOK(h) /\ Usable(h, ref)
  BY DEF Copyable
<1>4. \A r \in OBJ : Visited(h, r) \in SUBSET Id
  BY Kinship DEF Visited
<1>5. ref \in OBJ /\ Visited(h, ref) \in SUBSET Id
  <2>1. ref \in OBJ
    BY <1>3 DEF Usable, OBJ
  <2> QED
    BY <1>4, <2>1
<1>6. next \in [Id -> SUBSET Id]
  <2>1. \A x \in Id : \A i \in DOMAIN h[x].elems : Visited(h, h[x].elems[i]) \in SUBSET Id
    BY <1>3, <1>4, HeapFacts
  <2> QED
    BY <1>1, <2>1
<1>7. /\ S \in SUBSET Id
      /\ Visited(h, ref) \subseteq S
      /\ \A x \in S : next[x] \subseteq S
      /\ \A T \in SUBSET Id : Visited(h, ref) \subseteq T /\ (\A x \in T : next[x] \subseteq T) => S \subseteq T
  BY <1>2, <1>5, <1>6, ClosureFacts
<1>8. ASSUME NEW T \in SUBSET Id
      PROVE  (\A x \in T : next[x] \subseteq T) <=> \A x \in T : \A i \in DOMAIN h[x].elems : Visited(h, h[x].elems[i]) \subseteq T
  BY <1>1
<1>9. PICK T : T = {x \in Objects(h, "try") : ~ IsCopied(h[x])}
  OBVIOUS
<1>10. \A r : Usable(h, r) => Visited(h, r) \subseteq T
  BY <1>9 DEF Visited, Usable, Objects, Live, Ref
<1>11. S \subseteq T
  <2>1. T \in SUBSET Id
    BY <1>9 DEF Objects, Live
  <2>2. \A x \in T : \A i \in DOMAIN h[x].elems : Visited(h, h[x].elems[i]) \subseteq T
    BY <1>9, <1>10 DEF Copyable, Closed
  <2> QED
    BY <1>3, <1>7, <1>8, <1>10, <2>1, <2>2
<1>12. \A x \in T : h[x].copy = NONE /\ ~ IsCopied(h[x])
  BY <1>3, <1>9, LiveFacts DEF ObjectOK, Objects
<1>13. \A x \in T : \A i \in DOMAIN h[x].elems : Usable(h, h[x].elems[i])
  BY <1>9 DEF Copyable, Closed
<1> QED
  BY <1>7, <1>8, <1>9, <1>11, <1>12, <1>13

\* The blocks that copies are made in are free, and there is one for each.
Targeted(h, S, at) ==
  /\ DOMAIN at = S
  /\ \A x \in S : at[x] \in Id /\ h[at[x]] = FREE
  /\ \A x, y \in S : at[x] = at[y] => x = y

\* Where a reference goes when what it leads to is copied.
LEMMA ImageFacts ==
  ASSUME NEW h, NEW ref, Copyable(h, ref), NEW S, S = ToCopy(h, ref), NEW at, Targeted(h, S, at),
         NEW r, Usable(h, r), Visited(h, r) \subseteq S, NEW q, q = repoint_to_std_mem_copy(h, at, r)
  PROVE  /\ q \in OBJ /\ InStd(q)
         /\ r \in Inline \/ r.mem = "std" => q = r
         /\ r \notin Inline => q \notin Inline /\ q # NONE /\ q \in Ref /\ q.off = r.off /\ q.len = r.len /\ q.mem = "std"
         /\ r \notin Inline /\ r.mem # "std" /\ r.obj \notin S => h[r.obj].copy # NONE /\ q.obj = h[r.obj].copy
         /\ r \notin Inline /\ r.mem # "std" /\ r.obj \in S => q.obj = at[r.obj]
<1>1. HeapOK(h)
  BY DEF Copyable
<1>2. CASE r \in Inline
  <2>1. q = r
    BY <1>2 DEF repoint_to_std_mem_copy
  <2> QED
    BY <1>2, <2>1 DEF InStd, OBJ
<1>3. CASE r \notin Inline /\ r.mem = "std"
  <2>1. q = r
    BY <1>3 DEF repoint_to_std_mem_copy
  <2>2. r \in Ref
    BY <1>3 DEF Usable
  <2> QED
    BY <1>3, <2>1, <2>2, Kinship DEF InStd, OBJ
<1>4. CASE r \notin Inline /\ r.mem # "std"
  <2>1. /\ r \in Ref /\ r.obj \in Id /\ r.mem = "try" /\ r.obj \in Live(h) /\ r.off \in Nat /\ r.len \in Nat
        /\ h[r.obj].mem = "try"
    BY <1>4 DEF Usable, Ref, Memory, Live
  <2>2. PICK y : y = IF IsCopied(h[r.obj]) THEN h[r.obj].copy ELSE at[r.obj]
    OBVIOUS
  <2>3. q = [r EXCEPT !.mem = "std", !.obj = y]
    BY <1>4, <2>2 DEF repoint_to_std_mem_copy
  <2>4. r.obj \in S <=> ~ IsCopied(h[r.obj])
    <3>1. r.obj \in S => ~ IsCopied(h[r.obj])
      BY ToCopyFacts
    <3>2. ~ IsCopied(h[r.obj]) => r.obj \in S
      BY <1>4, <2>1 DEF Visited
    <3> QED
      BY <3>1, <3>2
  <2>5. r.obj \in S => y = at[r.obj] /\ y \in Id
    BY <2>2, <2>4 DEF Targeted
  <2>6. r.obj \notin S => y = h[r.obj].copy /\ h[r.obj].copy # NONE /\ y \in Id
    BY <1>1, <2>1, <2>2, <2>4, LiveFacts DEF ObjectOK, Object
  <2>7. q = [obj |-> y, mem |-> "std", off |-> r.off, len |-> r.len]
    BY <2>1, <2>3 DEF Ref
  <2>8. q \in Ref /\ q.obj = y /\ q.mem = "std" /\ q.off = r.off /\ q.len = r.len
    BY <2>1, <2>5, <2>6, <2>7 DEF Ref, Memory
  <2> QED
    BY <1>4, <2>5, <2>6, <2>8, Kinship DEF OBJ, InStd
<1> QED
  BY <1>2, <1>3, <1>4

Copying(h, ref, S, at) == Copyable(h, ref) /\ S = ToCopy(h, ref) /\ Targeted(h, S, at)

\* The places of the elements of what is copied whose copies are references to y.
Copies(h, S, at, y) ==
  {p \in S \X Slot : /\ p[2] \in DOMAIN h[p[1]].elems
                     /\ Refers("std", repoint_to_std_mem_copy(h, at, h[p[1]].elems[p[2]]), y)}

\* What is copied has references that are usable, and copied with it.
LEMMA CopyingFacts ==
  ASSUME NEW h, NEW ref, NEW S, NEW at, Copying(h, ref, S, at)
  PROVE  /\ HeapOK(h) /\ S \in SUBSET Id /\ S \subseteq Objects(h, "try") /\ DOMAIN at = S
         /\ \A x \in S : at[x] \in Id /\ h[at[x]] = FREE /\ h[x] # FREE /\ h[x].copy = NONE /\ at[x] \notin S
         /\ \A r : \/ r = ref
                   \/ \E x \in S : \E i \in DOMAIN h[x].elems : r = h[x].elems[i]
                   => Usable(h, r) /\ r \in OBJ /\ Visited(h, r) \subseteq S
<1>1. Copyable(h, ref) /\ S = ToCopy(h, ref) /\ Targeted(h, S, at)
  BY DEF Copying
<1>2. /\ S \subseteq Objects(h, "try") /\ S \in SUBSET Id
      /\ \A x \in S : h[x].copy = NONE /\ ~ IsCopied(h[x])
      /\ Visited(h, ref) \subseteq S
      /\ \A x \in S : \A i \in DOMAIN h[x].elems : Usable(h, h[x].elems[i]) /\ Visited(h, h[x].elems[i]) \subseteq S
  BY <1>1, ToCopyFacts
<1>3. \A x \in S : h[x] # FREE
  BY <1>2 DEF Objects, Live
<1>4. \A r : Usable(h, r) => r \in OBJ
  BY DEF Usable, OBJ
<1> QED
  BY <1>1, <1>2, <1>3, <1>4 DEF Copyable, Targeted

\* The count copying makes for a block is that of the references it makes to it,
\* and it makes one to every copy.
LEMMA MadeToFacts ==
  ASSUME NEW h, NEW ref, NEW S, NEW at, Copying(h, ref, S, at)
  PROVE  /\ \A y : /\ MadeTo(h, ref, at, y) = One("std", repoint_to_std_mem_copy(h, at, ref), y) + Cardinality(Copies(h, S, at, y))
                   /\ MadeTo(h, ref, at, y) \in Nat /\ IsFiniteSet(Copies(h, S, at, y))
         /\ \A x \in S : MadeTo(h, ref, at, at[x]) > 0
<1>1. /\ HeapOK(h) /\ S \in SUBSET Id /\ DOMAIN at = S
      /\ \A r : \/ r = ref
                \/ \E x \in S : \E i \in DOMAIN h[x].elems : r = h[x].elems[i]
                => Usable(h, r) /\ r \in OBJ /\ Visited(h, r) \subseteq S
  BY CopyingFacts
<1>2. Copyable(h, ref) /\ S = ToCopy(h, ref) /\ Targeted(h, S, at)
  BY DEF Copying
<1>3. ASSUME NEW r, Usable(h, r), Visited(h, r) \subseteq S, NEW y
      PROVE  Counted("copying", <<repoint_to_std_mem_copy(h, at, r)>>, y) = One("std", repoint_to_std_mem_copy(h, at, r), y)
  <2>1. PICK q : q = repoint_to_std_mem_copy(h, at, r)
    OBVIOUS
  <2>2. q \in OBJ
    BY <1>2, <1>3, <2>1, ImageFacts
  <2>3. Counted("copying", <<q>>, y) = One(CurrMemory("copying"), q, y)
    BY <2>2, CountedOne
  <2> QED
    BY <2>1, <2>3 DEF CurrMemory
<1>4. ASSUME NEW y
      PROVE  /\ MadeTo(h, ref, at, y) = One("std", repoint_to_std_mem_copy(h, at, ref), y) + Cardinality(Copies(h, S, at, y))
             /\ MadeTo(h, ref, at, y) \in Nat /\ IsFiniteSet(Copies(h, S, at, y))
  <2>1. {p \in S \X Slot : p[2] \in DOMAIN h[p[1]].elems
                  /\ Counted("copying", <<repoint_to_std_mem_copy(h, at, h[p[1]].elems[p[2]])>>, y) = 1} = Copies(h, S, at, y)
    <3>1. ASSUME NEW p \in S \X Slot, p[2] \in DOMAIN h[p[1]].elems
          PROVE  Counted("copying", <<repoint_to_std_mem_copy(h, at, h[p[1]].elems[p[2]])>>, y) = 1
                 <=> Refers("std", repoint_to_std_mem_copy(h, at, h[p[1]].elems[p[2]]), y)
      <4>1. PICK r : r = h[p[1]].elems[p[2]]
        OBVIOUS
      <4>2. Usable(h, r) /\ Visited(h, r) \subseteq S
        BY <1>1, <3>1, <4>1
      <4>3. Counted("copying", <<repoint_to_std_mem_copy(h, at, r)>>, y) = One("std", repoint_to_std_mem_copy(h, at, r), y)
        BY <1>3, <4>2
      <4> QED
        BY <4>1, <4>3 DEF One
    <3> QED
      BY <3>1 DEF Copies
  <2>2. Counted("copying", <<repoint_to_std_mem_copy(h, at, ref)>>, y) = One("std", repoint_to_std_mem_copy(h, at, ref), y)
    BY <1>1, <1>3
  <2>3. MadeTo(h, ref, at, y) = One("std", repoint_to_std_mem_copy(h, at, ref), y) + Cardinality(Copies(h, S, at, y))
    BY <1>1, <2>1, <2>2 DEF MadeTo
  <2>4. IsFiniteSet(Copies(h, S, at, y)) /\ Cardinality(Copies(h, S, at, y)) \in Nat
    <3>1. IsFiniteSet(S \X Slot)
      <4>1. IsFiniteSet(S)
        BY <1>1, BlocksAssumption, FS_Subset
      <4> QED
        BY <4>1, LargestFacts, FS_Product
    <3>2. Copies(h, S, at, y) \subseteq S \X Slot
      BY DEF Copies
    <3> QED
      BY <3>1, <3>2, FS_Subset, FS_CardinalityType
  <2> QED
    BY <2>3, <2>4 DEF One
<1>5. PICK T : T = {x \in S : MadeTo(h, ref, at, at[x]) > 0}
  OBVIOUS
<1>6. Visited(h, ref) \subseteq T
  <2>1. ASSUME ref \notin Inline, ref.mem = "try", ~ IsCopied(h[ref.obj])
        PROVE  ref.obj \in T
    <3>1. PICK q, y : q = repoint_to_std_mem_copy(h, at, ref) /\ y = ref.obj
      OBVIOUS
    <3>2. y \in S
      BY <1>1, <2>1, <3>1 DEF Visited
    <3>3. q.obj = at[y] /\ q.mem = "std" /\ q \notin Inline /\ q # NONE
      <4>1. Usable(h, ref) /\ Visited(h, ref) \subseteq S
        BY <1>1
      <4> QED
        BY <1>2, <2>1, <3>1, <3>2, <4>1, ImageFacts
    <3>4. One("std", q, at[y]) = 1
      BY <3>3 DEF One, Refers
    <3>5. MadeTo(h, ref, at, at[y]) = 1 + Cardinality(Copies(h, S, at, at[y])) /\ Cardinality(Copies(h, S, at, at[y])) \in Nat
      BY <1>4, <3>1, <3>4, FS_CardinalityType
    <3> QED
      BY <1>5, <3>1, <3>2, <3>5
  <2> QED
    BY <2>1 DEF Visited
<1>7. ASSUME NEW x \in T, NEW i \in DOMAIN h[x].elems
      PROVE  Visited(h, h[x].elems[i]) \subseteq T
  <2>1. PICK r : r = h[x].elems[i]
    OBVIOUS
  <2>2. ASSUME r \notin Inline, r.mem = "try", ~ IsCopied(h[r.obj])
        PROVE  r.obj \in T
    <3>1. PICK q, y : q = repoint_to_std_mem_copy(h, at, r) /\ y = r.obj
      OBVIOUS
    <3>2. Usable(h, r) /\ Visited(h, r) \subseteq S /\ x \in S
      BY <1>1, <1>5, <2>1
    <3>3. y \in S
      BY <2>2, <3>1, <3>2 DEF Visited
    <3>4. q.obj = at[y] /\ q.mem = "std" /\ q \notin Inline /\ q # NONE
      BY <1>2, <2>2, <3>1, <3>2, <3>3, ImageFacts
    <3>5. Refers("std", q, at[y])
      BY <3>4 DEF Refers
    <3>6. i \in Slot
      BY <1>1, <3>2, HeapFacts
    <3>7. <<x, i>> \in Copies(h, S, at, at[y])
      BY <2>1, <3>1, <3>2, <3>5, <3>6 DEF Copies
    <3>8. PICK P : P = Copies(h, S, at, at[y])
      OBVIOUS
    <3>9. IsFiniteSet(P) /\ P # {}
      BY <1>4, <3>7, <3>8
    <3>10. Cardinality(P) > 0 /\ Cardinality(P) \in Nat
      BY <3>9, FS_EmptySet, FS_CardinalityType
    <3>11. MadeTo(h, ref, at, at[y]) = One("std", repoint_to_std_mem_copy(h, at, ref), at[y]) + Cardinality(P)
      BY <1>4, <3>8
    <3>12. PICK a, b : a = One("std", repoint_to_std_mem_copy(h, at, ref), at[y]) /\ b = Cardinality(P)
      OBVIOUS
    <3>13. a \in {0, 1} /\ b \in Nat /\ b > 0
      BY <3>10, <3>12 DEF One
    <3>14. MadeTo(h, ref, at, at[y]) > 0
      BY <3>11, <3>12, <3>13
    <3> QED
      BY <1>5, <3>1, <3>3, <3>14
  <2> QED
    BY <2>1, <2>2 DEF Visited
<1>8. S \subseteq T
  <2>1. T \in SUBSET Id
    BY <1>1, <1>5
  <2> QED
    BY <1>2, <1>6, <1>7, <2>1, ToCopyFacts
<1> QED
  BY <1>4, <1>5, <1>8

Shaped(h, ref, S, at, h2) ==
  /\ h2 = [y \in Id |-> h2[y]]
  /\ \A x \in S : h2[x] = [h[x] EXCEPT !.capacity = 0, !.elems = <<>>, !.copy = at[x]]
  /\ \A x \in S :
       h2[at[x]] = [NewObject("copying", h[x].kind,
                              [i \in DOMAIN h[x].elems |-> repoint_to_std_mem_copy(h, at, h[x].elems[i])])
                      EXCEPT !.count = MadeTo(h, ref, at, at[x])]
  /\ \A y \in Id : y \notin S /\ (\A x \in S : at[x] # y) =>
       h2[y] = IF h[y] = FREE THEN FREE ELSE [h[y] EXCEPT !.count = @ + MadeTo(h, ref, at, y)]

\* What copying leaves of what it copied, the copies, and the rest.
LEMMA CopyShape ==
  ASSUME NEW h, NEW ref, NEW S, NEW at, Copying(h, ref, S, at), NEW h2, h2 = copy_obj(h, ref, at).heap
  PROVE  Shaped(h, ref, S, at, h2)
<1>1. S \in SUBSET Id /\ DOMAIN at = S /\ \A x \in S : at[x] \in Id /\ at[x] \notin S
  BY CopyingFacts
<1>2. \A x, y \in S : at[x] = at[y] => x = y
  BY DEF Copying, Targeted
<1>3. ASSUME NEW x \in S
      PROVE  (CHOOSE z \in S : at[z] = at[x]) = x
  BY <1>2
<1>4. h2 = [y \in Id |->
        IF \E x \in S : at[x] = y
        THEN [NewObject("copying", h[CHOOSE x \in S : at[x] = y].kind,
                 [i \in DOMAIN h[CHOOSE x \in S : at[x] = y].elems |->
                    repoint_to_std_mem_copy(h, at, h[CHOOSE x \in S : at[x] = y].elems[i])])
                EXCEPT !.count = MadeTo(h, ref, at, y)]
        ELSE IF y \in S THEN [h[y] EXCEPT !.capacity = 0, !.elems = <<>>, !.copy = at[y]]
        ELSE IF h[y] = FREE THEN FREE
        ELSE [h[y] EXCEPT !.count = @ + MadeTo(h, ref, at, y)]]
  BY <1>1 DEF copy_obj, CountsMade
<1>5. ASSUME NEW x \in S
      PROVE  h2[at[x]] = [NewObject("copying", h[x].kind,
                                     [i \in DOMAIN h[x].elems |-> repoint_to_std_mem_copy(h, at, h[x].elems[i])])
                             EXCEPT !.count = MadeTo(h, ref, at, at[x])]
  <2>1. PICK y \in Id : y = at[x]
    BY <1>1
  <2>2. \E z \in S : at[z] = y
    BY <2>1
  <2>3. (CHOOSE z \in S : at[z] = y) = x
    BY <1>3, <2>1
  <2>4. h2[y] = [NewObject("copying", h[CHOOSE z \in S : at[z] = y].kind,
                 [i \in DOMAIN h[CHOOSE z \in S : at[z] = y].elems |->
                    repoint_to_std_mem_copy(h, at, h[CHOOSE z \in S : at[z] = y].elems[i])])
                EXCEPT !.count = MadeTo(h, ref, at, y)]
    BY <1>4, <2>2
  <2> QED
    BY <2>1, <2>3, <2>4
<1>6. ASSUME NEW x \in S
      PROVE  h2[x] = [h[x] EXCEPT !.capacity = 0, !.elems = <<>>, !.copy = at[x]]
  <2>1. x \in Id /\ ~ \E z \in S : at[z] = x
    BY <1>1
  <2> QED
    BY <1>4, <2>1
<1>7. ASSUME NEW y \in Id, y \notin S, \A x \in S : at[x] # y
      PROVE  h2[y] = IF h[y] = FREE THEN FREE ELSE [h[y] EXCEPT !.count = @ + MadeTo(h, ref, at, y)]
  BY <1>4, <1>7
<1>8. h2 = [y \in Id |-> h2[y]]
  BY <1>4
<1> QED
  BY <1>5, <1>6, <1>7, <1>8 DEF Shaped

\* The original, its copy, and what is neither.
CopiedAs(h, h2, S, at, made) ==
  /\ HeapOK(h2)
  /\ \A x \in S : /\ h2[x] # FREE /\ h2[x].kind = h[x].kind /\ h2[x].mem = "try" /\ h2[x].elems = <<>>
                  /\ h2[x].copy = at[x]
                  /\ h2[at[x]] # FREE /\ h2[at[x]].kind = h[x].kind /\ h2[at[x]].mem = "std"
                  /\ h2[at[x]].elems = [i \in DOMAIN h[x].elems |-> repoint_to_std_mem_copy(h, at, h[x].elems[i])]
                  /\ Len(h2[at[x]].elems) = Len(h[x].elems)
                  /\ h2[at[x]].copy = NONE /\ h2[at[x]].count = made[at[x]]
  /\ \A y \in Id : y \notin S /\ (\A x \in S : at[x] # y) =>
       /\ h[y] = FREE => h2[y] = FREE
       /\ h[y] # FREE => /\ h2[y] # FREE /\ h2[y].kind = h[y].kind /\ h2[y].mem = h[y].mem
                         /\ h2[y].elems = h[y].elems /\ h2[y].copy = h[y].copy
                         /\ h2[y].count = h[y].count + made[y]
\* That is what copying leaves.
LEMMA CopiedFacts ==
  ASSUME NEW h, NEW ref, NEW S, NEW at, Copying(h, ref, S, at), NEW h2, h2 = copy_obj(h, ref, at).heap
  PROVE  CopiedAs(h, h2, S, at, [y \in Id |-> MadeTo(h, ref, at, y)])
<1>1. /\ HeapOK(h) /\ S \in SUBSET Id /\ S \subseteq Objects(h, "try") /\ DOMAIN at = S
      /\ \A x \in S : at[x] \in Id /\ h[at[x]] = FREE /\ h[x] # FREE /\ h[x].copy = NONE /\ at[x] \notin S
      /\ \A r : \/ r = ref
                \/ \E x \in S : \E i \in DOMAIN h[x].elems : r = h[x].elems[i]
                => Usable(h, r) /\ r \in OBJ /\ Visited(h, r) \subseteq S
  BY CopyingFacts
<1>2. /\ h2 = [y \in Id |-> h2[y]]
      /\ \A x \in S : h2[x] = [h[x] EXCEPT !.capacity = 0, !.elems = <<>>, !.copy = at[x]]
      /\ \A x \in S :
           h2[at[x]] = [NewObject("copying", h[x].kind,
                                  [i \in DOMAIN h[x].elems |-> repoint_to_std_mem_copy(h, at, h[x].elems[i])])
                          EXCEPT !.count = MadeTo(h, ref, at, at[x])]
      /\ \A y \in Id : y \notin S /\ (\A x \in S : at[x] # y) =>
           h2[y] = IF h[y] = FREE THEN FREE ELSE [h[y] EXCEPT !.count = @ + MadeTo(h, ref, at, y)]
  <2>1. Shaped(h, ref, S, at, h2)
    BY CopyShape
  <2> QED
    BY ONLY <2>1 DEF Shaped
<1>3. \A y : MadeTo(h, ref, at, y) \in Nat
  BY MadeToFacts
<1>4. ASSUME NEW x \in S
      PROVE  /\ ObjectOK(h2[x]) /\ h2[x] # FREE /\ h2[x].kind = h[x].kind /\ h2[x].mem = "try" /\ h2[x].elems = <<>>
             /\ h2[x].copy = at[x]
  <2>1. PICK o, p, y : o = h[x] /\ p = h2[x] /\ y = at[x]
    OBVIOUS
  <2>2. ObjectOK(o) /\ o.mem = "try" /\ y \in Id
    <3>1. x \in Live(h) /\ h[x].mem = "try"
      BY <1>1 DEF Objects
    <3> QED
      BY <1>1, <2>1, <3>1, LiveFacts
  <2>3. p = [o EXCEPT !.capacity = 0, !.elems = <<>>, !.copy = y]
    BY <1>2, <2>1
  <2>4. o \in Object
    BY <2>2 DEF ObjectOK
  <2>5. p \in Object /\ p.kind = o.kind /\ p.mem = "try" /\ p.elems = <<>> /\ p.copy = y /\ p.capacity = 0
    BY <2>2, <2>3, <2>4, EmptySeq DEF Object
  <2>6. y # NONE
    BY <2>2, InlineAssumption
  <2>7. IsCopied(p)
    BY <2>5 DEF IsCopied
  <2>8. ObjectOK(p)
    <3>1. Len(p.elems) = 0 /\ Len(p.elems) <= Largest /\ 0 <= Largest
      BY <2>5, EmptySeq, LargestFacts
    <3> QED
      BY <2>5, <2>6, <2>7, <3>1 DEF ObjectOK
  <2> QED
    BY <2>1, <2>5, <2>8, LiveFacts DEF ObjectOK
<1>5. ASSUME NEW x \in S
      PROVE  /\ ObjectOK(h2[at[x]]) /\ h2[at[x]] # FREE /\ h2[at[x]].kind = h[x].kind /\ h2[at[x]].mem = "std"
             /\ h2[at[x]].elems = [i \in DOMAIN h[x].elems |-> repoint_to_std_mem_copy(h, at, h[x].elems[i])]
             /\ Len(h2[at[x]].elems) = Len(h[x].elems)
             /\ h2[at[x]].copy = NONE /\ h2[at[x]].count = MadeTo(h, ref, at, at[x])
  <2>1. PICK o, p, y, n, es : /\ o = h[x] /\ p = h2[at[x]] /\ y = at[x] /\ n = MadeTo(h, ref, at, at[x])
                              /\ es = [i \in DOMAIN h[x].elems |-> repoint_to_std_mem_copy(h, at, h[x].elems[i])]
    OBVIOUS
  <2>2. p = [NewObject("copying", o.kind, es) EXCEPT !.count = n]
    BY <1>2, <2>1
  <2>3. n \in Nat \ {0}
    <3>1. n > 0
      BY <2>1, MadeToFacts
    <3> QED
      BY <1>3, <2>1, <3>1
  <2>4. x \in Live(h) /\ ObjectOK(o)
    <3>1. x \in Live(h)
      BY <1>1 DEF Objects
    <3> QED
      BY <1>1, <2>1, <3>1, LiveFacts
  <2>5. es \in Seq(OBJ) /\ Len(es) = Len(o.elems) /\ Len(es) \in Nat
    <3>1. DOMAIN o.elems = 1 .. Len(o.elems) /\ Len(o.elems) \in Nat /\ x \in Id
      BY <1>1, <2>1, HeapFacts
    <3>2. ASSUME NEW i \in DOMAIN o.elems
          PROVE  repoint_to_std_mem_copy(h, at, h[x].elems[i]) \in OBJ
      <4>1. PICK r : r = h[x].elems[i]
        OBVIOUS
      <4>2. Usable(h, r) /\ Visited(h, r) \subseteq S
        BY <1>1, <2>1, <3>2, <4>1
      <4>3. Copyable(h, ref) /\ S = ToCopy(h, ref) /\ Targeted(h, S, at)
        BY DEF Copying
      <4>4. repoint_to_std_mem_copy(h, at, r) \in OBJ
        BY <4>2, <4>3, ImageFacts
      <4> QED
        BY <4>1, <4>4
    <3>3. PICK k \in Nat : k = Len(o.elems)
      BY <3>1
    <3>4. es \in [1 .. k -> OBJ]
      BY <2>1, <3>1, <3>2, <3>3
    <3> QED
      BY <3>3, <3>4, SeqDef, LenProperties
  <2>6. PICK cap : cap = IF o.kind = "seq" THEN seq_capacity(Len(es)) ELSE 0
    OBVIOUS
  <2>7. p = [kind |-> o.kind, mem |-> "std", count |-> n, capacity |-> cap, elems |-> es, copy |-> NONE]
    BY <2>2, <2>6 DEF NewObject, CurrMemory
  <2>8. /\ p.kind = o.kind /\ p.mem = "std" /\ p.count = n /\ p.capacity = cap /\ p.elems = es /\ p.copy = NONE
    BY <2>7
  <2>9. Len(es) <= Largest
    BY <2>4, <2>5 DEF ObjectOK
  <2>10. cap \in Nat /\ (o.kind = "seq" => cap <= Largest /\ Len(es) <= cap /\ cap >= 1)
    BY <2>5, <2>6, <2>9, LargestFacts
  <2>11. p \in Object
    BY <2>3, <2>4, <2>5, <2>7, <2>10 DEF ObjectOK, Object, Memory
  <2>12. ~ IsCopied(p)
    <3>1. CASE o.kind = "seq"
      BY <2>8, <2>10, <3>1 DEF IsCopied
    <3>2. CASE o.kind # "seq"
      <4>1. o.elems # <<>>
        <5>1. o.copy = NONE
          BY <1>1, <2>1
        <5> QED
          BY <2>4, <3>2, <5>1 DEF ObjectOK, IsCopied
      <4>2. Len(o.elems) # 0
        BY <2>4, <4>1, EmptySeq DEF ObjectOK, Object
      <4>3. es # <<>>
        BY <2>5, <4>2, EmptySeq
      <4> QED
        BY <2>8, <3>2, <4>3 DEF IsCopied
    <3> QED
      BY <3>1, <3>2
  <2>13. ObjectOK(p)
    BY <2>8, <2>9, <2>10, <2>11, <2>12 DEF ObjectOK
  <2>14. p # FREE
    BY <2>11, LiveFacts
  <2> QED
    BY <2>1, <2>5, <2>8, <2>13, <2>14
<1>6. ASSUME NEW y \in Id, y \notin S, \A x \in S : at[x] # y
      PROVE  /\ h[y] = FREE => h2[y] = FREE
             /\ h[y] # FREE => /\ ObjectOK(h2[y]) /\ h2[y] # FREE /\ h2[y].kind = h[y].kind /\ h2[y].mem = h[y].mem
                               /\ h2[y].elems = h[y].elems /\ h2[y].copy = h[y].copy
                               /\ h2[y].count = h[y].count + MadeTo(h, ref, at, y)
  <2>1. h2[y] = IF h[y] = FREE THEN FREE ELSE [h[y] EXCEPT !.count = @ + MadeTo(h, ref, at, y)]
    BY <1>2, <1>6
  <2>2. CASE h[y] = FREE
    BY <2>1, <2>2
  <2>3. CASE h[y] # FREE
    <3>1. PICK o, p, n : o = h[y] /\ p = h2[y] /\ n = MadeTo(h, ref, at, y)
      OBVIOUS
    <3>2. p = [o EXCEPT !.count = @ + n] /\ n \in Nat
      BY <1>3, <2>1, <2>3, <3>1
    <3>3. ObjectOK(o)
      BY <1>1, <2>3, <3>1, LiveFacts DEF Live
    <3>4. o \in Object /\ o.count \in Nat \ {0}
      BY <3>3 DEF ObjectOK, Object
    <3>5. PICK k \in Nat \ {0} : k = o.count + n
      BY <3>2, <3>4
    <3>6. p = [o EXCEPT !.count = k]
      BY <3>2, <3>5
    <3>7. /\ p \in Object /\ p.kind = o.kind /\ p.mem = o.mem /\ p.elems = o.elems /\ p.copy = o.copy
          /\ p.capacity = o.capacity /\ p.count = k
      BY <3>4, <3>6 DEF Object
    <3>8. IsCopied(p) <=> IsCopied(o)
      BY <3>7 DEF IsCopied
    <3>9. ObjectOK(p)
      BY <3>3, <3>7, <3>8 DEF ObjectOK
    <3> QED
      BY <2>3, <3>1, <3>5, <3>7, <3>9, LiveFacts
  <2> QED
    BY <2>2, <2>3
<1>7. HeapOK(h2)
  <2>1. ASSUME NEW y \in Id
        PROVE  h2[y] = FREE \/ ObjectOK(h2[y])
    BY <1>1, <1>4, <1>5, <1>6
  <2> QED
    BY <1>2, <2>1 DEF HeapOK
<1>8. PICK made : made = [y \in Id |-> MadeTo(h, ref, at, y)]
  OBVIOUS
<1>9. \A y \in Id : made[y] = MadeTo(h, ref, at, y)
  BY <1>8
<1>10. \A x \in S : h2[at[x]].count = made[at[x]]
  BY <1>1, <1>5, <1>9
<1>11. \A y \in Id : y \notin S /\ (\A x \in S : at[x] # y) =>
       /\ h[y] = FREE => h2[y] = FREE
       /\ h[y] # FREE => /\ h2[y] # FREE /\ h2[y].kind = h[y].kind /\ h2[y].mem = h[y].mem
                         /\ h2[y].elems = h[y].elems /\ h2[y].copy = h[y].copy
                         /\ h2[y].count = h[y].count + made[y]
  BY <1>6, <1>9
<1>12. CopiedAs(h, h2, S, at, made)
  BY <1>4, <1>5, <1>7, <1>10, <1>11 DEF CopiedAs
<1> QED
  BY <1>8, <1>12

\* The references in the copies are those that copying made in them.
LEMMA CopiesPlaces ==
  ASSUME NEW h, NEW ref, NEW S, NEW at, Copying(h, ref, S, at), NEW h2, NEW made, CopiedAs(h, h2, S, at, made),
         NEW N, N = {at[x] : x \in S}, NEW y
  PROVE  Cardinality(Places(h2, "std", N, y)) = Cardinality(Copies(h, S, at, y))
<1>1. PICK P, Q, f : /\ P = Copies(h, S, at, y) /\ Q = Places(h2, "std", N, y)
                     /\ f = [p \in P |-> <<at[p[1]], p[2]>>]
  OBVIOUS
<1>2. \A x \in S : h2[at[x]].elems = [i \in DOMAIN h[x].elems |-> repoint_to_std_mem_copy(h, at, h[x].elems[i])]
  BY DEF CopiedAs
<1>3. \A x, z \in S : at[x] = at[z] => x = z
  BY DEF Copying, Targeted
<1>4. \A p : p \in P <=> /\ p \in S \X Slot /\ p[2] \in DOMAIN h[p[1]].elems
                         /\ Refers("std", repoint_to_std_mem_copy(h, at, h[p[1]].elems[p[2]]), y)
  BY <1>1 DEF Copies
<1>5. \A p : p \in Q <=> /\ p \in N \X Slot /\ p[2] \in DOMAIN h2[p[1]].elems
                         /\ Refers("std", h2[p[1]].elems[p[2]], y)
  BY <1>1 DEF Places
<1>6. ASSUME NEW x \in S, NEW i \in Slot
      PROVE  <<x, i>> \in P <=> <<at[x], i>> \in Q
  <2>1. <<x, i>> \in S \X Slot /\ <<at[x], i>> \in N \X Slot
    OBVIOUS
  <2>2. PICK es, cs : es = h[x].elems /\ cs = h2[at[x]].elems
    OBVIOUS
  <2>3. cs = [j \in DOMAIN es |-> repoint_to_std_mem_copy(h, at, es[j])]
    BY <1>2, <2>2
  <2>4. <<x, i>> \in P <=> i \in DOMAIN es /\ Refers("std", repoint_to_std_mem_copy(h, at, es[i]), y)
    BY <1>4, <2>1, <2>2
  <2>5. <<at[x], i>> \in Q <=> i \in DOMAIN cs /\ Refers("std", cs[i], y)
    BY <1>5, <2>1, <2>2
  <2> QED
    BY <2>3, <2>4, <2>5
<1>7. f \in Bijection(P, Q)
  <2>1. \A p \in P : p[1] \in S /\ p[2] \in Slot /\ p = <<p[1], p[2]>>
    BY <1>4
  <2>2. f \in [P -> Q]
    BY <1>1, <1>6, <2>1
  <2>3. \A p, q \in P : f[p] = f[q] => p = q
    BY <1>1, <1>3, <2>1
  <2>4. ASSUME NEW q \in Q
        PROVE  \E p \in P : f[p] = q
    <3>1. q[1] \in N /\ q[2] \in Slot /\ q = <<q[1], q[2]>>
      BY <1>5
    <3>2. PICK x \in S : at[x] = q[1]
      BY <3>1
    <3>3. PICK i \in Slot : i = q[2]
      BY <3>1
    <3>4. q = <<at[x], i>>
      BY <3>1, <3>2, <3>3
    <3>5. <<x, i>> \in P
      BY <1>6, <3>4
    <3>6. f[<<x, i>>] = q
      BY <1>1, <3>4, <3>5
    <3> QED
      BY <3>5, <3>6
  <2> QED
    BY <2>2, <2>3, <2>4 DEF Bijection, Injection, Surjection, IsInjective
<1>8. IsFiniteSet(P)
  BY <1>1, MadeToFacts
<1>9. Cardinality(P) = Cardinality(Q)
  BY <1>7, <1>8, FS_Bijection DEF ExistsBijection
<1> QED
  BY <1>1, <1>9

\* What was usable stays so, and the references that are made can be used.
LEMMA CopyUsable ==
  ASSUME NEW h, NEW ref, NEW S, NEW at, Copying(h, ref, S, at), NEW h2, NEW made, CopiedAs(h, h2, S, at, made),
         NEW r, Usable(h, r)
  PROVE  /\ Usable(h2, r)
         /\ Visited(h, r) \subseteq S => /\ Usable(h2, repoint_to_std_mem_copy(h, at, r))
                                         /\ InStd(repoint_to_std_mem_copy(h, at, r))
<1>1. /\ HeapOK(h) /\ S \in SUBSET Id /\ S \subseteq Objects(h, "try") /\ DOMAIN at = S
      /\ \A x \in S : at[x] \in Id /\ h[at[x]] = FREE /\ h[x] # FREE /\ h[x].copy = NONE /\ at[x] \notin S
  BY CopyingFacts
<1>2. /\ \A x \in S : /\ h2[x] # FREE /\ h2[x].mem = "try" /\ h2[x].copy = at[x]
                      /\ h2[at[x]] # FREE /\ h2[at[x]].mem = "std" /\ h2[at[x]].copy = NONE
                      /\ Len(h2[at[x]].elems) = Len(h[x].elems)
      /\ \A y \in Id : y \notin S /\ (\A x \in S : at[x] # y) /\ h[y] # FREE =>
             /\ h2[y] # FREE /\ h2[y].mem = h[y].mem /\ h2[y].elems = h[y].elems /\ h2[y].copy = h[y].copy
  BY DEF CopiedAs
<1>3. Copyable(h, ref) /\ S = ToCopy(h, ref) /\ Targeted(h, S, at) /\ CopiesOK(h)
  BY DEF Copying, Copyable
<1>4. CASE r \in Inline
  <2>1. repoint_to_std_mem_copy(h, at, r) = r
    BY <1>4 DEF repoint_to_std_mem_copy
  <2> QED
    BY <1>4, <2>1 DEF Usable, InStd
<1>5. CASE r \notin Inline
  <2>1. PICK y, hm : y = r.obj /\ hm = Home(h, y)
    OBVIOUS
  <2>2. /\ r \in Ref /\ y \in Id /\ h[y] # FREE /\ r.mem = h[y].mem /\ r.len <= MAX_LENGTH
        /\ r.off + r.len <= Len(h[hm].elems)
    BY <1>5, <2>1 DEF Usable, Ref
  <2>3. h[y].copy # NONE => /\ hm = h[y].copy /\ hm \in Id /\ h[hm] # FREE /\ h[hm].mem = "std" /\ h[y].mem = "try"
                            /\ y \notin S /\ h[hm].copy = NONE
    <3>1. y \in Live(h)
      BY <2>2 DEF Live
    <3>2. h[y].copy # NONE => h[y].copy \in Live(h) /\ h[h[y].copy].mem = "std"
      BY <1>3, <3>1 DEF CopiesOK, Objects
    <3>3. h[y].copy # NONE => h[y].mem = "try"
      BY <1>1, <3>1, LiveFacts DEF ObjectOK
    <3>4. h[y].copy # NONE => h[h[y].copy].copy = NONE
      BY <1>1, <3>2, LiveFacts DEF ObjectOK
    <3>5. h[y].copy # NONE => y \notin S /\ hm = h[y].copy
      BY <1>1, <2>1 DEF Home
    <3> QED
      BY <3>2, <3>3, <3>4, <3>5 DEF Live
  <2>4. h[y].copy = NONE => hm = y
    BY <2>1 DEF Home
  <2>5. \A x \in S : at[x] # y
    BY <1>1, <2>2
  <2>6. h2[y] # FREE /\ h2[y].mem = h[y].mem
    <3>1. CASE y \in S
      <4>1. h[y].mem = "try"
        BY <1>1, <3>1 DEF Objects
      <4> QED
        BY <1>2, <3>1, <4>1
    <3>2. CASE y \notin S
      BY <1>2, <2>2, <2>5, <3>2
    <3> QED
      BY <3>1, <3>2
  <2>7. h[y].copy # NONE => /\ h2[hm] # FREE /\ h2[hm].mem = "std" /\ h2[hm].elems = h[hm].elems /\ h2[hm].copy = NONE
                            /\ Home(h2, y) = hm
    <3>1. ASSUME h[y].copy # NONE
          PROVE  hm \notin S /\ (\A x \in S : at[x] # hm) /\ y \notin S
      <4>1. hm \notin S
        BY <1>1, <2>3, <3>1 DEF Objects
      <4> QED
        BY <1>1, <2>3, <3>1, <4>1
    <3>2. ASSUME h[y].copy # NONE
          PROVE  h2[y].copy = hm
      BY <1>2, <2>2, <2>3, <2>5, <3>1, <3>2
    <3>3. hm # NONE
      BY <2>3, <2>4, <2>2, InlineAssumption
    <3> QED
      BY <1>2, <2>3, <3>1, <3>2, <3>3 DEF Home
  <2>8. h[y].copy = NONE /\ y \in S => Home(h2, y) = at[y] /\ Len(h2[at[y]].elems) = Len(h[y].elems)
    <3>1. ASSUME y \in S
          PROVE  at[y] # NONE
      BY <1>1, <3>1, InlineAssumption
    <3> QED
      BY <1>2, <3>1 DEF Home
  <2>9. h[y].copy = NONE /\ y \notin S => Home(h2, y) = y /\ h2[y].elems = h[y].elems
    BY <1>2, <2>2, <2>5 DEF Home
  <2>10. Len(h2[Home(h2, y)].elems) = Len(h[hm].elems)
    BY <2>4, <2>7, <2>8, <2>9
  <2>11. Usable(h2, r)
    BY <2>1, <2>2, <2>6, <2>10 DEF Usable
  <2>12. ASSUME Visited(h, r) \subseteq S
         PROVE  /\ Usable(h2, repoint_to_std_mem_copy(h, at, r))
                /\ InStd(repoint_to_std_mem_copy(h, at, r))
    <3>1. PICK q : q = repoint_to_std_mem_copy(h, at, r)
      OBVIOUS
    <3>2. /\ q \in OBJ /\ InStd(q)
          /\ r.mem = "std" => q = r
          /\ q \notin Inline /\ q \in Ref /\ q.off = r.off /\ q.len = r.len /\ q.mem = "std"
          /\ r.mem # "std" /\ r.obj \notin S => h[r.obj].copy # NONE /\ q.obj = h[r.obj].copy
          /\ r.mem # "std" /\ r.obj \in S => q.obj = at[r.obj]
      BY <1>3, <1>5, <2>12, <3>1, ImageFacts
    <3>3. CASE r.mem = "std"
      BY <2>11, <3>1, <3>2, <3>3
    <3>4. CASE r.mem # "std" /\ y \notin S
      <4>1. q.obj = hm /\ h[y].copy # NONE
        BY <2>1, <2>3, <3>2, <3>4
      <4>2. Home(h2, hm) = hm
        BY <2>7, <4>1 DEF Home
      <4> QED
        BY <2>2, <2>7, <3>1, <3>2, <4>1, <4>2 DEF Usable
    <3>5. CASE r.mem # "std" /\ y \in S
      <4>1. q.obj = at[y] /\ h[y].copy = NONE /\ hm = y
        BY <1>1, <2>1, <2>4, <3>2, <3>5
      <4>2. Home(h2, at[y]) = at[y]
        BY <1>2, <3>5 DEF Home
      <4>3. h2[at[y]] # FREE /\ h2[at[y]].mem = "std" /\ Len(h2[at[y]].elems) = Len(h[y].elems)
        BY <1>2, <3>5
      <4> QED
        BY <2>2, <3>1, <3>2, <4>1, <4>2, <4>3 DEF Usable
    <3> QED
      BY <3>3, <3>4, <3>5
  <2> QED
    BY <2>11, <2>12
<1> QED
  BY <1>4, <1>5

Sorted(h, h2, S, N, made) ==
  /\ Objects(h2, "std") = Objects(h, "std") \cup N
  /\ Objects(h2, "try") = Objects(h, "try")
  /\ Objects(h, "std") \cap N = {} /\ N \in SUBSET Id /\ \A y \in N : h[y] = FREE
  /\ \A y \in Live(h) : y \notin S => /\ h2[y].elems = h[y].elems /\ h2[y].copy = h[y].copy /\ h2[y].kind = h[y].kind
                                      /\ h2[y].count = h[y].count + made[y] /\ h2[y] # FREE
\* Of the objects, each is what it was, or a copy in standard memory.
LEMMA CopyObjects ==
  ASSUME NEW h, NEW ref, NEW S, NEW at, Copying(h, ref, S, at), NEW h2, NEW made, CopiedAs(h, h2, S, at, made),
         NEW N, N = {at[x] : x \in S}
  PROVE  Sorted(h, h2, S, N, made)
<1>1. /\ HeapOK(h) /\ S \in SUBSET Id /\ S \subseteq Objects(h, "try")
      /\ \A x \in S : at[x] \in Id /\ h[at[x]] = FREE /\ h[x] # FREE /\ h[x].copy = NONE /\ at[x] \notin S
  BY CopyingFacts
<1>2. /\ \A x \in S : h2[x] # FREE /\ h2[x].mem = "try" /\ h2[at[x]] # FREE /\ h2[at[x]].mem = "std"
      /\ \A y \in Id : y \notin S /\ (\A x \in S : at[x] # y) =>
           /\ h[y] = FREE => h2[y] = FREE
           /\ h[y] # FREE => /\ h2[y] # FREE /\ h2[y].kind = h[y].kind /\ h2[y].mem = h[y].mem
                             /\ h2[y].elems = h[y].elems /\ h2[y].copy = h[y].copy
                             /\ h2[y].count = h[y].count + made[y]
  BY DEF CopiedAs
<1>3. \A m, y : /\ y \in Objects(h, m) <=> y \in Id /\ h[y] # FREE /\ h[y].mem = m
                /\ y \in Objects(h2, m) <=> y \in Id /\ h2[y] # FREE /\ h2[y].mem = m
  BY DEF Objects, Live
<1>4. N \in SUBSET Id /\ \A y : y \in N <=> \E x \in S : at[x] = y
  BY <1>1
<1>5. \A y \in N : h[y] = FREE /\ h2[y] # FREE /\ h2[y].mem = "std"
  BY <1>1, <1>2, <1>4
<1>6. \A y \in Id : y \notin N => (y \in Objects(h2, "std") <=> y \in Objects(h, "std"))
  <2>1. \A y \in S : h[y].mem = "try"
    BY <1>1 DEF Objects
  <2> QED
    BY <1>2, <1>3, <1>4, <2>1
<1>7. \A y \in Id : y \in Objects(h2, "try") <=> y \in Objects(h, "try")
  <2>1. ASSUME NEW y \in Id
        PROVE  y \in Objects(h2, "try") <=> y \in Objects(h, "try")
    <3>1. CASE y \in S
      <4>1. y \in Objects(h, "try") /\ h2[y] # FREE /\ h2[y].mem = "try"
        BY <1>1, <1>2, <3>1
      <4> QED
        BY <1>3, <4>1
    <3>2. CASE y \in N
      BY <1>3, <1>5, <3>2
    <3>3. CASE y \notin S /\ y \notin N
      BY <1>2, <1>3, <1>4, <3>3
    <3> QED
      BY <3>1, <3>2, <3>3
  <2> QED
    BY <2>1
<1>8. Objects(h2, "std") = Objects(h, "std") \cup N
  <2>1. \A y : y \in Objects(h2, "std") <=> y \in Objects(h, "std") \cup N
    BY <1>3, <1>4, <1>5, <1>6
  <2> QED
    BY <2>1
<1>9. Objects(h2, "try") = Objects(h, "try")
  BY <1>3, <1>7
<1>10. Objects(h, "std") \cap N = {}
  BY <1>3, <1>5
<1>11. \A y \in Live(h) : y \notin S => y \in Id /\ h[y] # FREE /\ \A x \in S : at[x] # y
  BY <1>1 DEF Live
<1> QED
  BY <1>2, <1>4, <1>5, <1>8, <1>9, <1>10, <1>11 DEF Sorted

\* Copying leaves a heap where the copy can be used as the original could, and
\* where standard memory counts what refers to it.
Settled(h, h2, q) ==
  /\ HeapOK(h2) /\ CopiesOK(h2) /\ Closed(h2, "std") /\ Closed(h2, "try")
  /\ Usable(h2, q) /\ InStd(q)
  /\ \A r : Usable(h, r) => Usable(h2, r)
  /\ NoCopies(h2) => /\ NoCopies(h)
                     /\ \A ext : Balanced(h, "try", ext) => Balanced(h2, "try", ext)
  /\ \A ext \in [Id -> Nat] :
       /\ \A x \in Id : ext[x] > 0 => x \in Live(h)
       /\ Balanced(h, "std", ext)
       => Balanced(h2, "std", [x \in Id |-> ext[x] + One("std", q, x)])

\* The counts of standard objects are right, the references copied among them.
LEMMA CopyBalanced ==
  ASSUME NEW h, NEW ref, NEW S, NEW at, Copying(h, ref, S, at), NEW h2, NEW made, CopiedAs(h, h2, S, at, made),
         \A y \in Id : made[y] = MadeTo(h, ref, at, y),
         NEW q, q = repoint_to_std_mem_copy(h, at, ref),
         NEW ext \in [Id -> Nat], \A x \in Id : ext[x] > 0 => x \in Live(h), Balanced(h, "std", ext)
  PROVE  Balanced(h2, "std", [x \in Id |-> ext[x] + One("std", q, x)])
<1>0. PICK N : N = {at[x] : x \in S}
  OBVIOUS
<1>1. PICK Ob : Ob = Objects(h, "std")
  OBVIOUS
<1>2. /\ Objects(h2, "std") = Ob \cup N /\ Ob \cap N = {} /\ N \in SUBSET Id /\ \A y \in N : h[y] = FREE
      /\ \A y \in Live(h) : y \notin S => h2[y].elems = h[y].elems /\ h2[y].count = h[y].count + made[y]
  <2>1. Sorted(h, h2, S, N, made)
    BY <1>0, CopyObjects
  <2>2. /\ Objects(h2, "std") = Objects(h, "std") \cup N /\ Objects(h, "std") \cap N = {} /\ N \in SUBSET Id
        /\ \A y \in N : h[y] = FREE
        /\ \A y \in Live(h) : y \notin S => h2[y].elems = h[y].elems /\ h2[y].count = h[y].count + made[y]
    BY ONLY <2>1 DEF Sorted
  <2> QED
    BY <1>1, <2>2
<1>3. HeapOK(h) /\ S \subseteq Objects(h, "try") /\ Copyable(h, ref) /\ S \in SUBSET Id
  BY CopyingFacts DEF Copying
<1>4. Ob \in SUBSET Id /\ \A y \in Ob : y \in Live(h) /\ y \notin S
  <2>1. \A y \in S : h[y].mem = "try"
    BY <1>3 DEF Objects
  <2> QED
    BY <1>1, <2>1 DEF Objects, Live
<1>5. ASSUME NEW z \in Objects(h2, "std")
      PROVE  h2[z].count = ext[z] + One("std", q, z) + Within(h2, "std", z)
  <2>1. z \in Id /\ ext[z] \in Nat
    <3>1. z \in Id
      BY DEF Objects, Live
    <3> QED
      BY <3>1
  <2>2. PICK w, c, o, e : w = Within(h, "std", z) /\ c = Cardinality(Copies(h, S, at, z)) /\ o = One("std", q, z) /\ e = ext[z]
    OBVIOUS
  <2>3. w \in Nat /\ c \in Nat /\ o \in Nat /\ e \in Nat
    <3>1. w \in Nat
      BY <1>1, <1>4, <2>2, PlacesFacts DEF Within
    <3>2. c \in Nat
      <4>1. IsFiniteSet(Copies(h, S, at, z))
        BY MadeToFacts
      <4> QED
        BY <2>2, <4>1, FS_CardinalityType
    <3> QED
      BY <2>1, <2>2, <3>1, <3>2 DEF One
  <2>4. made[z] = o + c
    <3>1. MadeTo(h, ref, at, z) = One("std", q, z) + Cardinality(Copies(h, S, at, z))
      BY MadeToFacts
    <3> QED
      BY <2>1, <2>2, <3>1
  <2>5. Within(h2, "std", z) = w + c
    <3>1. Within(h2, "std", z) = Cardinality(Places(h2, "std", Ob \cup N, z))
      BY <1>2 DEF Within
    <3>2. Cardinality(Places(h2, "std", Ob \cup N, z)) = Cardinality(Places(h2, "std", Ob, z)) + Cardinality(Places(h2, "std", N, z))
      BY <1>2, <1>4, PlacesFacts
    <3>3. Places(h2, "std", Ob, z) = Places(h, "std", Ob, z)
      <4>1. \A x \in Ob : h2[x].elems = h[x].elems
        BY <1>2, <1>4
      <4> QED
        BY <4>1, SamePlaces
    <3>4. Cardinality(Places(h2, "std", N, z)) = c
      BY <1>0, <2>2, CopiesPlaces
    <3> QED
      BY <1>1, <2>2, <3>1, <3>2, <3>3, <3>4 DEF Within
  <2>6. CASE z \in Ob
    <3>1. h2[z].count = h[z].count + made[z]
      BY <1>2, <1>4, <2>6
    <3>2. h[z].count = e + w
      BY <1>1, <2>2, <2>6 DEF Balanced
    <3> QED
      BY <2>2, <2>3, <2>4, <2>5, <3>1, <3>2
  <2>7. CASE z \in N
    <3>1. h2[z].count = made[z]
      <4>1. PICK x \in S : z = at[x]
        BY <1>0, <2>7
      <4>2. h2[at[x]].count = made[at[x]]
        BY DEF CopiedAs
      <4> QED
        BY <4>1, <4>2
    <3>2. e = 0
      <4>1. z \notin Live(h)
        BY <1>2, <2>7 DEF Live
      <4> QED
        BY <2>1, <2>2, <2>3, <4>1
    <3>3. w = 0
      <4>1. Alive(h, "std", Objects(h, "std"))
        <5>1. \A x \in Objects(h, "std") : \A i \in DOMAIN h[x].elems : Usable(h, h[x].elems[i])
          BY <1>3 DEF Copyable, Closed
        <5> QED
          BY <1>3, <5>1, UsableAlive
      <4>2. z \notin Objects(h, "std")
        BY <1>2, <2>7 DEF Objects, Live
      <4>3. Places(h, "std", Objects(h, "std"), z) = {}
        BY <4>1, <4>2 DEF Places, Alive
      <4> QED
        BY <2>2, <4>3, FS_EmptySet DEF Within
    <3> QED
      BY <2>2, <2>3, <2>4, <2>5, <3>1, <3>2, <3>3
  <2> QED
    BY <1>2, <2>6, <2>7
<1>6. \A z \in Objects(h2, "std") : z \in Id
  BY DEF Objects, Live
<1> QED
  BY <1>5, <1>6 DEF Balanced

\* What copying a reference leaves of the heap.
LEMMA CopyFacts ==
  ASSUME NEW h, NEW ref, NEW S, NEW at, Copying(h, ref, S, at), NEW h2, h2 = copy_obj(h, ref, at).heap,
         NEW q, q = copy_obj(h, ref, at).ref
  PROVE  Settled(h, h2, q)
<1>1. PICK N : N = {at[x] : x \in S}
  OBVIOUS
<1>2. PICK made : CopiedAs(h, h2, S, at, made) /\ \A y \in Id : made[y] = MadeTo(h, ref, at, y)
  <2>1. PICK made : made = [y \in Id |-> MadeTo(h, ref, at, y)]
    OBVIOUS
  <2>2. CopiedAs(h, h2, S, at, [y \in Id |-> MadeTo(h, ref, at, y)])
    BY CopiedFacts
  <2>3. CopiedAs(h, h2, S, at, made)
    BY <2>1, <2>2
  <2>4. \A y \in Id : made[y] = MadeTo(h, ref, at, y)
    BY <2>1
  <2> QED
    BY <2>3, <2>4
<1>3. q = repoint_to_std_mem_copy(h, at, ref)
  BY DEF copy_obj
<1>4. /\ HeapOK(h) /\ S \in SUBSET Id /\ S \subseteq Objects(h, "try")
      /\ \A x \in S : at[x] \in Id
      /\ \A r : \/ r = ref
                \/ \E x \in S : \E i \in DOMAIN h[x].elems : r = h[x].elems[i]
                => Usable(h, r) /\ r \in OBJ /\ Visited(h, r) \subseteq S
  BY CopyingFacts
<1>5. /\ Objects(h2, "std") = Objects(h, "std") \cup N
      /\ Objects(h2, "try") = Objects(h, "try")
      /\ \A y \in Live(h) : y \notin S => /\ h2[y].elems = h[y].elems /\ h2[y].copy = h[y].copy /\ h2[y].kind = h[y].kind
                                          /\ h2[y].count = h[y].count + made[y] /\ h2[y] # FREE
  <2>1. Sorted(h, h2, S, N, made)
    BY <1>1, <1>2, CopyObjects
  <2> QED
    BY ONLY <2>1 DEF Sorted
<1>6. Copyable(h, ref)
  BY DEF Copying
<1>7. \A r : Usable(h, r) =>
        /\ Usable(h2, r)
        /\ Visited(h, r) \subseteq S => /\ Usable(h2, repoint_to_std_mem_copy(h, at, r))
                                        /\ InStd(repoint_to_std_mem_copy(h, at, r))
  BY <1>2, CopyUsable
<1>8. HeapOK(h2)
  BY <1>2 DEF CopiedAs
<1>9. Usable(h2, q) /\ InStd(q)
  BY <1>3, <1>4, <1>7
<1>10. \A y \in Objects(h, "std") : y \in Live(h) /\ y \notin S
  BY <1>4 DEF Objects
<1>11. Closed(h2, "std")
  <2>1. ASSUME NEW y \in Objects(h, "std"), NEW i \in DOMAIN h2[y].elems
        PROVE  Usable(h2, h2[y].elems[i]) /\ InStd(h2[y].elems[i])
    <3>1. h2[y].elems = h[y].elems
      BY <1>5, <1>10
    <3>2. Usable(h, h[y].elems[i]) /\ InStd(h[y].elems[i])
      BY <1>6, <2>1, <3>1 DEF Copyable, Closed
    <3> QED
      BY <1>7, <3>1, <3>2
  <2>2. ASSUME NEW x \in S, NEW i \in DOMAIN h2[at[x]].elems
        PROVE  Usable(h2, h2[at[x]].elems[i]) /\ InStd(h2[at[x]].elems[i])
    <3>1. h2[at[x]].elems = [j \in DOMAIN h[x].elems |-> repoint_to_std_mem_copy(h, at, h[x].elems[j])]
      BY <1>2 DEF CopiedAs
    <3>2. PICK r : r = h[x].elems[i]
      OBVIOUS
    <3>3. i \in DOMAIN h[x].elems /\ h2[at[x]].elems[i] = repoint_to_std_mem_copy(h, at, r)
      BY <2>2, <3>1, <3>2
    <3>4. Usable(h, r) /\ Visited(h, r) \subseteq S
      BY <1>4, <3>2, <3>3
    <3> QED
      BY <1>7, <3>3, <3>4
  <2>3. ASSUME NEW y \in Objects(h2, "std"), NEW i \in DOMAIN h2[y].elems
        PROVE  Usable(h2, h2[y].elems[i]) /\ InStd(h2[y].elems[i])
    <3>1. CASE y \in N
      <4>1. PICK x \in S : y = at[x]
        BY <1>1, <3>1
      <4> QED
        BY <2>2, <2>3, <4>1
    <3>2. CASE y \in Objects(h, "std")
      BY <2>1, <2>3, <3>2
    <3> QED
      BY <1>5, <3>1, <3>2
  <2> QED
    BY <2>3 DEF Closed
<1>12. Closed(h2, "try")
  <2>1. ASSUME NEW y \in Objects(h2, "try"), NEW i \in DOMAIN h2[y].elems
        PROVE  Usable(h2, h2[y].elems[i])
    <3>1. y \notin S
      <4>1. y \in S => h2[y].elems = <<>>
        BY <1>2 DEF CopiedAs
      <4> QED
        BY <2>1, <4>1
    <3>2. y \in Objects(h, "try") /\ y \in Live(h)
      BY <1>5 DEF Objects
    <3>3. h2[y].elems = h[y].elems
      BY <1>5, <3>1, <3>2
    <3>4. Usable(h, h[y].elems[i])
      BY <1>6, <2>1, <3>2, <3>3 DEF Copyable, Closed
    <3> QED
      BY <1>7, <3>3, <3>4
  <2> QED
    BY <2>1 DEF Closed
<1>13. CopiesOK(h2)
  <2>1. ASSUME NEW x \in Live(h2), h2[x].copy # NONE
        PROVE  h2[x].copy \in Objects(h2, "std") /\ h2[h2[x].copy].kind = h2[x].kind
    <3>1. CASE x \in S
      <4>1. h2[x].copy = at[x] /\ h2[x].kind = h[x].kind /\ h2[at[x]].kind = h[x].kind /\ at[x] \in N
        BY <1>1, <1>2, <3>1 DEF CopiedAs
      <4> QED
        BY <1>5, <4>1
    <3>2. CASE x \notin S
      <4>1. x \in Objects(h2, "try")
        <5>1. h2[x].mem = "try"
          BY <1>8, <2>1, LiveFacts DEF ObjectOK
        <5> QED
          BY <5>1 DEF Objects
      <4>2. x \in Live(h)
        BY <1>5, <4>1 DEF Objects
      <4>3. h2[x].copy = h[x].copy /\ h2[x].kind = h[x].kind
        BY <1>5, <3>2, <4>2
      <4>4. h[x].copy \in Objects(h, "std") /\ h[h[x].copy].kind = h[x].kind
        BY <1>6, <2>1, <4>2, <4>3 DEF Copyable, CopiesOK
      <4>5. h2[h[x].copy].kind = h[h[x].copy].kind
        BY <1>5, <1>10, <4>4
      <4> QED
        BY <1>5, <4>3, <4>4, <4>5
    <3> QED
      BY <3>1, <3>2
  <2> QED
    BY <2>1 DEF CopiesOK
<1>14. ASSUME NoCopies(h2)
       PROVE  /\ NoCopies(h)
              /\ \A ext : Balanced(h, "try", ext) => Balanced(h2, "try", ext)
  <2>1. S = {}
    <3>1. ASSUME NEW x \in S
          PROVE  FALSE
      <4>1. x \in Live(h2) /\ h2[x].copy = at[x]
        BY <1>2, <1>4 DEF CopiedAs, Live
      <4> QED
        BY <1>4, <1>14, <4>1, InlineAssumption DEF NoCopies
    <3> QED
      BY <3>1
  <2>2. NoCopies(h)
    BY <1>5, <1>14, <2>1 DEF NoCopies, Live
  <2>3. \A x \in Objects(h, "try") : x \in Live(h)
    BY DEF Objects
  <2>4. ASSUME NEW z \in Objects(h, "try")
        PROVE  h2[z].count = h[z].count
    <3>1. z \in Id /\ z \in Live(h) /\ h[z].count \in Nat /\ z \in Objects(h2, "try")
      BY <1>4, <1>5, HeapFacts DEF Objects, Live
    <3>2. made[z] = One("std", q, z) + Cardinality(Copies(h, S, at, z))
      BY <1>2, <1>3, <3>1, MadeToFacts
    <3>3. Cardinality(Copies(h, S, at, z)) = 0
      <4>1. Copies(h, S, at, z) = {}
        BY <2>1 DEF Copies
      <4> QED
        BY <4>1, FS_EmptySet
    <3>4. One("std", q, z) = 0
      <4>1. ~ Refers("std", q, z)
        <5>1. Refers("std", q, z) => z \in Objects(h2, "std")
          BY <1>8, <1>9, UsableRefers
        <5> QED
          BY <3>1, <5>1 DEF Objects
      <4> QED
        BY <4>1 DEF One
    <3>5. h2[z].count = h[z].count + made[z]
      BY <1>5, <2>1, <3>1
    <3> QED
      BY <3>1, <3>2, <3>3, <3>4, <3>5
  <2>5. \A z : Within(h2, "try", z) = Within(h, "try", z)
    <3>1. PICK D : D = Objects(h, "try")
      OBVIOUS
    <3>2. \A x \in D : h2[x].elems = h[x].elems
      BY <1>5, <2>1, <2>3, <3>1
    <3>3. \A z : Places(h2, "try", D, z) = Places(h, "try", D, z)
      BY <3>2, SamePlaces
    <3> QED
      BY <1>5, <3>1, <3>3 DEF Within
  <2> QED
    BY <1>5, <2>2, <2>4, <2>5 DEF Balanced
<1>15. ASSUME NEW ext \in [Id -> Nat], \A x \in Id : ext[x] > 0 => x \in Live(h), Balanced(h, "std", ext)
       PROVE  Balanced(h2, "std", [x \in Id |-> ext[x] + One("std", q, x)])
  BY <1>2, <1>3, <1>15, CopyBalanced
<1> QED
  BY <1>7, <1>8, <1>9, <1>11, <1>12, <1>13, <1>14, <1>15 DEF Settled

-----------------------------------------------------------------------------
(***************************************************************************)
(* Objects that do not contain themselves.                                 *)
(***************************************************************************)
\* Each object comes after those it refers to, and a copied one where its copy does.
Ranked(h, rank) ==
  /\ rank \in [Id -> Nat]
  /\ \A x \in Live(h) : /\ \A y \in Targets(h, x) : rank[y] < rank[x]
                        /\ h[x].copy # NONE => rank[h[x].copy] = rank[x]
Ordered(h) == \E rank : Ranked(h, rank)

\* There is a number above all ranks.
LEMMA RankBound ==
  ASSUME NEW rank \in [Id -> Nat]
  PROVE  \E bound \in Nat : \A x \in Id : rank[x] < bound
<1>1. Summed(Id, rank)
  BY BlocksAssumption DEF Summed
<1>2. PICK n : n = Total(rank, Id)
  OBVIOUS
<1>3. n \in Nat
  BY <1>1, <1>2, TotalFacts
<1>4. ASSUME NEW x \in Id
      PROVE  rank[x] < n + 1
  <2>1. PICK r, k : r = rank[x] /\ k = Total(rank, Id \ {x})
    OBVIOUS
  <2>2. n = r + k /\ k \in Nat /\ r \in Nat
    BY <1>1, <1>2, <2>1, TotalFacts
  <2> QED
    BY <2>1, <2>2
<1> QED
  BY <1>3, <1>4

\* So that of some objects one comes last.
LEMMA LastOf ==
  ASSUME NEW rank \in [Id -> Nat], NEW U \in SUBSET Id, U # {}
  PROVE  \E x \in U : \A y \in U : rank[y] <= rank[x]
<1>1. PICK bound \in Nat : \A x \in Id : rank[x] < bound
  BY RankBound
<1>2. PICK f : f = [x \in U |-> bound - rank[x]]
  OBVIOUS
<1>3. \A x \in U : f[x] = bound - rank[x] /\ f[x] \in Nat /\ rank[x] \in Nat
  BY <1>1, <1>2
<1>4. PICK x \in U : \A y \in U : f[x] <= f[y]
  BY <1>3, LeastBy
<1>5. \A y \in U : rank[y] <= rank[x]
  BY <1>3, <1>4
<1> QED
  BY <1>5

\* Blocks that have the elements they had keep their order.
LEMMA SameOrder ==
  ASSUME NEW h, NEW h2, Live(h2) \subseteq Live(h), \A x \in Live(h2) : h2[x].elems = h[x].elems /\ h2[x].copy = h[x].copy
  PROVE  Ordered(h) => Ordered(h2)
<1>1. ASSUME NEW rank, Ranked(h, rank)
      PROVE  Ranked(h2, rank)
  <2>1. \A x \in Live(h2) : Targets(h2, x) = Targets(h, x)
    BY DEF Targets
  <2> QED
    BY <1>1, <2>1 DEF Ranked
<1> QED
  BY <1>1 DEF Ordered

\* Counting references changes no order.
LEMMA AddOrder ==
  ASSUME NEW h, HeapOK(h), NEW mode, NEW refs
  PROVE  Ordered(h) => Ordered(vec_add_ref(h, mode, refs))
<1>1. PICK h2 : h2 = vec_add_ref(h, mode, refs)
  OBVIOUS
<1>2. h2 = [x \in Id |-> IF h[x] = FREE THEN FREE ELSE [h[x] EXCEPT !.count = @ + Counted(mode, refs, x)]]
  BY <1>1 DEF vec_add_ref
<1>3. ASSUME NEW x \in Live(h2)
      PROVE  x \in Live(h) /\ h2[x].elems = h[x].elems /\ h2[x].copy = h[x].copy
  <2>1. x \in Id /\ h2[x] # FREE
    BY <1>3 DEF Live
  <2>2. h[x] # FREE /\ h2[x] = [h[x] EXCEPT !.count = @ + Counted(mode, refs, x)]
    BY <1>2, <2>1
  <2>3. h[x] \in Object
    BY <2>1, <2>2 DEF HeapOK, ObjectOK
  <2> QED
    BY <2>1, <2>2, <2>3 DEF Live, Object
<1>4. Ordered(h) => Ordered(h2)
  BY <1>3, SameOrder
<1> QED
  BY <1>1, <1>4

\* What one block leads to is led to by those that refer to it.
LEMMA ReachedOne ==
  ASSUME NEW h, ElementsTyped(h), NEW x \in Id, NEW z \in Targets(h, x)
  PROVE  z \in Id /\ ReachedFrom(h, {z}) \subseteq ReachedFrom(h, {x}) /\ x \in ReachedFrom(h, {x})
<1>1. {x} \in SUBSET Id /\ z \in Id /\ {z} \in SUBSET Id
  BY TargetIds
<1>2. PICK R : R = ReachedFrom(h, {x})
  OBVIOUS
<1>3. R \in SUBSET Id /\ {x} \subseteq R /\ \A y \in R : Targets(h, y) \subseteq R
  BY <1>1, <1>2, ReachedFacts
<1>4. {z} \subseteq R
  BY <1>3
<1>5. ReachedFrom(h, {z}) \subseteq R
  BY <1>1, <1>3, <1>4, ReachedFacts
<1> QED
  BY <1>1, <1>2, <1>3, <1>5

\* A block can be extended with what does not lead to it: whatever leads to it
\* moves behind all else.
LEMMA GrownOrder ==
  ASSUME NEW h, HeapOK(h), NEW h2, NEW y \in Id, NEW new \in Seq(OBJ), Grown(h, h2, y, new), NoCopies(h2),
         \A i \in DOMAIN new : y \notin ReachedFrom(h, Target(new[i]))
  PROVE  Ordered(h) => Ordered(h2)
<1>1. ElementsTyped(h)
  BY HeapFacts
<1>2. ASSUME NEW rank, Ranked(h, rank)
      PROVE  Ordered(h2)
  <2>1. rank \in [Id -> Nat] /\ \A x \in Live(h) : \A z \in Targets(h, x) : rank[z] < rank[x]
    BY <1>2 DEF Ranked
  <2>2. PICK bound \in Nat : \A x \in Id : rank[x] < bound
    BY <2>1, RankBound
  <2>3. PICK A : A = {x \in Id : y \in ReachedFrom(h, {x})}
    OBVIOUS
  <2>4. PICK rank2 : rank2 = [x \in Id |-> IF x \in A THEN rank[x] + bound ELSE rank[x]]
    OBVIOUS
  <2>5. rank2 \in [Id -> Nat] /\ \A x \in Id : rank2[x] = IF x \in A THEN rank[x] + bound ELSE rank[x]
    BY <2>1, <2>2, <2>4
  <2>6. y \in A
    <3>1. {y} \in SUBSET Id
      OBVIOUS
    <3> QED
      BY <1>1, <2>3, <3>1, ReachedFacts
  <2>7. ASSUME NEW x \in Live(h), NEW z \in Targets(h, x)
        PROVE  rank2[z] < rank2[x]
    <3>1. x \in Id /\ z \in Id /\ (z \in A => x \in A)
      <4>1. x \in Id
        BY DEF Live
      <4> QED
        BY <1>1, <2>3, <2>7, <4>1, ReachedOne
    <3>2. rank[z] < rank[x] /\ rank[z] \in Nat /\ rank[x] \in Nat
      BY <2>1, <2>7, <3>1
    <3>3. PICK a, b : a = rank[z] /\ b = rank[x]
      OBVIOUS
    <3>4. a < b /\ a \in Nat /\ b \in Nat
      BY <3>2, <3>3
    <3>5. rank2[z] = IF z \in A THEN a + bound ELSE a
      BY <2>5, <3>1, <3>3
    <3>6. rank2[x] = IF x \in A THEN b + bound ELSE b
      BY <2>5, <3>1, <3>3
    <3> QED
      BY <3>1, <3>4, <3>5, <3>6
  <2>8. ASSUME NEW i \in DOMAIN new, NEW z \in Target(new[i])
        PROVE  rank2[z] < rank2[y]
    <3>1. new[i] \in OBJ
      BY LenProperties
    <3>2. Target(new[i]) = {z} /\ z \in Id
      <4>1. Target(new[i]) \in SUBSET Id
        BY <3>1, TargetIds
      <4> QED
        BY <2>8, <4>1 DEF Target
    <3>3. z \notin A
      <4>1. y \notin ReachedFrom(h, Target(new[i]))
        BY <2>8
      <4> QED
        BY <2>3, <3>2, <4>1
    <3>4. rank2[z] = rank[z] /\ rank[z] \in Nat /\ rank[z] < bound
      BY <2>1, <2>2, <2>5, <3>2, <3>3
    <3>5. rank2[y] = rank[y] + bound /\ rank[y] \in Nat
      BY <2>1, <2>5, <2>6
    <3> QED
      BY <3>4, <3>5
  <2>9. ASSUME NEW x \in Live(h2), NEW z \in Targets(h2, x)
        PROVE  rank2[z] < rank2[x]
    <3>1. CASE x # y
      <4>1. x \in Live(h) /\ h2[x].elems = h[x].elems
        BY <3>1 DEF Live, Grown
      <4>2. z \in Targets(h, x)
        BY <2>9, <4>1 DEF Targets
      <4> QED
        BY <2>7, <4>1, <4>2
    <3>2. CASE x = y
      <4>1. PICK old, all : old = h[y].elems /\ all = h2[y].elems
        OBVIOUS
      <4>2. old \in Seq(OBJ) /\ all = old \o new
        BY <1>1, <4>1 DEF ElementsTyped, Grown
      <4>3. PICK i \in DOMAIN all : z \in Target(all[i])
        BY <2>9, <3>2, <4>1 DEF Targets
      <4>4. /\ Len(old) \in Nat /\ Len(new) \in Nat /\ DOMAIN old = 1 .. Len(old) /\ DOMAIN new = 1 .. Len(new)
            /\ DOMAIN all = 1 .. Len(all) /\ Len(all) = Len(old) + Len(new)
            /\ \A j \in 1 .. Len(old) + Len(new) : all[j] = IF j <= Len(old) THEN old[j] ELSE new[j - Len(old)]
        BY <4>2, ConcatProperties, LenProperties
      <4>5. i \in 1 .. Len(old) + Len(new)
        BY <4>3, <4>4
      <4>6. CASE i <= Len(old)
        <5>1. i \in DOMAIN old /\ all[i] = old[i]
          BY <4>4, <4>5, <4>6
        <5>2. z \in Targets(h, y)
          BY <4>1, <4>3, <5>1 DEF Targets
        <5>3. y \in Live(h)
          <6>1. h[y] = FREE => old = <<>>
            BY <4>1 DEF FREE
          <6>2. old # <<>>
            BY <5>1
          <6> QED
            BY <6>1, <6>2 DEF Live
        <5> QED
          BY <2>7, <3>2, <5>2, <5>3
      <4>7. CASE ~ (i <= Len(old))
        <5>1. i - Len(old) \in DOMAIN new /\ all[i] = new[i - Len(old)]
          BY <4>4, <4>5, <4>7
        <5> QED
          BY <2>8, <3>2, <4>3, <5>1
      <4> QED
        BY <4>6, <4>7
    <3> QED
      BY <3>1, <3>2
  <2>10. Ranked(h2, rank2)
    BY <2>5, <2>9 DEF Ranked, NoCopies
  <2> QED
    BY <2>10 DEF Ordered
<1> QED
  BY <1>2 DEF Ordered

\* A new object leads to those it is made of, and nothing to it.
LEMMA BuildOrder ==
  ASSUME NEW mode \in {"normal", "try"}, NEW h, Evaluable(mode, h), NEW kind, NEW elems,
         Elementary(mode, h, kind, elems), NEW x \in Id, h[x] = FREE,
         NEW made, made = build(h, mode, kind, elems, x)
  PROVE  Ordered(h) => Ordered(made.heap)
<1>1. PICK h2 : h2 = made.heap
  OBVIOUS
<1>2. Grown(h, h2, x, elems) /\ NoCopies(h2)
  <2>1. Grown(h, made.heap, x, elems) /\ Made(mode, h, made.heap, made.ref)
    BY BuildFacts
  <2> QED
    BY <1>1, <2>1 DEF Made, Evaluable
<1>3. HeapOK(h) /\ ElementsTyped(h) /\ Live(h) \in SUBSET Id
  BY HeapFacts DEF Evaluable
<1>4. elems \in Seq(OBJ) /\ \A i \in DOMAIN elems : Usable(h, elems[i])
  BY DEF Elementary
<1>5. PICK L : L = Live(h)
  OBVIOUS
<1>6. \A r : Usable(h, r) => Target(r) \subseteq L
  BY <1>5 DEF Usable, Target, Live, Ref
<1>7. \A z \in L : Targets(h, z) \subseteq L
  <2>1. \A z \in L : \A i \in DOMAIN h[z].elems : Usable(h, h[z].elems[i])
    BY <1>5, EvaluableFacts
  <2> QED
    BY <1>6, <2>1 DEF Targets
<1>8. ASSUME NEW i \in DOMAIN elems
      PROVE  x \notin ReachedFrom(h, Target(elems[i]))
  <2>1. Target(elems[i]) \subseteq L
    BY <1>4, <1>6
  <2>2. Target(elems[i]) \in SUBSET Id /\ L \in SUBSET Id
    BY <1>3, <1>5, <2>1
  <2>3. ReachedFrom(h, Target(elems[i])) \subseteq L
    BY <1>3, <1>7, <2>1, <2>2, ReachedFacts
  <2> QED
    BY <1>5, <2>3 DEF Live
<1>9. Ordered(h) => Ordered(h2)
  BY <1>2, <1>3, <1>4, <1>8, GrownOrder
<1> QED
  BY <1>1, <1>9

\* What a release leaves has the order it had.
LEMMA ReleaseOrder ==
  ASSUME NEW h, HeapOK(h), NEW mode, NEW ref \in OBJ
  PROVE  Ordered(h) => Ordered(release(h, mode, ref))
<1>1. PICK h2 : h2 = release(h, mode, ref)
  OBVIOUS
<1>2. PICK D : D = Dying(h, mode, ref)
  OBVIOUS
<1>3. h2 = [x \in Id |-> IF x \in D \/ h[x] = FREE THEN FREE
                         ELSE [h[x] EXCEPT !.count = @ - Counted(mode, <<ref>>, x) - CountedFrom(h, mode, D, x)]]
  BY <1>1, <1>2 DEF release
<1>4. ASSUME NEW x \in Live(h2)
      PROVE  x \in Live(h) /\ h2[x].elems = h[x].elems /\ h2[x].copy = h[x].copy
  <2>1. x \in Id /\ h2[x] # FREE
    BY <1>4 DEF Live
  <2>2. h[x] # FREE /\ h2[x] = [h[x] EXCEPT !.count = @ - Counted(mode, <<ref>>, x) - CountedFrom(h, mode, D, x)]
    BY <1>3, <2>1
  <2>3. h[x] \in Object
    BY <2>1, <2>2 DEF HeapOK, ObjectOK
  <2> QED
    BY <2>1, <2>2, <2>3 DEF Live, Object
<1>5. Ordered(h) => Ordered(h2)
  BY <1>4, SameOrder
<1> QED
  BY <1>1, <1>5

\* A copy takes the place of its original in the order.
LEMMA CopyOrder ==
  ASSUME NEW h, NEW ref, NEW S, NEW at, Copying(h, ref, S, at), NEW h2, h2 = copy_obj(h, ref, at).heap
  PROVE  Ordered(h) => Ordered(h2)
<1>1. PICK made : CopiedAs(h, h2, S, at, made)
  BY CopiedFacts
<1>2. /\ HeapOK(h) /\ S \in SUBSET Id /\ S \subseteq Objects(h, "try")
      /\ \A x \in S : at[x] \in Id /\ h[at[x]] = FREE /\ h[x] # FREE /\ at[x] \notin S
      /\ \A x \in S : \A i \in DOMAIN h[x].elems : Usable(h, h[x].elems[i]) /\ Visited(h, h[x].elems[i]) \subseteq S
  BY CopyingFacts
<1>3. Copyable(h, ref) /\ S = ToCopy(h, ref) /\ Targeted(h, S, at) /\ CopiesOK(h) /\ Closed(h, "std") /\ Closed(h, "try")
  BY DEF Copying, Copyable
<1>4. \A x, y \in S : at[x] = at[y] => x = y
  BY <1>3 DEF Targeted
<1>5. ASSUME NEW rank, Ranked(h, rank)
      PROVE  Ordered(h2)
  <2>1. /\ rank \in [Id -> Nat]
        /\ \A x \in Live(h) : /\ \A y \in Targets(h, x) : rank[y] < rank[x]
                              /\ h[x].copy # NONE => rank[h[x].copy] = rank[x]
    BY <1>5 DEF Ranked
  <2>2. PICK rank2 : rank2 = [y \in Id |-> IF \E x \in S : at[x] = y THEN rank[CHOOSE x \in S : at[x] = y] ELSE rank[y]]
    OBVIOUS
  <2>3. ASSUME NEW x \in S
        PROVE  rank2[at[x]] = rank[x]
    <3>1. PICK y \in Id : y = at[x]
      BY <1>2
    <3>2. rank2[y] = rank[CHOOSE z \in S : at[z] = y]
      BY <2>2, <3>1
    <3>3. (CHOOSE z \in S : at[z] = y) = x
      BY <1>4, <3>1
    <3> QED
      BY <3>1, <3>2, <3>3
  <2>4. ASSUME NEW y \in Id, \A x \in S : at[x] # y
        PROVE  rank2[y] = rank[y]
    BY <2>2, <2>4
  <2>5. \A y \in Live(h) : y \in Id /\ h[y] # FREE /\ rank2[y] = rank[y]
    <3>1. \A y \in Live(h) : y \in Id /\ h[y] # FREE
      BY DEF Live
    <3> QED
      BY <1>2, <2>4, <3>1
  <2>6. rank2 \in [Id -> Nat]
    <3>1. ASSUME NEW y \in Id
          PROVE  rank2[y] \in Nat
      <4>1. CASE \E x \in S : at[x] = y
        <5>1. PICK x \in S : at[x] = y
          BY <4>1
        <5>2. rank2[y] = rank[x] /\ x \in Id
          BY <1>2, <2>3, <5>1
        <5> QED
          BY <2>1, <5>2
      <4>2. CASE ~ \E x \in S : at[x] = y
        BY <2>1, <2>4, <4>2
      <4> QED
        BY <4>1, <4>2
    <3> QED
      BY <2>2, <3>1
  <2>7. ASSUME NEW x \in Live(h), NEW i \in DOMAIN h[x].elems
        PROVE  Usable(h, h[x].elems[i])
    <3>1. x \in Objects(h, "std") \/ x \in Objects(h, "try")
      BY <1>2, HeapFacts DEF Objects, Memory
    <3> QED
      BY <1>3, <3>1 DEF Closed
  <2>8. \A r : Usable(h, r) => \A z \in Target(r) : z \in Live(h)
    BY DEF Usable, Target, Live, Ref
  <2>9. \A x \in Live(h) : \A z \in Targets(h, x) : z \in Live(h)
    BY <2>7, <2>8 DEF Targets
  <2>10. ASSUME NEW x \in S, NEW z \in Targets(h2, at[x])
         PROVE  rank2[z] < rank[x]
    <3>1. PICK es, cs : es = h[x].elems /\ cs = h2[at[x]].elems
      OBVIOUS
    <3>2. cs = [i \in DOMAIN es |-> repoint_to_std_mem_copy(h, at, es[i])]
      BY <1>1, <3>1 DEF CopiedAs
    <3>3. PICK i \in DOMAIN cs : z \in Target(cs[i])
      BY <2>10, <3>1 DEF Targets
    <3>4. PICK r, q : r = es[i] /\ q = repoint_to_std_mem_copy(h, at, r)
      OBVIOUS
    <3>5. i \in DOMAIN es /\ cs[i] = q
      BY <3>2, <3>3, <3>4
    <3>6. Usable(h, r) /\ Visited(h, r) \subseteq S
      BY <1>2, <3>1, <3>4, <3>5
    <3>7. /\ r \in Inline \/ r.mem = "std" => q = r
          /\ r \notin Inline => q \notin Inline
          /\ r \notin Inline /\ r.mem # "std" /\ r.obj \notin S => h[r.obj].copy # NONE /\ q.obj = h[r.obj].copy
          /\ r \notin Inline /\ r.mem # "std" /\ r.obj \in S => q.obj = at[r.obj]
      BY <1>3, <3>4, <3>6, ImageFacts
    <3>8. r \notin Inline /\ q \notin Inline /\ z = q.obj
      BY <3>3, <3>5, <3>7 DEF Target
    <3>9. PICK y : y = r.obj
      OBVIOUS
    <3>10. y \in Targets(h, x) /\ y \in Live(h) /\ x \in Live(h)
      <4>1. x \in Live(h)
        BY <1>2 DEF Live
      <4>2. y \in Target(r)
        BY <3>8, <3>9 DEF Target
      <4>3. y \in Targets(h, x)
        BY <3>1, <3>4, <3>5, <4>2 DEF Targets
      <4> QED
        BY <2>8, <3>6, <4>1, <4>2, <4>3
    <3>11. rank[y] < rank[x]
      BY <2>1, <3>10
    <3>12. rank2[z] = rank[y]
      <4>1. CASE r.mem = "std"
        <5>1. z = y
          BY <3>7, <3>8, <3>9, <4>1
        <5> QED
          BY <2>5, <3>10, <5>1
      <4>2. CASE r.mem # "std" /\ y \notin S
        <5>1. h[y].copy # NONE /\ z = h[y].copy
          BY <3>7, <3>8, <3>9, <4>2
        <5>2. z \in Live(h) /\ rank[z] = rank[y]
          BY <1>3, <2>1, <3>10, <5>1 DEF CopiesOK, Objects
        <5> QED
          BY <2>5, <5>2
      <4>3. CASE r.mem # "std" /\ y \in S
        <5>1. z = at[y]
          BY <3>7, <3>8, <3>9, <4>3
        <5> QED
          BY <2>3, <4>3, <5>1
      <4> QED
        BY <4>1, <4>2, <4>3
    <3> QED
      BY <3>11, <3>12
  <2>11. ASSUME NEW x \in Live(h2)
         PROVE  /\ \A z \in Targets(h2, x) : rank2[z] < rank2[x]
                /\ h2[x].copy # NONE => rank2[h2[x].copy] = rank2[x]
    <3>1. CASE x \in S
      <4>1. h2[x].elems = <<>> /\ h2[x].copy = at[x]
        BY <1>1, <3>1 DEF CopiedAs
      <4>2. Targets(h2, x) = {}
        BY <4>1 DEF Targets
      <4>3. x \in Live(h)
        BY <1>2, <3>1 DEF Live
      <4> QED
        BY <2>3, <2>5, <3>1, <4>1, <4>2, <4>3
    <3>2. CASE \E y \in S : at[y] = x
      <4>1. PICK y \in S : at[y] = x
        BY <3>2
      <4>2. h2[x].copy = NONE
        BY <1>1, <4>1 DEF CopiedAs
      <4>3. rank2[x] = rank[y]
        BY <2>3, <4>1
      <4> QED
        BY <2>10, <4>1, <4>2, <4>3
    <3>3. CASE x \notin S /\ ~ \E y \in S : at[y] = x
      <4>1. x \in Id /\ h2[x] # FREE
        BY DEF Live
      <4>2. h[x] # FREE /\ h2[x].elems = h[x].elems /\ h2[x].copy = h[x].copy
        BY <1>1, <3>3, <4>1 DEF CopiedAs
      <4>3. x \in Live(h) /\ Targets(h2, x) = Targets(h, x)
        BY <4>1, <4>2 DEF Live, Targets
      <4>4. \A z \in Targets(h2, x) : rank2[z] < rank2[x]
        BY <2>1, <2>5, <2>9, <4>3
      <4>5. h2[x].copy # NONE => rank2[h2[x].copy] = rank2[x]
        <5>1. h[x].copy # NONE => h[x].copy \in Live(h) /\ rank[h[x].copy] = rank[x]
          BY <1>3, <2>1, <4>3 DEF CopiesOK, Objects
        <5> QED
          BY <2>5, <4>2, <4>3, <5>1
      <4> QED
        BY <4>4, <4>5
    <3> QED
      BY <3>1, <3>2, <3>3
  <2>12. Ranked(h2, rank2)
    BY <2>6, <2>11 DEF Ranked
  <2> QED
    BY <2>12 DEF Ordered
<1> QED
  BY <1>5 DEF Ordered
=============================================================================
