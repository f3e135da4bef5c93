------------------------- MODULE TransactionProofs -------------------------
(***************************************************************************)
(* Theorems about Transactions, for any blocks, constants, variables,      *)
(* sizes and bounds: no object is freed while it can be used, and none is  *)
(* kept that cannot; and what a program computes with references it could  *)
(* compute with values.                                                    *)
(***************************************************************************)
EXTENDS Transactions, HeapLemmas

-----------------------------------------------------------------------------
(***************************************************************************)
(* The inductive invariant.                                                *)
(***************************************************************************)
\* The references to x that the variables in owners hold.
HeldBy(va, m, owners, x) == Cardinality({own \in owners : Refers(m, va[own], x)})

\* The variables whose references are counted by the objects in memory m.
Owners(md, m) == IF m = "try" THEN Loc ELSE IF md = "normal" THEN Var ELSE Glob
Accounted(md, h, va, m) == Balanced(h, m, [x \in Id |-> HeldBy(va, m, Owners(md, m), x)])

Typed(va) == va \in [Var -> OBJ \cup {NONE}]
UsableIn(h, va, owners) == \A own \in owners : va[own] # NONE => Usable(h, va[own])
GlobalsInStd(va) == \A own \in Glob : va[own] # NONE => InStd(va[own])

\* While a program evaluates, all it holds can be used and all is accounted for.
Sane(md, h, va) ==
  /\ Evaluable(md, h) /\ Typed(va) /\ UsableIn(h, va, Var) /\ GlobalsInStd(va)
  /\ \A m \in Memory : Accounted(md, h, va, m)

\* A reference in a variable more, or less.
Without(va, own) == [va EXCEPT ![own] = NONE]
Holding(va, own, ref) == [va EXCEPT ![own] = ref]

\* Counting the references of variables.
LEMMA HeldFacts ==
  ASSUME NEW va, Typed(va), NEW m, NEW owners \in SUBSET Var, NEW x
  PROVE  /\ HeldBy(va, m, owners, x) \in Nat
         /\ HeldBy(va, m, owners, x) > 0 <=> \E own \in owners : Refers(m, va[own], x)
<1>1. PICK N : N = {own \in owners : Refers(m, va[own], x)}
  OBVIOUS
<1>2. IsFiniteSet(N)
  <2>1. IsFiniteSet(Var)
    BY ProgramAssumption, FS_Union DEF Var
  <2>2. N \subseteq Var
    BY <1>1
  <2> QED
    BY <2>1, <2>2, FS_Subset
<1>3. Cardinality(N) \in Nat /\ (Cardinality(N) = 0 <=> N = {})
  BY <1>2, FS_CardinalityType, FS_EmptySet
<1> QED
  BY <1>1, <1>3 DEF HeldBy

\* Giving a variable a reference is a reference more, to what it is to.
LEMMA HoldingFacts ==
  ASSUME NEW va, Typed(va), NEW own \in Var, NEW ref \in OBJ \cup {NONE}
  PROVE  /\ Typed(Holding(va, own, ref)) /\ Typed(Without(va, own))
         /\ Holding(va, own, ref)[own] = ref /\ Without(va, own)[own] = NONE
         /\ \A other \in Var : other # own => Holding(va, own, ref)[other] = va[other] /\ Without(va, own)[other] = va[other]
         /\ \A m, x : \A owners \in SUBSET Var :
              HeldBy(Holding(va, own, ref), m, owners, x) =
                HeldBy(Without(va, own), m, owners, x) + (IF own \in owners THEN One(m, ref, x) ELSE 0)
         /\ Holding(va, own, va[own]) = va
         /\ va[own] = NONE => Without(va, own) = va
         /\ Holding(Without(va, own), own, ref) = Holding(va, own, ref)
<1>1. PICK vb, vc : vb = Holding(va, own, ref) /\ vc = Without(va, own)
  OBVIOUS
<1>2. /\ Typed(vb) /\ Typed(vc) /\ vb[own] = ref /\ vc[own] = NONE
      /\ \A other \in Var : other # own => vb[other] = va[other] /\ vc[other] = va[other]
      /\ Holding(va, own, va[own]) = va
      /\ va[own] = NONE => Without(va, own) = va
      /\ Holding(Without(va, own), own, ref) = Holding(va, own, ref)
  BY <1>1 DEF Typed, Holding, Without
<1>3. ASSUME NEW m, NEW x, NEW owners \in SUBSET Var
      PROVE  HeldBy(vb, m, owners, x) = HeldBy(vc, m, owners, x) + (IF own \in owners THEN One(m, ref, x) ELSE 0)
  <2>1. PICK N, M : N = {o \in owners : Refers(m, vb[o], x)} /\ M = {o \in owners : Refers(m, vc[o], x)}
    OBVIOUS
  <2>2. own \notin M
    BY <1>2, <2>1 DEF Refers
  <2>3. N = IF own \in owners /\ Refers(m, ref, x) THEN M \cup {own} ELSE M
    <3>1. \A o : o \in N <=> o \in owners /\ Refers(m, vb[o], x)
      BY <2>1
    <3>2. \A o : o \in M <=> o \in owners /\ Refers(m, vc[o], x)
      BY <2>1
    <3>3. \A o \in owners : o # own => vb[o] = vc[o]
      BY <1>2
    <3>4. CASE own \in owners /\ Refers(m, ref, x)
      <4>1. \A o : o \in N <=> o \in M \cup {own}
        BY <1>2, <3>1, <3>2, <3>3, <3>4
      <4> QED
        BY <3>4, <4>1
    <3>5. CASE ~ (own \in owners /\ Refers(m, ref, x))
      <4>1. \A o : o \in N <=> o \in M
        BY <1>2, <2>2, <3>1, <3>2, <3>3, <3>5
      <4> QED
        BY <3>5, <4>1
    <3> QED
      BY <3>4, <3>5
  <2>4. IsFiniteSet(M) /\ Cardinality(M) \in Nat
    <3>1. IsFiniteSet(Var)
      BY ProgramAssumption, FS_Union DEF Var
    <3>2. M \subseteq Var
      BY <2>1
    <3> QED
      BY <3>1, <3>2, FS_Subset, FS_CardinalityType
  <2>5. Cardinality(M \cup {own}) = Cardinality(M) + 1
    BY <2>2, <2>4, FS_AddElement
  <2>6. CASE own \in owners /\ Refers(m, ref, x)
    BY <2>1, <2>3, <2>5, <2>6 DEF HeldBy, One
  <2>7. CASE ~ (own \in owners /\ Refers(m, ref, x))
    <3>1. (IF own \in owners THEN One(m, ref, x) ELSE 0) = 0
      BY <2>7 DEF One
    <3>2. HeldBy(vb, m, owners, x) = Cardinality(M) /\ HeldBy(vc, m, owners, x) = Cardinality(M)
      BY <2>1, <2>3, <2>7 DEF HeldBy
    <3> QED
      BY <2>4, <3>1, <3>2
  <2> QED
    BY <2>6, <2>7
<1> QED
  BY <1>1, <1>2, <1>3

\* What the variables add to the references from objects.
Outer(md, va, m) == [x \in Id |-> HeldBy(va, m, Owners(md, m), x)]

\* They add to objects that can be used, if they can be used themselves.
LEMMA OuterFacts ==
  ASSUME NEW va, Typed(va), NEW md, NEW m
  PROVE  /\ Owners(md, m) \in SUBSET Var
         /\ Outer(md, va, m) \in [Id -> Nat]
         /\ \A h : Accounted(md, h, va, m) <=> Balanced(h, m, Outer(md, va, m))
         /\ \A h : HeapOK(h) /\ UsableIn(h, va, Owners(md, m)) =>
              \A x \in Id : Outer(md, va, m)[x] > 0 => x \in Objects(h, m)
<1>1. Owners(md, m) \in SUBSET Var
  BY DEF Owners, Var
<1>2. Outer(md, va, m) \in [Id -> Nat]
  BY <1>1, HeldFacts DEF Outer
<1>3. ASSUME NEW h, HeapOK(h), UsableIn(h, va, Owners(md, m)), NEW x \in Id, Outer(md, va, m)[x] > 0
      PROVE  x \in Objects(h, m)
  <2>1. HeldBy(va, m, Owners(md, m), x) > 0
    BY <1>3 DEF Outer
  <2>2. PICK own \in Owners(md, m) : Refers(m, va[own], x)
    BY <1>1, <2>1, HeldFacts
  <2>3. va[own] # NONE
    BY <2>2 DEF Refers
  <2> QED
    BY <1>3, <2>2, <2>3, UsableRefers DEF UsableIn
<1> QED
  BY <1>1, <1>2, <1>3 DEF Accounted, Outer

\* A function returns a reference that it has counted, to a variable that was unset.
LEMMA AssignSane ==
  ASSUME NEW md \in {"normal", "try"}, NEW h, NEW va, Sane(md, h, va),
         NEW own \in Loc, va[own] = NONE, NEW h2, NEW ref, Made(md, h, h2, ref), Counts(md, h, h2, ref)
  PROVE  Sane(md, h2, Holding(va, own, ref))
<1>1. PICK vb : vb = Holding(va, own, ref)
  OBVIOUS
<1>2. /\ Evaluable(md, h) /\ Typed(va) /\ UsableIn(h, va, Var) /\ GlobalsInStd(va)
      /\ \A m \in Memory : Accounted(md, h, va, m)
  BY DEF Sane
<1>3. Evaluable(md, h2) /\ Usable(h2, ref) /\ \A r : Usable(h, r) => Usable(h2, r)
  BY DEF Made
<1>4. ref \in OBJ
  BY <1>3, EvaluableFacts
<1>5. own \in Var /\ own \notin Glob /\ \A g \in Glob : g \in Var /\ g # own
  BY ProgramAssumption DEF Var
<1>6. /\ Typed(vb) /\ vb[own] = ref /\ \A other \in Var : other # own => vb[other] = va[other]
      /\ \A m, x : \A owners \in SUBSET Var :
           HeldBy(vb, m, owners, x) = HeldBy(va, m, owners, x) + (IF own \in owners THEN One(m, ref, x) ELSE 0)
  <2>1. ref \in OBJ \cup {NONE} /\ own \in Var
    BY <1>4, <1>5
  <2>2. Without(va, own) = va
    BY <1>2, <2>1, HoldingFacts
  <2> QED
    BY <1>1, <1>2, <2>1, <2>2, HoldingFacts
<1>7. UsableIn(h2, vb, Var) /\ GlobalsInStd(vb)
  BY <1>2, <1>3, <1>5, <1>6 DEF UsableIn, GlobalsInStd
<1>8. ASSUME NEW m \in Memory
      PROVE  Accounted(md, h2, vb, m)
  <2>1. CASE md = "normal" /\ m = "try"
    <3>1. Objects(h2, m) = {}
      BY <1>3, <2>1 DEF Evaluable
    <3> QED
      BY <3>1 DEF Accounted, Balanced
  <2>2. CASE ~ (md = "normal" /\ m = "try")
    <3>1. own \in Owners(md, m) <=> m = CurrMemory(md)
      BY <1>5, <1>8, <2>2 DEF Owners, CurrMemory, Memory
    <3>2. PICK ext : ext = Outer(md, va, m)
      OBVIOUS
    <3>3. /\ ext \in [Id -> Nat] /\ Balanced(h, m, ext) /\ \A x \in Id : ext[x] > 0 => x \in Live(h)
      <4>1. UsableIn(h, va, Owners(md, m))
        BY <1>2 DEF UsableIn, Owners, Var
      <4> QED
        BY <1>2, <1>8, <3>2, <4>1, OuterFacts DEF Objects, Evaluable
    <3>4. Balanced(h2, m, [x \in Id |-> ext[x] + IF m = CurrMemory(md) THEN One(m, ref, x) ELSE 0])
      BY <1>8, <3>3 DEF Counts
    <3>5. \A x \in Id : HeldBy(vb, m, Owners(md, m), x) = ext[x] + IF m = CurrMemory(md) THEN One(m, ref, x) ELSE 0
      <4>1. Owners(md, m) \in SUBSET Var
        BY <1>2, OuterFacts
      <4>2. ASSUME NEW x \in Id
            PROVE  HeldBy(vb, m, Owners(md, m), x) = ext[x] + IF m = CurrMemory(md) THEN One(m, ref, x) ELSE 0
        <5>1. PICK owners : owners = Owners(md, m)
          OBVIOUS
        <5>2. HeldBy(vb, m, owners, x) = HeldBy(va, m, owners, x) + (IF own \in owners THEN One(m, ref, x) ELSE 0)
          BY <1>6, <4>1, <5>1
        <5>3. ext[x] = HeldBy(va, m, owners, x)
          BY <3>2, <5>1 DEF Outer
        <5> QED
          BY <3>1, <5>1, <5>2, <5>3
      <4> QED
        BY <4>2
    <3>6. [x \in Id |-> HeldBy(vb, m, Owners(md, m), x)] =
            [x \in Id |-> ext[x] + IF m = CurrMemory(md) THEN One(m, ref, x) ELSE 0]
      BY <3>5
    <3> QED
      BY <3>4, <3>6 DEF Accounted
  <2> QED
    BY <2>1, <2>2
<1> QED
  BY <1>1, <1>3, <1>6, <1>7, <1>8 DEF Sane

\* The variable own had the reference old, and has another or none; what is
\* left to do is to release old.
Owing(md, h, va, old) ==
  /\ Evaluable(md, h) /\ Typed(va) /\ UsableIn(h, va, Var) /\ GlobalsInStd(va) /\ Usable(h, old)
  /\ \A m \in Memory :
       Balanced(h, m, [x \in Id |-> Outer(md, va, m)[x] + IF m = CurrMemory(md) THEN One(m, old, x) ELSE 0])

\* Which is what is then done.
LEMMA ReleaseSane ==
  ASSUME NEW md \in {"normal", "try"}, NEW h, NEW va, NEW old, Owing(md, h, va, old),
         NEW h2, h2 = release(h, md, old)
  PROVE  Sane(md, h2, va) /\ ~ ReachesFree(h, md, old)
<1>1. PICK c, ext : c = CurrMemory(md) /\ ext = Outer(md, va, c)
  OBVIOUS
<1>2. /\ Evaluable(md, h) /\ HeapOK(h) /\ Typed(va) /\ UsableIn(h, va, Var) /\ GlobalsInStd(va) /\ Usable(h, old)
      /\ old \in OBJ /\ c \in Memory
  BY <1>1, EvaluableFacts, Kinship DEF Owing, Evaluable
<1>3. ext \in [Id -> Nat] /\ \A m : Outer(md, va, m) \in [Id -> Nat]
  BY <1>1, <1>2, OuterFacts
<1>4. Releasable(h, c, old, ext)
  <2>1. Alive(h, c, Objects(h, c))
    BY <1>2, EvaluableFacts DEF Alive, Objects
  <2>2. \A x : Refers(c, old, x) => x \in Objects(h, c)
    BY <1>2, UsableRefers
  <2>3. Balanced(h, c, [x \in Id |-> ext[x] + One(c, old, x)])
    BY <1>1, <1>2 DEF Owing
  <2> QED
    BY <2>1, <2>2, <2>3 DEF Releasable
<1>5. /\ Balanced(h2, c, ext) /\ ~ ReachesFree(h, md, old)
      /\ \A m : m # c => \A other : Balanced(h, m, other) => Balanced(h2, m, other)
  BY <1>1, <1>2, <1>3, <1>4, ReleaseKeeps
<1>6. /\ Evaluable(md, h2)
      /\ \A r : Usable(h, r) /\ (\A x : Refers(c, r, x) => ext[x] > 0) => Usable(h2, r)
  BY <1>1, <1>2, <1>3, <1>4, ReleaseEvaluable
<1>7. UsableIn(h2, va, Var)
  <2>1. ASSUME NEW own \in Var, va[own] # NONE, NEW x, Refers(c, va[own], x)
        PROVE  ext[x] > 0
    <3>1. own \in Owners(md, c)
      <4>1. CASE md = "normal"
        BY <1>1, <2>1, <4>1 DEF Owners, CurrMemory
      <4>2. CASE md = "try"
        <5>1. own \notin Glob
          BY <1>1, <1>2, <2>1, <4>2 DEF GlobalsInStd, InStd, Refers, CurrMemory
        <5> QED
          BY <1>1, <2>1, <4>2, <5>1 DEF Owners, CurrMemory, Var
      <4> QED
        BY <4>1, <4>2
    <3>2. x \in Id
      BY <1>2, <2>1, UsableRefers DEF UsableIn, Objects, Live
    <3>3. HeldBy(va, c, Owners(md, c), x) > 0
      BY <1>2, <2>1, <3>1, OuterFacts, HeldFacts
    <3> QED
      BY <1>1, <3>2, <3>3 DEF Outer
  <2> QED
    BY <1>2, <1>6, <2>1 DEF UsableIn
<1>8. ASSUME NEW m \in Memory
      PROVE  Accounted(md, h2, va, m)
  <2>1. CASE m = c
    BY <1>1, <1>2, <1>5, <2>1, OuterFacts
  <2>2. CASE m # c
    <3>1. PICK other : other = Outer(md, va, m)
      OBVIOUS
    <3>2. other \in [Id -> Nat]
      BY <1>3, <3>1
    <3>3. Balanced(h, m, [x \in Id |-> other[x] + IF m = CurrMemory(md) THEN One(m, old, x) ELSE 0])
      BY <1>8, <3>1 DEF Owing
    <3>4. [x \in Id |-> other[x] + IF m = CurrMemory(md) THEN One(m, old, x) ELSE 0] = other
      <4>1. \A x \in Id : other[x] + (IF m = CurrMemory(md) THEN One(m, old, x) ELSE 0) = other[x]
        BY <1>1, <2>2, <3>2
      <4> QED
        BY <3>2, <4>1
    <3>5. Balanced(h2, m, other)
      BY <1>5, <2>2, <3>3, <3>4
    <3> QED
      BY <1>2, <3>1, <3>5, OuterFacts
  <2> QED
    BY <2>1, <2>2
<1> QED
  BY <1>2, <1>5, <1>6, <1>7, <1>8 DEF Sane

\* A variable lets go of its reference.
LEMMA DropSane ==
  ASSUME NEW md \in {"normal", "try"}, NEW h, NEW va, Sane(md, h, va), NEW own \in Var, va[own] # NONE,
         own \in Loc \/ md = "normal", NEW h2, h2 = release(h, md, va[own])
  PROVE  Sane(md, h2, Without(va, own)) /\ ~ ReachesFree(h, md, va[own])
<1>1. PICK old, vb : old = va[own] /\ vb = Without(va, own)
  OBVIOUS
<1>2. /\ Evaluable(md, h) /\ Typed(va) /\ UsableIn(h, va, Var) /\ GlobalsInStd(va)
      /\ \A m \in Memory : Accounted(md, h, va, m)
  BY DEF Sane
<1>3. old \in OBJ /\ Usable(h, old)
  BY <1>1, <1>2 DEF Typed, UsableIn
<1>4. /\ Typed(vb) /\ vb[own] = NONE /\ \A other \in Var : other # own => vb[other] = va[other]
      /\ \A m, x : \A owners \in SUBSET Var :
           HeldBy(va, m, owners, x) = HeldBy(vb, m, owners, x) + (IF own \in owners THEN One(m, old, x) ELSE 0)
  <2>1. old \in OBJ \cup {NONE}
    BY <1>3
  <2>2. Holding(va, own, old) = va
    BY <1>1, <1>2, <2>1, HoldingFacts
  <2> QED
    BY <1>1, <1>2, <2>1, <2>2, HoldingFacts
<1>5. UsableIn(h, vb, Var) /\ GlobalsInStd(vb)
  BY <1>2, <1>4 DEF UsableIn, GlobalsInStd, Var
<1>6. ASSUME NEW m \in Memory
      PROVE  Balanced(h, m, [x \in Id |-> Outer(md, vb, m)[x] + IF m = CurrMemory(md) THEN One(m, old, x) ELSE 0])
  <2>1. CASE md = "normal" /\ m = "try"
    <3>1. Objects(h, m) = {}
      BY <1>2, <2>1 DEF Evaluable
    <3> QED
      BY <3>1 DEF Balanced
  <2>2. CASE ~ (md = "normal" /\ m = "try")
    <3>1. PICK owners : owners = Owners(md, m)
      OBVIOUS
    <3>2. owners \in SUBSET Var /\ (own \in owners <=> m = CurrMemory(md))
      <4>1. Glob \cap Loc = {} /\ Loc \subseteq Var
        BY ProgramAssumption DEF Var
      <4> QED
        BY <1>6, <2>2, <3>1, <4>1 DEF Owners, CurrMemory, Memory, Var
    <3>3. \A x \in Id : HeldBy(va, m, owners, x) = Outer(md, vb, m)[x] + IF m = CurrMemory(md) THEN One(m, old, x) ELSE 0
      <4>1. \A x \in Id : Outer(md, vb, m)[x] = HeldBy(vb, m, owners, x)
        BY <3>1 DEF Outer
      <4> QED
        BY <1>4, <3>2, <4>1
    <3>4. [x \in Id |-> HeldBy(va, m, Owners(md, m), x)] =
            [x \in Id |-> Outer(md, vb, m)[x] + IF m = CurrMemory(md) THEN One(m, old, x) ELSE 0]
      BY <3>1, <3>3
    <3>5. Accounted(md, h, va, m)
      BY <1>2, <1>6
    <3> QED
      BY <3>4, <3>5 DEF Accounted
  <2> QED
    BY <2>1, <2>2
<1>7. Owing(md, h, vb, old)
  BY <1>2, <1>3, <1>4, <1>5, <1>6 DEF Owing
<1> QED
  BY <1>1, <1>7, ReleaseSane

\* A function returns a reference to a variable in the place of its argument,
\* which it releases when it has made its result.
LEMMA ReplaceSane ==
  ASSUME NEW md \in {"normal", "try"}, NEW h, NEW va, Sane(md, h, va),
         NEW own \in Loc, va[own] # NONE, NEW h1, NEW ref, Made(md, h, h1, ref), Counts(md, h, h1, ref),
         NEW h2, h2 = release(h1, md, va[own])
  PROVE  Sane(md, h2, Holding(va, own, ref)) /\ ~ ReachesFree(h1, md, va[own])
<1>1. PICK old, vb, vc : old = va[own] /\ vb = Holding(va, own, ref) /\ vc = Without(va, own)
  OBVIOUS
<1>2. /\ Evaluable(md, h) /\ Typed(va) /\ UsableIn(h, va, Var) /\ GlobalsInStd(va)
      /\ \A m \in Memory : Accounted(md, h, va, m)
  BY DEF Sane
<1>3. Evaluable(md, h1) /\ Usable(h1, ref) /\ \A r : Usable(h, r) => Usable(h1, r)
  BY DEF Made
<1>4. own \in Var /\ own \notin Glob /\ (\A g \in Glob : g \in Var /\ g # own) /\ Glob \cap Loc = {} /\ Loc \subseteq Var
  BY ProgramAssumption DEF Var
<1>5. ref \in OBJ /\ old \in OBJ /\ Usable(h, old) /\ Usable(h1, old)
  BY <1>1, <1>2, <1>3, <1>4, EvaluableFacts DEF Typed, UsableIn
<1>6. /\ Typed(vb) /\ vb[own] = ref /\ \A other \in Var : other # own => vb[other] = va[other]
      /\ Typed(vc)
      /\ \A m, x : \A owners \in SUBSET Var :
           /\ HeldBy(va, m, owners, x) = HeldBy(vc, m, owners, x) + (IF own \in owners THEN One(m, old, x) ELSE 0)
           /\ HeldBy(vb, m, owners, x) = HeldBy(vc, m, owners, x) + (IF own \in owners THEN One(m, ref, x) ELSE 0)
  <2>1. old \in OBJ \cup {NONE} /\ ref \in OBJ \cup {NONE}
    BY <1>5
  <2>2. Holding(va, own, old) = va
    BY <1>1, <1>2, <1>4, <2>1, HoldingFacts
  <2>3. \A m, x : \A owners \in SUBSET Var :
          HeldBy(va, m, owners, x) = HeldBy(vc, m, owners, x) + (IF own \in owners THEN One(m, old, x) ELSE 0)
    BY <1>1, <1>2, <1>4, <2>1, <2>2, HoldingFacts
  <2>4. /\ Typed(vb) /\ vb[own] = ref /\ \A other \in Var : other # own => vb[other] = va[other]
        /\ Typed(vc)
        /\ \A m, x : \A owners \in SUBSET Var :
             HeldBy(vb, m, owners, x) = HeldBy(vc, m, owners, x) + (IF own \in owners THEN One(m, ref, x) ELSE 0)
    BY <1>1, <1>2, <1>4, <2>1, HoldingFacts
  <2> QED
    BY <2>3, <2>4
<1>7. UsableIn(h1, vb, Var) /\ GlobalsInStd(vb)
  BY <1>2, <1>3, <1>4, <1>6 DEF UsableIn, GlobalsInStd
<1>8. ASSUME NEW m \in Memory
      PROVE  Balanced(h1, m, [x \in Id |-> Outer(md, vb, m)[x] + IF m = CurrMemory(md) THEN One(m, old, x) ELSE 0])
  <2>1. CASE md = "normal" /\ m = "try"
    <3>1. Objects(h1, m) = {}
      BY <1>3, <2>1 DEF Evaluable
    <3> QED
      BY <3>1 DEF Balanced
  <2>2. CASE ~ (md = "normal" /\ m = "try")
    <3>1. PICK owners, ext : owners = Owners(md, m) /\ ext = Outer(md, va, m)
      OBVIOUS
    <3>2. owners \in SUBSET Var /\ (own \in owners <=> m = CurrMemory(md))
      BY <1>4, <1>8, <2>2, <3>1 DEF Owners, CurrMemory, Memory, Var
    <3>3. /\ ext \in [Id -> Nat] /\ Balanced(h, m, ext) /\ \A x \in Id : ext[x] > 0 => x \in Live(h)
      <4>1. UsableIn(h, va, Owners(md, m))
        BY <1>2, <3>1, <3>2 DEF UsableIn
      <4> QED
        BY <1>2, <1>8, <3>1, <4>1, OuterFacts DEF Objects, Evaluable
    <3>4. Balanced(h1, m, [x \in Id |-> ext[x] + IF m = CurrMemory(md) THEN One(m, ref, x) ELSE 0])
      BY <1>8, <3>3 DEF Counts
    <3>5. ASSUME NEW x \in Id
          PROVE  ext[x] + (IF m = CurrMemory(md) THEN One(m, ref, x) ELSE 0)
                   = Outer(md, vb, m)[x] + (IF m = CurrMemory(md) THEN One(m, old, x) ELSE 0)
      <4>1. ext[x] = HeldBy(va, m, owners, x) /\ Outer(md, vb, m)[x] = HeldBy(vb, m, owners, x)
        BY <3>1 DEF Outer
      <4>2. PICK p, i, j : p = HeldBy(vc, m, owners, x) /\ i = One(m, old, x) /\ j = One(m, ref, x)
        OBVIOUS
      <4>3. p \in Nat /\ i \in Nat /\ j \in Nat
        BY <1>6, <3>2, <4>2, HeldFacts DEF One
      <4>4. /\ HeldBy(va, m, owners, x) = p + (IF own \in owners THEN i ELSE 0)
            /\ HeldBy(vb, m, owners, x) = p + (IF own \in owners THEN j ELSE 0)
        BY <1>6, <3>2, <4>2
      <4> QED
        BY <3>2, <4>1, <4>2, <4>3, <4>4
    <3>6. [x \in Id |-> ext[x] + IF m = CurrMemory(md) THEN One(m, ref, x) ELSE 0] =
            [x \in Id |-> Outer(md, vb, m)[x] + IF m = CurrMemory(md) THEN One(m, old, x) ELSE 0]
      BY <3>5
    <3> QED
      BY <3>4, <3>6
  <2> QED
    BY <2>1, <2>2
<1>9. Owing(md, h1, vb, old)
  BY <1>3, <1>5, <1>6, <1>7, <1>8 DEF Owing
<1> QED
  BY <1>1, <1>9, ReleaseSane

-----------------------------------------------------------------------------
(***************************************************************************)
(* The invariant, and the steps of a program that evaluates.               *)
(***************************************************************************)
\* The local variables mean something until they are given up.
InUse(md, va) == md \in {"normal", "try"} \/ \E own \in Loc : va[own] # NONE

\* What outlives transactions.
Lasting(md, h, va) ==
  /\ HeapOK(h) /\ Closed(h, "std")
  /\ Typed(va) /\ UsableIn(h, va, Glob) /\ GlobalsInStd(va)
  /\ Accounted(md, h, va, "std")
  /\ md = "normal" => Objects(h, "try") = {}
  /\ md \in {"normal", "try"} => NoCopies(h)

\* What is there for a transaction.
Passing(md, h, va) ==
  /\ Closed(h, "try") /\ CopiesOK(h) /\ UsableIn(h, va, Loc)
  /\ NoCopies(h) => Accounted(md, h, va, "try")

StateInv(md, h, va) ==
  /\ md \in {"normal", "try", "copying", "failed"}
  /\ Lasting(md, h, va)
  /\ InUse(md, va) => Passing(md, h, va)

IInv == StateInv(mode, heap, var) /\ stray = FALSE

\* While a program evaluates the two say the same.
LEMMA SaneState ==
  \A md \in {"normal", "try"} : \A h, va : StateInv(md, h, va) <=> Sane(md, h, va)
<1>1. ASSUME NEW md \in {"normal", "try"}, NEW h, NEW va, StateInv(md, h, va)
      PROVE  Sane(md, h, va)
  <2>1. Lasting(md, h, va) /\ Passing(md, h, va) /\ NoCopies(h)
    BY <1>1 DEF StateInv, InUse, Lasting
  <2>2. Evaluable(md, h)
    BY <2>1 DEF Lasting, Passing, Evaluable, Memory
  <2>3. UsableIn(h, va, Var)
    BY <2>1 DEF Lasting, Passing, UsableIn, Var
  <2>4. \A m \in Memory : Accounted(md, h, va, m)
    BY <2>1 DEF Lasting, Passing, Memory
  <2> QED
    BY <2>1, <2>2, <2>3, <2>4 DEF Sane, Lasting
<1>2. ASSUME NEW md \in {"normal", "try"}, NEW h, NEW va, Sane(md, h, va)
      PROVE  StateInv(md, h, va)
  <2>1. HeapOK(h) /\ NoCopies(h) /\ Closed(h, "std") /\ Closed(h, "try") /\ (md = "normal" => Objects(h, "try") = {})
    BY <1>2 DEF Sane, Evaluable, Memory
  <2>2. CopiesOK(h)
    BY <2>1 DEF NoCopies, CopiesOK
  <2>3. Typed(va) /\ GlobalsInStd(va) /\ UsableIn(h, va, Glob) /\ UsableIn(h, va, Loc)
    BY <1>2 DEF Sane, UsableIn, Var
  <2>4. Accounted(md, h, va, "std") /\ Accounted(md, h, va, "try")
    BY <1>2 DEF Sane, Memory
  <2> QED
    BY <2>1, <2>2, <2>3, <2>4 DEF StateInv, Lasting, Passing
<1> QED
  BY <1>1, <1>2

\* An operation assigns what it made to a variable.
LEMMA AssignKeeps ==
  ASSUME IInv, NEW own \in Loc, NEW made, Assign(own, made),
         Made(mode, heap, made.heap, made.ref), Counts(mode, heap, made.heap, made.ref)
  PROVE  IInv'
<1>1. /\ mode \in {"normal", "try"} /\ var[own] = NONE /\ mode' = mode
      /\ heap' = made.heap /\ var' = Holding(var, own, made.ref) /\ stray' = (stray \/ IsStray(made))
  BY DEF Assign, Evaluating, Holding
<1>2. Sane(mode, heap, var) /\ stray = FALSE
  BY <1>1, SaneState DEF IInv
<1>3. Sane(mode', heap', var')
  BY <1>1, <1>2, AssignSane
<1>4. ~ IsStray(made)
  <2>1. Usable(made.heap, made.ref)
    BY DEF Made
  <2> QED
    BY <2>1 DEF IsStray, Usable
<1> QED
  BY <1>1, <1>2, <1>3, <1>4, SaneState DEF IInv

\* The values an operation is applied to can be used.
LEMMA OperandFacts ==
  ASSUME NEW md, NEW h, Sane(md, h, var), NEW args \in Args, Known(args)
  PROVE  /\ Operands(args) \in Seq(OBJ) /\ Len(Operands(args)) \in 1 .. 2
         /\ DOMAIN Operands(args) = 1 .. Len(Operands(args))
         /\ \A i \in DOMAIN Operands(args) : Usable(h, Operands(args)[i])
<1>1. PICK n \in 1 .. 2 : args \in [1 .. n -> Operand]
  <2>1. CASE args \in {<<arg>> : arg \in Operand}
    BY <2>1
  <2>2. CASE args \in Operand \X Operand
    BY <2>2
  <2> QED
    BY <2>1, <2>2 DEF Args
<1>2. PICK ops : ops = Operands(args)
  OBVIOUS
<1>3. ASSUME NEW i \in 1 .. n
      PROVE  ops[i] \in OBJ /\ Usable(h, ops[i])
  <2>1. args[i] \in Operand /\ ops[i] = IF args[i] \in Loc THEN var[args[i]] ELSE args[i]
    BY <1>1, <1>2 DEF Operands
  <2>2. CASE args[i] \in Loc
    <3>1. var[args[i]] # NONE /\ args[i] \in Var
      BY <1>1, <2>2 DEF Known, Var
    <3> QED
      BY <2>1, <2>2, <3>1 DEF Sane, UsableIn, Typed
  <2>3. CASE args[i] \notin Loc
    BY <2>1, <2>3 DEF Operand, Usable, Inline, OBJ
  <2> QED
    BY <2>2, <2>3
<1>4. ops \in [1 .. n -> OBJ]
  <2>1. ops = [i \in 1 .. n |-> ops[i]]
    BY <1>1, <1>2 DEF Operands
  <2> QED
    BY <1>3, <2>1
<1>5. ops \in Seq(OBJ) /\ Len(ops) = n /\ DOMAIN ops = 1 .. n
  <2>1. n \in Nat
    BY <1>1
  <2> QED
    BY <1>4, <2>1, SeqDef, LenProperties
<1> QED
  BY <1>1, <1>2, <1>3, <1>5

\* A new object is made of values that can be used.
Makes(own) ==
  \E kind, elems : \E x \in Id : /\ heap[x] = FREE /\ Elementary(mode, heap, kind, elems)
                                 /\ Assign(own, build(heap, mode, kind, elems, x))

\* An object is made of its elements.
LEMMA BuildMakes ==
  ASSUME IInv, NEW own \in Loc, NEW kind \in BuiltKinds, NEW args \in Args, Build(own, kind, args)
  PROVE  Makes(own)
<1>1. PICK x \in Free : Assign(own, build(heap, mode, kind, Operands(args), x)) /\ Known(args)
  BY DEF Build
<1>2. mode \in {"normal", "try"} /\ x \in Id /\ heap[x] = FREE
  BY <1>1 DEF Assign, Evaluating, Free, Live
<1>3. Sane(mode, heap, var) /\ Evaluable(mode, heap)
  BY <1>2, SaneState DEF IInv, Sane
<1>4. Elementary(mode, heap, kind, Operands(args))
  <2>1. PICK n : n = Len(Operands(args))
    OBVIOUS
  <2>2. n \in 1 .. 2 /\ n <= MAX_LENGTH /\ n \in 1 .. Largest
    <3>1. n \in 1 .. 2
      BY <1>1, <1>3, <2>1, OperandFacts
    <3> QED
      BY <3>1, LargestFacts
  <2> QED
    BY <1>1, <1>3, <2>1, <2>2, OperandFacts, ProgramAssumption DEF Elementary
<1> QED
  BY <1>1, <1>2, <1>4 DEF Makes

\* Making an object keeps the invariant.
LEMMA MakesKeeps ==
  ASSUME IInv, NEW own \in Loc, Makes(own)
  PROVE  IInv'
<1>0. PICK kind, elems : \E x \in Id : /\ heap[x] = FREE /\ Elementary(mode, heap, kind, elems)
                                       /\ Assign(own, build(heap, mode, kind, elems, x))
  BY DEF Makes
<1>1. PICK x \in Id : /\ heap[x] = FREE /\ Elementary(mode, heap, kind, elems)
                      /\ Assign(own, build(heap, mode, kind, elems, x))
  BY <1>0
<1>2. mode \in {"normal", "try"}
  BY <1>1 DEF Assign, Evaluating
<1>3. Evaluable(mode, heap)
  BY <1>2, SaneState DEF IInv, Sane
<1>4. PICK made : made = build(heap, mode, kind, elems, x)
  OBVIOUS
<1>5. Made(mode, heap, made.heap, made.ref) /\ Counts(mode, heap, made.heap, made.ref)
  BY <1>1, <1>2, <1>3, <1>4, BuildFacts
<1> QED
  BY <1>1, <1>4, <1>5, AssignKeeps

\* A part of a sequence is another reference to it.
LEMMA SliceKeeps ==
  ASSUME IInv, NEW own \in Loc, NEW other \in Var,
         NEW first \in 0 .. MAX_LENGTH, NEW len \in 0 .. MAX_LENGTH, Slice(own, other, first, len)
  PROVE  IInv'
<1>1. PICK ref, made : ref = var[other] /\ made = get_seq_slice(heap, mode, ref, first, len)
  OBVIOUS
<1>2. /\ mode \in {"normal", "try"} /\ ref # NONE /\ is_seq(heap, ref)
      /\ first + len <= get_seq_length(ref) /\ Assign(own, made)
  BY <1>1 DEF Slice, HoldsSequence, Evaluating
<1>3. Sane(mode, heap, var) /\ Evaluable(mode, heap)
  BY <1>2, SaneState DEF IInv, Sane
<1>4. Usable(heap, ref)
  BY <1>1, <1>2, <1>3 DEF Sane, UsableIn
<1>5. first \in Nat /\ len \in Nat
  OBVIOUS
<1>6. Made(mode, heap, made.heap, made.ref) /\ Counts(mode, heap, made.heap, made.ref)
  BY <1>1, <1>2, <1>3, <1>4, <1>5, SliceFacts
<1> QED
  BY <1>2, <1>6, AssignKeeps

\* Another copy of a reference that can be used.
LEMMA CopyKeeps ==
  ASSUME IInv, NEW own \in Loc, NEW ref, Usable(heap, ref),
         Assign(own, [heap |-> add_ref(heap, mode, ref), ref |-> ref])
  PROVE  IInv'
<1>1. mode \in {"normal", "try"}
  BY DEF Assign, Evaluating
<1>2. Evaluable(mode, heap)
  BY <1>1, SaneState DEF IInv, Sane
<1>3. PICK made, h2 : made = [heap |-> add_ref(heap, mode, ref), ref |-> ref] /\ h2 = add_ref(heap, mode, ref)
  OBVIOUS
<1>4. Made(mode, heap, h2, ref) /\ Counts(mode, heap, h2, ref)
  BY <1>1, <1>2, <1>3, AliasFacts
<1>5. made.heap = h2 /\ made.ref = ref /\ Assign(own, made)
  BY <1>3
<1> QED
  BY <1>4, <1>5, AssignKeeps

\* A sequence can be extended with values that can be used, in its block or in x.
Lengthens(ref, new, x) ==
  /\ Usable(heap, ref) /\ is_ne_seq(heap, ref)
  /\ new \in Seq(OBJ) /\ (\A i \in DOMAIN new : Usable(heap, new[i])) /\ Extends(ref, new)
  /\ x \in BlockFor(ref, Len(new))

\* The elements of one that is made in the place of another.
LEMMA JoinedElementary ==
  ASSUME NEW md \in {"normal", "try"}, mode = md, Evaluable(md, heap),
         NEW ref, NEW new, NEW x, Lengthens(ref, new, x), ~ can_be_extended(heap, ref, Len(new))
  PROVE  /\ Elementary(mode, heap, "seq", SeqElems(heap, ref) \o new) /\ x \in Id /\ heap[x] = FREE
         /\ extend_sequence(heap, mode, ref, new, x) = build(heap, mode, "seq", SeqElems(heap, ref) \o new, x)
<1>1. /\ Usable(heap, ref) /\ is_seq(heap, ref) /\ get_seq_length(ref) = ref.len /\ ref.len + Len(new) <= MAX_LENGTH
      /\ new \in Seq(OBJ) /\ (\A i \in DOMAIN new : Usable(heap, new[i])) /\ x \in BlockFor(ref, Len(new))
  BY DEF Lengthens, is_ne_seq, is_seq, get_seq_length, Extends, Inline
<1>2. PICK s, all : s = SeqElems(heap, ref) /\ all = s \o new
  OBVIOUS
<1>3. s \in Seq(OBJ) /\ Len(s) = ref.len /\ \A i \in DOMAIN s : Usable(heap, s[i])
  BY <1>1, <1>2, ShownFacts
<1>4. /\ all \in Seq(OBJ) /\ Len(all) = Len(s) + Len(new) /\ DOMAIN all = 1 .. Len(all)
      /\ Len(s) \in Nat /\ Len(new) \in Nat /\ DOMAIN s = 1 .. Len(s) /\ DOMAIN new = 1 .. Len(new)
      /\ \A i \in 1 .. Len(s) + Len(new) : all[i] = IF i <= Len(s) THEN s[i] ELSE new[i - Len(s)]
  BY <1>1, <1>2, <1>3, ConcatProperties, LenProperties
<1>5. ASSUME NEW i \in DOMAIN all
      PROVE  Usable(heap, all[i])
  <2>1. i \in 1 .. Len(s) + Len(new)
    BY <1>4, <1>5
  <2>2. CASE i <= Len(s)
    <3>1. i \in DOMAIN s
      BY <1>4, <2>1, <2>2
    <3> QED
      BY <1>3, <1>4, <2>1, <2>2, <3>1
  <2>3. CASE ~ (i <= Len(s))
    <3>1. i - Len(s) \in DOMAIN new
      BY <1>4, <2>1, <2>3
    <3> QED
      BY <1>1, <1>4, <2>1, <2>3, <3>1
  <2> QED
    BY <2>2, <2>3
<1>6. Elementary(mode, heap, "seq", all)
  BY <1>1, <1>3, <1>4, <1>5 DEF Elementary, Kinds
<1>7. x \in Id /\ heap[x] = FREE
  BY <1>1 DEF BlockFor, Free, Live
<1>8. extend_sequence(heap, mode, ref, new, x) = build(heap, mode, "seq", all, x)
  BY <1>2 DEF extend_sequence
<1> QED
  BY <1>2, <1>6, <1>7, <1>8

\* In its block a transaction appends nothing to a standard sequence that it counts.
LEMMA LongerInPlace ==
  ASSUME ~ TRY_EXTENDS_STD, NEW ref, NEW new, NEW x, Lengthens(ref, new, x), can_be_extended(heap, ref, Len(new))
  PROVE  Extendable(mode, heap, ref, new)
<1>1. /\ Usable(heap, ref) /\ ref \notin Inline /\ heap[ref.obj].kind = "seq" /\ ref # EMPTY_SEQ
      /\ new \in Seq(OBJ) /\ (\A i \in DOMAIN new : Usable(heap, new[i])) /\ Extends(ref, new)
  BY DEF Lengthens, is_ne_seq, Inline
<1>2. ref.len + Len(new) <= MAX_LENGTH
  BY <1>1 DEF Extends, get_seq_length
<1>3. mode = "try" /\ ref.mem = "std" => \A i \in DOMAIN new : new[i] \in Inline
  BY <1>1 DEF Extends
<1> QED
  BY <1>1, <1>2, <1>3 DEF Extendable

\* A sequence extended, in its block or in another, with what is allowed.
LEMMA ExtendMade ==
  ASSUME NEW md \in {"normal", "try"}, mode = md, Evaluable(md, heap), ~ TRY_EXTENDS_STD,
         NEW ref, NEW new, NEW x, Lengthens(ref, new, x), NEW made, made = extend_sequence(heap, mode, ref, new, x)
  PROVE  Made(mode, heap, made.heap, made.ref) /\ Counts(mode, heap, made.heap, made.ref)
<1>1. CASE can_be_extended(heap, ref, Len(new))
  <2>1. PICK h2, longer : /\ h2 = vec_add_ref([heap EXCEPT ![ref.obj].elems = @ \o new], mode, Append(new, ref))
                          /\ longer = make_slice(ref.obj, ref.mem, ref.off, ref.len + Len(new))
    OBVIOUS
  <2>2. Extendable(mode, heap, ref, new)
    BY <1>1, LongerInPlace
  <2>3. Made(mode, heap, h2, longer) /\ Counts(mode, heap, h2, longer)
    BY <2>1, <2>2, ExtendFacts
  <2>4. made.heap = h2 /\ made.ref = longer
    BY <1>1, <2>1 DEF extend_sequence
  <2> QED
    BY <2>3, <2>4
<1>2. CASE ~ can_be_extended(heap, ref, Len(new))
  <2>1. PICK all : all = SeqElems(heap, ref) \o new
    OBVIOUS
  <2>2. Elementary(mode, heap, "seq", all) /\ x \in Id /\ heap[x] = FREE /\ made = build(heap, mode, "seq", all, x)
    BY <1>2, <2>1, JoinedElementary
  <2> QED
    BY <2>2, BuildFacts
<1> QED
  BY <1>1, <1>2

\* Concatenating is sharing one sequence, or extending it with the other.
LEMMA ConcatFacts ==
  ASSUME IInv, NEW own \in Loc, NEW left \in Var, NEW right \in Var, Concat(own, left, right)
  PROVE  \/ \E ref : Usable(heap, ref) /\ Assign(own, [heap |-> add_ref(heap, mode, ref), ref |-> ref])
         \/ \E ref, new, x : Lengthens(ref, new, x) /\ Assign(own, extend_sequence(heap, mode, ref, new, x))
<1>1. PICK r, s : r = var[left] /\ s = var[right]
  OBVIOUS
<1>2. mode \in {"normal", "try"} /\ r # NONE /\ s # NONE /\ is_seq(heap, r) /\ is_seq(heap, s)
  BY <1>1 DEF Concat, HoldsSequence, Evaluating
<1>3. Sane(mode, heap, var) /\ Evaluable(mode, heap)
  BY <1>2, SaneState DEF IInv, Sane
<1>4. Usable(heap, r) /\ Usable(heap, s)
  BY <1>1, <1>2, <1>3 DEF Sane, UsableIn
<1>5. CASE s = EMPTY_SEQ
  <2>1. Assign(own, [heap |-> add_ref(heap, mode, r), ref |-> r])
    BY <1>1, <1>5 DEF Concat
  <2> QED
    BY <1>4, <2>1
<1>6. CASE s # EMPTY_SEQ /\ r = EMPTY_SEQ
  <2>1. Assign(own, [heap |-> add_ref(heap, mode, s), ref |-> s])
    BY <1>1, <1>6 DEF Concat
  <2> QED
    BY <1>4, <2>1
<1>7. CASE s # EMPTY_SEQ /\ r # EMPTY_SEQ
  <2>1. PICK new : new = SeqElems(heap, s)
    OBVIOUS
  <2>2. new \in Seq(OBJ) /\ Len(new) = get_seq_length(s) /\ \A i \in DOMAIN new : Usable(heap, new[i])
    BY <1>2, <1>3, <1>4, <2>1, ShownFacts
  <2>3. Extends(r, new) /\ \E x \in BlockFor(r, get_seq_length(s)) : Assign(own, extend_sequence(heap, mode, r, new, x))
    BY <1>1, <1>7, <2>1 DEF Concat
  <2>4. PICK x \in BlockFor(r, Len(new)) : Assign(own, extend_sequence(heap, mode, r, new, x))
    BY <2>2, <2>3
  <2>5. is_ne_seq(heap, r)
    BY <1>2, <1>7 DEF is_seq
  <2>6. Lengthens(r, new, x)
    BY <1>4, <2>2, <2>3, <2>4, <2>5 DEF Lengthens
  <2> QED
    BY <2>4, <2>6
<1> QED
  BY <1>5, <1>6, <1>7

\* The concatenation of two sequences keeps the invariant.
LEMMA ConcatKeeps ==
  ASSUME IInv, ~ TRY_EXTENDS_STD, NEW own \in Loc, NEW left \in Var, NEW right \in Var, Concat(own, left, right)
  PROVE  IInv'
<1>1. CASE \E ref : Usable(heap, ref) /\ Assign(own, [heap |-> add_ref(heap, mode, ref), ref |-> ref])
  BY <1>1, CopyKeeps
<1>2. CASE \E ref, new, x : Lengthens(ref, new, x) /\ Assign(own, extend_sequence(heap, mode, ref, new, x))
  <2>1. PICK ref, new, x : Lengthens(ref, new, x) /\ Assign(own, extend_sequence(heap, mode, ref, new, x))
    BY <1>2
  <2>2. mode \in {"normal", "try"}
    BY <2>1 DEF Assign, Evaluating
  <2>3. Evaluable(mode, heap)
    BY <2>2, SaneState DEF IInv, Sane
  <2>4. PICK made : made = extend_sequence(heap, mode, ref, new, x)
    OBVIOUS
  <2>5. Made(mode, heap, made.heap, made.ref) /\ Counts(mode, heap, made.heap, made.ref)
    BY <2>1, <2>2, <2>3, <2>4, ExtendMade
  <2> QED
    BY <2>1, <2>4, <2>5, AssignKeeps
<1> QED
  BY <1>1, <1>2, ConcatFacts

\* A sequence with another element in the place of one.
LEMMA UpdateMakes ==
  ASSUME IInv, NEW own \in Loc, NEW other \in Var, NEW i \in 1 .. MAX_LENGTH, NEW arg \in Operand,
         Update(own, other, i, arg)
  PROVE  Makes(own)
<1>1. PICK ref, op, s, all : /\ ref = var[other] /\ op = Operands(<<arg>>)[1]
                             /\ s = SeqElems(heap, ref) /\ all = [s EXCEPT ![i] = op]
  OBVIOUS
<1>2. /\ mode \in {"normal", "try"} /\ ref # NONE /\ is_seq(heap, ref)
      /\ i \in 1 .. get_seq_length(ref) /\ Known(<<arg>>)
      /\ \E x \in Free : Assign(own, build(heap, mode, "seq", all, x))
  BY <1>1 DEF Update, HoldsSequence, Evaluating
<1>3. PICK x \in Free : Assign(own, build(heap, mode, "seq", all, x))
  BY <1>2
<1>4. Sane(mode, heap, var) /\ Evaluable(mode, heap)
  BY <1>2, SaneState DEF IInv, Sane
<1>5. Usable(heap, ref)
  BY <1>1, <1>2, <1>4 DEF Sane, UsableIn
<1>6. op \in OBJ /\ Usable(heap, op)
  <2>1. PICK ops : ops = Operands(<<arg>>)
    OBVIOUS
  <2>2. <<arg>> \in Args
    BY DEF Args
  <2>3. ops \in Seq(OBJ) /\ Len(ops) \in 1 .. 2 /\ DOMAIN ops = 1 .. Len(ops) /\ \A j \in DOMAIN ops : Usable(heap, ops[j])
    BY <1>2, <1>4, <2>1, <2>2, OperandFacts
  <2>4. 1 \in DOMAIN ops
    BY <2>3
  <2> QED
    BY <1>1, <1>2, <1>4, <2>1, <2>3, <2>4, EvaluableFacts
<1>7. /\ s \in Seq(OBJ) /\ Len(s) = get_seq_length(ref) /\ get_seq_length(ref) \in 0 .. MAX_LENGTH
      /\ DOMAIN s = 1 .. get_seq_length(ref) /\ \A j \in DOMAIN s : Usable(heap, s[j])
  BY <1>1, <1>2, <1>4, <1>5, ShownFacts
<1>8. all \in Seq(OBJ) /\ Len(all) = Len(s) /\ DOMAIN all = DOMAIN s /\ \A j \in DOMAIN all : Usable(heap, all[j])
  <2>1. \A j \in DOMAIN s : all[j] = IF j = i THEN op ELSE s[j]
    BY <1>1
  <2>2. DOMAIN all = DOMAIN s
    BY <1>1
  <2>3. all \in Seq(OBJ) /\ Len(all) = Len(s)
    BY <1>1, <1>2, <1>6, <1>7, ExceptSeq
  <2> QED
    BY <1>6, <1>7, <2>1, <2>2, <2>3
<1>9. Elementary(mode, heap, "seq", all)
  BY <1>7, <1>8, LargestFacts DEF Elementary, Kinds
<1>10. x \in Id /\ heap[x] = FREE
  BY DEF Free, Live
<1> QED
  BY <1>3, <1>9, <1>10 DEF Makes

\* An element that was read is kept.
LEMMA AtKeeps ==
  ASSUME IInv, NEW own \in Loc, NEW other \in Var, NEW i \in 1 .. MAX_LENGTH, At(own, other, i)
  PROVE  IInv'
<1>1. PICK ref, e : ref = var[other] /\ e = Elements(ref)[i]
  OBVIOUS
<1>2. mode \in {"normal", "try"} /\ i \in DOMAIN Elements(ref)
      /\ Assign(own, [heap |-> add_ref(heap, mode, e), ref |-> e])
  BY <1>1 DEF At, Evaluating
<1>3. Sane(mode, heap, var) /\ Evaluable(mode, heap)
  BY <1>2, SaneState DEF IInv, Sane
<1>4. ref \notin Inline \cup {NONE}
  BY <1>2 DEF Elements
<1>5. Usable(heap, ref) /\ ref.obj \in Live(heap)
  BY <1>1, <1>3, <1>4, <1>2, EvaluableFacts DEF Sane, UsableIn
<1>6. Usable(heap, e)
  <2>1. CASE is_seq(heap, ref)
    <3>1. PICK s : s = SeqElems(heap, ref)
      OBVIOUS
    <3>2. \A j \in DOMAIN s : Usable(heap, s[j])
      BY <1>2, <1>3, <1>5, <2>1, <3>1, ShownFacts
    <3>3. Elements(ref) = s
      BY <1>4, <2>1, <3>1 DEF Elements
    <3> QED
      BY <1>1, <1>2, <3>2, <3>3
  <2>2. CASE ~ is_seq(heap, ref)
    <3>1. Elements(ref) = heap[ref.obj].elems
      BY <1>4, <2>2 DEF Elements
    <3> QED
      BY <1>1, <1>2, <1>3, <1>5, <3>1, EvaluableFacts
  <2> QED
    BY <2>1, <2>2
<1> QED
  BY <1>2, <1>6, CopyKeeps

\* Another variable gets the reference.
LEMMA AliasKeeps ==
  ASSUME IInv, NEW own \in Loc, NEW other \in Var, Alias(own, other)
  PROVE  IInv'
<1>1. mode \in {"normal", "try"} /\ var[other] # NONE
      /\ Assign(own, [heap |-> add_ref(heap, mode, var[other]), ref |-> var[other]])
  BY DEF Alias, Assign, Evaluating
<1>2. Usable(heap, var[other])
  BY <1>1, SaneState DEF IInv, Sane, UsableIn
<1> QED
  BY <1>1, <1>2, CopyKeeps

\* A value that is inline is let go of without a release.
LEMMA ForgetSane ==
  ASSUME NEW md \in {"normal", "try"}, NEW h, NEW va, Sane(md, h, va), NEW own \in Var, va[own] \in Inline
  PROVE  Sane(md, h, Without(va, own))
<1>1. PICK vb, r : vb = Without(va, own) /\ r = va[own]
  OBVIOUS
<1>2. /\ Evaluable(md, h) /\ Typed(va) /\ UsableIn(h, va, Var) /\ GlobalsInStd(va)
      /\ \A m \in Memory : Accounted(md, h, va, m)
  BY DEF Sane
<1>3. r \in OBJ \cup {NONE} /\ r \in Inline
  BY <1>1 DEF OBJ
<1>4. /\ Typed(vb) /\ vb[own] = NONE /\ \A other \in Var : other # own => vb[other] = va[other]
      /\ \A m, x : \A owners \in SUBSET Var :
           HeldBy(va, m, owners, x) = HeldBy(vb, m, owners, x) + (IF own \in owners THEN One(m, r, x) ELSE 0)
  <2>1. Holding(va, own, r) = va
    BY <1>1, <1>2, <1>3, HoldingFacts
  <2> QED
    BY <1>1, <1>2, <1>3, <2>1, HoldingFacts
<1>5. UsableIn(h, vb, Var) /\ GlobalsInStd(vb)
  BY <1>2, <1>4 DEF UsableIn, GlobalsInStd, Var
<1>6. ASSUME NEW m \in Memory
      PROVE  Accounted(md, h, vb, m)
  <2>1. Owners(md, m) \in SUBSET Var
    BY <1>2, OuterFacts
  <2>2. \A x \in Id : HeldBy(va, m, Owners(md, m), x) = HeldBy(vb, m, Owners(md, m), x)
    <3>1. \A x : One(m, r, x) = 0
      BY <1>3 DEF One, Refers
    <3>2. \A x : HeldBy(vb, m, Owners(md, m), x) \in Nat
      BY <1>4, <2>1, HeldFacts
    <3> QED
      BY <1>4, <2>1, <3>1, <3>2
  <2>3. [x \in Id |-> HeldBy(va, m, Owners(md, m), x)] = [x \in Id |-> HeldBy(vb, m, Owners(md, m), x)]
    BY <2>2
  <2>4. Accounted(md, h, va, m)
    BY <1>2, <1>6
  <2> QED
    BY <2>3, <2>4 DEF Accounted
<1> QED
  BY <1>1, <1>2, <1>4, <1>5, <1>6 DEF Sane

\* Appending makes a sequence in the place of the empty one, or extends one and
\* releases it.
Starts(own, new, x) ==
  /\ heap[x] = FREE /\ Elementary(mode, heap, "seq", new)
  /\ heap' = build(heap, mode, "seq", new, x).heap
  /\ var' = Holding(var, own, build(heap, mode, "seq", new, x).ref)
  /\ stray' = stray
GoesOn(own, ref, new, x) ==
  LET made == extend_sequence(heap, mode, ref, new, x)
  IN  /\ Lengthens(ref, new, x)
      /\ heap' = release(made.heap, mode, ref)
      /\ var' = Holding(var, own, made.ref)
      /\ stray' = (stray \/ ReachesFree(made.heap, mode, ref))

\* What is appended can be used.
LEMMA AppendFacts ==
  ASSUME IInv, NEW own \in Loc, NEW arg \in Operand, AppendTo(own, arg)
  PROVE  \E ref, new :
           /\ mode \in {"normal", "try"} /\ own \in Var /\ mode' = mode /\ ref = var[own] /\ Usable(heap, ref)
           /\ ref = EMPTY_SEQ => \E x \in Id : Starts(own, new, x)
           /\ ref # EMPTY_SEQ => \E x : GoesOn(own, ref, new, x)
<1>0. PICK ref, new : ref = var[own] /\ new = Operands(<<arg>>)
  OBVIOUS
<1>1. /\ mode \in {"normal", "try"} /\ ref # NONE /\ is_seq(heap, ref) /\ Known(<<arg>>) /\ mode' = mode
      /\ own \in Var
  BY <1>0 DEF AppendTo, HoldsSequence, Evaluating, Var
<1>2. Sane(mode, heap, var)
  BY <1>1, SaneState DEF IInv
<1>3. Usable(heap, ref)
  BY <1>0, <1>1, <1>2 DEF Sane, UsableIn
<1>4. new \in Seq(OBJ) /\ Len(new) = 1 /\ \A i \in DOMAIN new : Usable(heap, new[i])
  <2>1. <<arg>> \in Args
    BY DEF Args
  <2>2. new \in Seq(OBJ) /\ \A i \in DOMAIN new : Usable(heap, new[i])
    BY <1>0, <1>1, <1>2, <2>1, OperandFacts
  <2>3. Len(new) = 1
    <3>1. new = [i \in DOMAIN <<arg>> |-> new[i]] /\ DOMAIN <<arg>> = 1 .. 1
      BY <1>0 DEF Operands
    <3> QED
      BY <2>2, <3>1, LenProperties
  <2> QED
    BY <2>2, <2>3
<1>5. ASSUME ref = EMPTY_SEQ
      PROVE  \E x \in Id : Starts(own, new, x)
  <2>1. PICK x \in BlockFor(ref, 1) : /\ heap' = build(heap, mode, "seq", new, x).heap
                                      /\ var' = Holding(var, own, build(heap, mode, "seq", new, x).ref)
                                      /\ stray' = stray
    BY <1>0, <1>5 DEF AppendTo, Holding
  <2>2. x \in Id /\ heap[x] = FREE
    BY <1>5 DEF BlockFor, Free, Live
  <2>3. Elementary(mode, heap, "seq", new)
    BY <1>4, LargestFacts DEF Elementary, Kinds
  <2> QED
    BY <2>1, <2>2, <2>3 DEF Starts
<1>6. ASSUME ref # EMPTY_SEQ
      PROVE  \E x : GoesOn(own, ref, new, x)
  <2>1. PICK x \in BlockFor(ref, 1) :
          /\ Extends(ref, new)
          /\ heap' = release(extend_sequence(heap, mode, ref, new, x).heap, mode, ref)
          /\ var' = Holding(var, own, extend_sequence(heap, mode, ref, new, x).ref)
          /\ stray' = (stray \/ ReachesFree(extend_sequence(heap, mode, ref, new, x).heap, mode, ref))
    BY <1>0, <1>6 DEF AppendTo, Holding
  <2>2. is_ne_seq(heap, ref)
    BY <1>1, <1>6 DEF is_seq
  <2>3. Lengthens(ref, new, x)
    BY <1>3, <1>4, <2>1, <2>2 DEF Lengthens
  <2> QED
    BY <2>1, <2>3 DEF GoesOn
<1> QED
  BY <1>0, <1>1, <1>3, <1>5, <1>6

\* An element is appended to the sequence of a variable.
LEMMA AppendKeeps ==
  ASSUME IInv, ~ TRY_EXTENDS_STD, NEW own \in Loc, NEW arg \in Operand, AppendTo(own, arg)
  PROVE  IInv'
<1>1. PICK ref, new :
        /\ mode \in {"normal", "try"} /\ own \in Var /\ mode' = mode /\ ref = var[own] /\ Usable(heap, ref)
        /\ ref = EMPTY_SEQ => \E x \in Id : Starts(own, new, x)
        /\ ref # EMPTY_SEQ => \E x : GoesOn(own, ref, new, x)
  BY AppendFacts
<1>2. Sane(mode, heap, var) /\ Evaluable(mode, heap) /\ stray = FALSE /\ Typed(var)
  BY <1>1, SaneState DEF IInv, Sane
<1>3. CASE ref = EMPTY_SEQ
  <2>1. PICK x \in Id : Starts(own, new, x)
    BY <1>1, <1>3
  <2>2. PICK one, vb : one = build(heap, mode, "seq", new, x) /\ vb = Without(var, own)
    OBVIOUS
  <2>3. heap[x] = FREE /\ Elementary(mode, heap, "seq", new)
    BY <2>1 DEF Starts
  <2>4. Made(mode, heap, one.heap, one.ref) /\ Counts(mode, heap, one.heap, one.ref)
    BY <1>1, <1>2, <2>2, <2>3, BuildFacts
  <2>5. Sane(mode, heap, vb) /\ vb[own] = NONE
    <3>1. var[own] \in Inline
      BY <1>1, <1>3 DEF Inline
    <3> QED
      BY <1>1, <1>2, <2>2, <3>1, ForgetSane DEF Typed, Without
  <2>6. Sane(mode, one.heap, Holding(vb, own, one.ref))
    BY <1>1, <2>4, <2>5, AssignSane
  <2>7. Holding(vb, own, one.ref) = Holding(var, own, one.ref)
    BY <2>2 DEF Holding, Without
  <2>8. heap' = one.heap /\ var' = Holding(var, own, one.ref) /\ stray' = stray
    BY <2>1, <2>2 DEF Starts
  <2>9. Sane(mode', heap', var')
    BY <1>1, <2>6, <2>7, <2>8
  <2> QED
    BY <1>1, <1>2, <2>8, <2>9, SaneState DEF IInv
<1>4. CASE ref # EMPTY_SEQ
  <2>1. PICK x : GoesOn(own, ref, new, x)
    BY <1>1, <1>4
  <2>2. PICK made : made = extend_sequence(heap, mode, ref, new, x)
    OBVIOUS
  <2>3. /\ Lengthens(ref, new, x) /\ heap' = release(made.heap, mode, ref) /\ var' = Holding(var, own, made.ref)
        /\ stray' = (stray \/ ReachesFree(made.heap, mode, ref))
    BY <2>1, <2>2 DEF GoesOn
  <2>4. Made(mode, heap, made.heap, made.ref) /\ Counts(mode, heap, made.heap, made.ref)
    BY <1>1, <1>2, <2>2, <2>3, ExtendMade
  <2>5. PICK h1, r1 : h1 = made.heap /\ r1 = made.ref
    OBVIOUS
  <2>6. var[own] # NONE
    BY <1>1, InlineAssumption DEF Usable, Inline, Ref
  <2>7. Sane(mode, release(h1, mode, ref), Holding(var, own, r1)) /\ ~ ReachesFree(h1, mode, ref)
    BY <1>1, <1>2, <2>4, <2>5, <2>6, ReplaceSane
  <2>8. Sane(mode', heap', var') /\ stray' = FALSE
    BY <1>1, <1>2, <2>3, <2>5, <2>7
  <2> QED
    BY <1>1, <2>8, SaneState DEF IInv
<1> QED
  BY <1>3, <1>4

\* A variable is dropped.
LEMMA DropKeeps ==
  ASSUME IInv, NEW own \in Loc, Drop(own)
  PROVE  IInv'
<1>1. /\ mode \in {"normal", "try"} /\ var[own] # NONE /\ mode' = mode /\ own \in Var
      /\ heap' = release(heap, mode, var[own]) /\ var' = Without(var, own)
      /\ stray' = (stray \/ ReachesFree(heap, mode, var[own]))
  BY DEF Drop, Evaluating, Without, Var
<1>2. Sane(mode, heap, var) /\ stray = FALSE
  BY <1>1, SaneState DEF IInv
<1>3. Sane(mode, heap', Without(var, own)) /\ ~ ReachesFree(heap, mode, var[own])
  BY <1>1, <1>2, DropSane
<1>4. Sane(mode', heap', var') /\ stray' = FALSE
  BY <1>1, <1>2, <1>3
<1> QED
  BY <1>1, <1>4, SaneState DEF IInv

\* A global takes over the reference of a local variable.
LEMMA StoreKeeps ==
  ASSUME IInv, NEW g \in Glob, NEW own \in Loc, Store(g, own)
  PROVE  IInv'
<1>1. /\ mode = "normal" /\ mode' = mode /\ heap' = heap /\ stray' = stray
      /\ var[own] # NONE /\ var[g] = NONE /\ var' = [var EXCEPT ![g] = var[own], ![own] = NONE]
  BY DEF Store
<1>2. Sane(mode, heap, var) /\ stray = FALSE
  BY <1>1, SaneState DEF IInv
<1>3. PICK r, vb, vc : r = var[own] /\ vb = Without(var, own) /\ vc = Holding(vb, g, r)
  OBVIOUS
<1>4. g \in Var /\ own \in Var /\ g # own
  BY ProgramAssumption DEF Var
<1>5. /\ Evaluable(mode, heap) /\ Typed(var) /\ UsableIn(heap, var, Var) /\ GlobalsInStd(var)
      /\ \A m \in Memory : Accounted(mode, heap, var, m)
  BY <1>2 DEF Sane
<1>6. r \in OBJ /\ Usable(heap, r) /\ InStd(r)
  BY <1>1, <1>3, <1>4, <1>5, EvaluableFacts DEF UsableIn, Typed
<1>7. /\ Typed(vb) /\ vb[own] = NONE /\ \A other \in Var : other # own => vb[other] = var[other]
      /\ \A m, x : \A owners \in SUBSET Var :
           HeldBy(var, m, owners, x) = HeldBy(vb, m, owners, x) + (IF own \in owners THEN One(m, r, x) ELSE 0)
  <2>1. Holding(var, own, r) = var /\ r \in OBJ \cup {NONE}
    BY <1>3, <1>4, <1>5, <1>6, HoldingFacts
  <2> QED
    BY <1>3, <1>4, <1>5, <2>1, HoldingFacts
<1>8. /\ Typed(vc) /\ vc[g] = r /\ \A other \in Var : other # g => vc[other] = vb[other]
      /\ \A m, x : \A owners \in SUBSET Var :
           HeldBy(vc, m, owners, x) = HeldBy(vb, m, owners, x) + (IF g \in owners THEN One(m, r, x) ELSE 0)
  <2>1. vb[g] = NONE /\ r \in OBJ \cup {NONE}
    BY <1>1, <1>4, <1>6, <1>7
  <2>2. Without(vb, g) = vb
    BY <1>4, <1>7, <2>1, HoldingFacts
  <2> QED
    BY <1>3, <1>4, <1>7, <2>1, <2>2, HoldingFacts
<1>9. var' = vc
  BY <1>1, <1>3, <1>4, <1>5 DEF Typed, Holding, Without
<1>10. UsableIn(heap, vc, Var) /\ GlobalsInStd(vc)
  <2>1. \A other \in Var : other # g => vc[other] = NONE \/ vc[other] = var[other]
    BY <1>7, <1>8
  <2> QED
    BY <1>4, <1>5, <1>6, <1>8, <2>1 DEF UsableIn, GlobalsInStd, Var
<1>11. ASSUME NEW m \in Memory
       PROVE  Accounted(mode, heap, vc, m)
  <2>1. CASE m = "try"
    <3>1. Objects(heap, m) = {}
      BY <1>1, <1>5, <2>1 DEF Evaluable
    <3> QED
      BY <3>1 DEF Accounted, Balanced
  <2>2. CASE m # "try"
    <3>1. Owners(mode, m) = Var /\ Var \in SUBSET Var
      BY <1>1, <2>2 DEF Owners
    <3>2. \A x \in Id : HeldBy(vc, m, Var, x) = HeldBy(var, m, Var, x)
      BY <1>4, <1>7, <1>8, <3>1
    <3>3. [x \in Id |-> HeldBy(vc, m, Var, x)] = [x \in Id |-> HeldBy(var, m, Var, x)]
      BY <3>2
    <3>4. Accounted(mode, heap, var, m)
      BY <1>5, <1>11
    <3> QED
      BY <3>1, <3>3, <3>4 DEF Accounted
  <2> QED
    BY <2>1, <2>2
<1>12. Sane(mode, heap, vc)
  BY <1>5, <1>8, <1>10, <1>11 DEF Sane
<1>13. Sane(mode', heap', var') /\ stray' = FALSE
  BY <1>1, <1>2, <1>9, <1>12
<1> QED
  BY <1>1, <1>13, SaneState DEF IInv

-----------------------------------------------------------------------------
(***************************************************************************)
(* The steps between evaluating, copying and neither.                      *)
(***************************************************************************)
\* What variables hold the same references count the same.
LEMMA SameHeld ==
  ASSUME NEW va, NEW vb, NEW owners, \A own \in owners : va[own] = vb[own], NEW m, NEW x
  PROVE  HeldBy(va, m, owners, x) = HeldBy(vb, m, owners, x)
BY DEF HeldBy

\* Variables that hold nothing count for nothing.
LEMMA UnsetHeld ==
  ASSUME NEW va, \A own \in Loc : va[own] = NONE, NEW m, NEW x
  PROVE  HeldBy(va, m, Var, x) = HeldBy(va, m, Glob, x) /\ HeldBy(va, m, Loc, x) = 0
<1>1. {own \in Var : Refers(m, va[own], x)} = {own \in Glob : Refers(m, va[own], x)}
  BY DEF Var, Refers
<1>2. {own \in Loc : Refers(m, va[own], x)} = {}
  BY DEF Refers
<1> QED
  BY <1>1, <1>2, FS_EmptySet DEF HeldBy

\* What a global holds is an object in standard memory, that was not copied.
LEMMA LastingFacts ==
  ASSUME NEW md, NEW h, NEW va, Lasting(md, h, va), NEW own \in Glob, va[own] # NONE
  PROVE  /\ Usable(h, va[own]) /\ va[own] \in OBJ
         /\ va[own] \notin Inline => /\ va[own].obj \in Objects(h, "std") /\ Refers("std", va[own], va[own].obj)
                                     /\ h[va[own].obj].copy = NONE
<1>1. HeapOK(h) /\ Usable(h, va[own]) /\ InStd(va[own])
  BY DEF Lasting, UsableIn, GlobalsInStd
<1>2. va[own] \in OBJ
  BY <1>1 DEF Usable, OBJ
<1>3. ASSUME va[own] \notin Inline
      PROVE  /\ va[own].obj \in Objects(h, "std") /\ Refers("std", va[own], va[own].obj)
             /\ h[va[own].obj].copy = NONE
  <2>1. Refers("std", va[own], va[own].obj)
    BY <1>1, <1>3 DEF InStd, Refers
  <2>2. va[own].obj \in Objects(h, "std")
    BY <1>1, <2>1, UsableRefers
  <2>3. h[va[own].obj].copy = NONE
    BY <1>1, <2>2, LiveFacts DEF Objects, ObjectOK
  <2> QED
    BY <2>1, <2>2, <2>3
<1> QED
  BY <1>1, <1>2, <1>3

\* A global is released: outside of a transaction as any variable, in one when
\* what is left of it is standard memory.
LEMMA ReleaseGlobalKeeps ==
  ASSUME IInv, NEW g \in Glob, Release(g)
  PROVE  IInv'
<1>1. /\ mode \in {"normal", "copying"} /\ mode' = mode /\ var[g] # NONE
      /\ heap' = release(heap, mode, var[g])
      /\ stray' = (stray \/ ReachesFree(heap, mode, var[g]))
      /\ var' = [own \in Var |-> IF own = g \/ (own \in Loc /\ mode = "copying") THEN NONE ELSE var[own]]
  BY DEF Release
<1>2. StateInv(mode, heap, var) /\ stray = FALSE /\ g \in Var
  BY DEF IInv, Var
<1>3. CASE mode = "normal"
  <2>1. Sane(mode, heap, var) /\ Typed(var)
    BY <1>2, <1>3, SaneState DEF Sane
  <2>2. var' = Without(var, g)
    BY <1>1, <1>3, <2>1 DEF Without, Typed
  <2>3. Sane(mode, heap', Without(var, g)) /\ ~ ReachesFree(heap, mode, var[g])
    BY <1>1, <1>2, <1>3, <2>1, DropSane
  <2>4. Sane(mode', heap', var') /\ stray' = FALSE
    BY <1>1, <1>2, <2>2, <2>3
  <2> QED
    BY <1>1, <1>3, <2>4, SaneState DEF IInv
<1>4. CASE mode = "copying"
  <2>1. PICK h2, vb, vc, old, ext : /\ h2 = release(heap, mode, var[g]) /\ old = var[g]
                                    /\ vb = [own \in Var |-> IF own = g \/ own \in Loc THEN NONE ELSE var[own]]
                                    /\ vc = Without(var, g)
                                    /\ ext = Outer("copying", vc, "std")
    OBVIOUS
  <2>2. /\ Lasting("copying", heap, var) /\ HeapOK(heap) /\ Closed(heap, "std") /\ Typed(var)
        /\ Accounted("copying", heap, var, "std")
    BY <1>2, <1>4 DEF StateInv, Lasting
  <2>3. Usable(heap, old) /\ old \in OBJ /\ CurrMemory("copying") = "std" /\ Owners("copying", "std") = Glob
    BY <1>1, <2>1, <2>2, LastingFacts DEF CurrMemory, Owners
  <2>4. /\ Typed(vc) /\ \A other \in Var : other # g => vc[other] = var[other]
        /\ \A x : HeldBy(var, "std", Glob, x) = HeldBy(vc, "std", Glob, x) + One("std", old, x)
    <3>1. Holding(var, g, old) = var /\ old \in OBJ \cup {NONE}
      BY <1>2, <2>1, <2>2, <2>3, HoldingFacts
    <3>2. Glob \in SUBSET Var /\ g \in Glob
      BY DEF Var
    <3>3. /\ Typed(vc) /\ \A other \in Var : other # g => vc[other] = var[other]
          /\ \A m, x : \A owners \in SUBSET Var :
               HeldBy(var, m, owners, x) = HeldBy(vc, m, owners, x) + (IF g \in owners THEN One(m, old, x) ELSE 0)
      BY <1>2, <2>1, <2>2, <3>1, HoldingFacts
    <3> QED
      BY <3>2, <3>3
  <2>5. ext \in [Id -> Nat] /\ \A x \in Id : ext[x] = HeldBy(vc, "std", Glob, x)
    BY <2>1, <2>3, <2>4, OuterFacts DEF Outer
  <2>6. Releasable(heap, "std", old, ext)
    <3>1. Alive(heap, "std", Objects(heap, "std"))
      BY <2>2, UsableAlive DEF Closed
    <3>2. \A x : Refers("std", old, x) => x \in Objects(heap, "std")
      BY <2>2, <2>3, UsableRefers
    <3>3. [x \in Id |-> HeldBy(var, "std", Glob, x)] = [x \in Id |-> ext[x] + One("std", old, x)]
      BY <2>4, <2>5
    <3>4. Balanced(heap, "std", [x \in Id |-> ext[x] + One("std", old, x)])
      BY <2>2, <2>3, <3>3 DEF Accounted
    <3> QED
      BY <3>1, <3>2, <3>4 DEF Releasable
  <2>7. h2 = release(heap, "copying", old)
    BY <1>4, <2>1
  <2>8. PICK c : c = "std"
    OBVIOUS
  <2>9. c = CurrMemory("copying") /\ Releasable(heap, c, old, ext)
    BY <2>3, <2>6, <2>8
  <2>10. /\ HeapOK(h2) /\ ~ ReachesFree(heap, "copying", old) /\ Balanced(h2, c, ext)
         /\ \A r : /\ Usable(heap, r)
                   /\ \A x : Refers(c, r, x) => x \in Objects(h2, c) \/ ext[x] > 0
                   /\ r \notin Inline => heap[r.obj].copy = NONE
                   => Usable(h2, r)
    BY <2>2, <2>3, <2>5, <2>7, <2>9, ReleaseKeeps
  <2>11. Closed(h2, "std")
    BY <2>2, <2>3, <2>5, <2>6, <2>7, ReleaseStd
  <2>12. /\ Typed(vb) /\ (\A own \in Loc : vb[own] = NONE) /\ vb[g] = NONE
         /\ \A own \in Glob : vb[own] = vc[own] /\ (vb[own] # NONE => vb[own] = var[own])
    <3>1. Glob \cap Loc = {} /\ Glob \subseteq Var /\ Loc \subseteq Var
      BY ProgramAssumption DEF Var
    <3> QED
      BY <2>1, <2>2, <3>1 DEF Typed, Without
  <2>13. UsableIn(h2, vb, Glob) /\ GlobalsInStd(vb)
    <3>1. ASSUME NEW own \in Glob, vb[own] # NONE
          PROVE  Usable(h2, vb[own]) /\ InStd(vb[own])
      <4>1. vb[own] = var[own] /\ var[own] # NONE /\ vc[own] = var[own]
        BY <2>12, <3>1
      <4>2. Usable(heap, var[own]) /\ (var[own] \notin Inline => heap[var[own].obj].copy = NONE) /\ InStd(var[own])
        BY <2>2, <4>1, LastingFacts DEF Lasting, GlobalsInStd
      <4>3. ASSUME NEW x, Refers("std", var[own], x)
            PROVE  ext[x] > 0
        <5>1. x \in Id
          BY <2>2, <4>2, <4>3, UsableRefers DEF Objects, Live
        <5>2. Glob \in SUBSET Var
          BY DEF Var
        <5>3. HeldBy(vc, "std", Glob, x) > 0
          BY <2>4, <4>1, <4>3, <5>2, HeldFacts
        <5> QED
          BY <2>5, <5>1, <5>3
      <4>4. Usable(h2, var[own])
        BY <2>8, <2>10, <4>2, <4>3
      <4> QED
        BY <4>1, <4>2, <4>4
    <3> QED
      BY <3>1 DEF UsableIn, GlobalsInStd
  <2>14. Accounted("copying", h2, vb, "std")
    <3>1. \A x \in Id : HeldBy(vb, "std", Glob, x) = ext[x]
      BY <2>5, <2>12, SameHeld
    <3>2. [x \in Id |-> HeldBy(vb, "std", Glob, x)] = ext
      BY <2>5, <3>1
    <3> QED
      BY <2>3, <2>8, <2>10, <3>2 DEF Accounted
  <2>15. Lasting("copying", h2, vb) /\ ~ InUse("copying", vb)
    BY <2>10, <2>11, <2>12, <2>13, <2>14 DEF Lasting, InUse
  <2>16. StateInv("copying", h2, vb)
    BY <2>15 DEF StateInv
  <2>17. mode' = "copying" /\ heap' = h2 /\ var' = vb /\ stray' = FALSE
    BY <1>1, <1>2, <1>4, <2>1, <2>10
  <2> QED
    BY <2>16, <2>17 DEF IInv
<1> QED
  BY <1>1, <1>3, <1>4

\* A transaction starts where nothing is evaluated.
LEMMA EnterTryKeeps ==
  ASSUME IInv, EnterTry
  PROVE  IInv'
<1>1. mode = "normal" /\ mode' = "try" /\ heap' = heap /\ var' = var /\ stray' = stray /\ \A own \in Loc : var[own] = NONE
  BY DEF EnterTry
<1>2. Sane("normal", heap, var) /\ stray = FALSE
  BY <1>1, SaneState DEF IInv
<1>3. /\ Evaluable("normal", heap) /\ Typed(var) /\ UsableIn(heap, var, Var) /\ GlobalsInStd(var)
      /\ Accounted("normal", heap, var, "std") /\ Objects(heap, "try") = {}
  BY <1>2 DEF Sane, Memory, Evaluable
<1>4. Evaluable("try", heap)
  BY <1>3 DEF Evaluable
<1>5. Accounted("try", heap, var, "std")
  <2>1. \A x \in Id : HeldBy(var, "std", Var, x) = HeldBy(var, "std", Glob, x)
    BY <1>1, UnsetHeld
  <2>2. [x \in Id |-> HeldBy(var, "std", Var, x)] = [x \in Id |-> HeldBy(var, "std", Glob, x)]
    BY <2>1
  <2> QED
    BY <1>3, <2>2 DEF Accounted, Owners
<1>6. Accounted("try", heap, var, "try")
  BY <1>3 DEF Accounted, Balanced
<1>7. Sane("try", heap, var)
  BY <1>3, <1>4, <1>5, <1>6 DEF Sane, Memory
<1>8. StateInv("try", heap, var)
  BY <1>7, SaneState
<1> QED
  BY <1>1, <1>2, <1>8 DEF IInv

\* A transaction has computed what it wants to keep.
LEMMA EnterCopyKeeps ==
  ASSUME IInv, EnterCopy
  PROVE  IInv'
<1>1. mode = "try" /\ mode' = "copying" /\ heap' = heap /\ var' = var /\ stray' = stray
  BY DEF EnterCopy
<1>2. StateInv("try", heap, var) /\ stray = FALSE
  BY <1>1 DEF IInv
<1>3. Accounted("copying", heap, var, "std") <=> Accounted("try", heap, var, "std")
  BY DEF Accounted, Owners
<1>4. Accounted("copying", heap, var, "try") <=> Accounted("try", heap, var, "try")
  BY DEF Accounted, Owners
<1>5. StateInv("copying", heap, var)
  BY <1>2, <1>3, <1>4 DEF StateInv, Lasting, Passing, InUse
<1> QED
  BY <1>1, <1>2, <1>5 DEF IInv

\* Or goes on, when nothing was copied.
LEMMA RestoreKeeps ==
  ASSUME IInv, RestoreTry
  PROVE  IInv'
<1>1. /\ mode = "copying" /\ mode' = "try" /\ heap' = heap /\ var' = var /\ stray' = stray
      /\ (\E own \in Loc : var[own] # NONE) /\ NoCopies(heap)
  BY DEF RestoreTry, NoCopies
<1>2. StateInv("copying", heap, var) /\ stray = FALSE
  BY <1>1 DEF IInv
<1>3. Accounted("copying", heap, var, "std") <=> Accounted("try", heap, var, "std")
  BY DEF Accounted, Owners
<1>4. Accounted("copying", heap, var, "try") <=> Accounted("try", heap, var, "try")
  BY DEF Accounted, Owners
<1>5. StateInv("try", heap, var)
  BY <1>1, <1>2, <1>3, <1>4 DEF StateInv, Lasting, Passing, InUse
<1> QED
  BY <1>1, <1>2, <1>5 DEF IInv

\* The end of a transaction: its memory goes, and nothing that stays refers to it.
LEMMA LeaveKeeps ==
  ASSUME IInv, LeaveTransaction, mode \in {"try", "copying"}
  PROVE  IInv'
<1>1. PICK h2, vb : /\ h2 = [x \in Id |-> IF heap[x].mem = "try" THEN FREE ELSE heap[x]]
                    /\ vb = [own \in Var |-> IF own \in Loc THEN NONE ELSE var[own]]
  OBVIOUS
<1>2. mode' = "normal" /\ heap' = h2 /\ var' = vb /\ stray' = stray
  BY <1>1 DEF LeaveTransaction
<1>3. /\ Lasting(mode, heap, var) /\ HeapOK(heap) /\ Closed(heap, "std") /\ Typed(var) /\ UsableIn(heap, var, Glob)
      /\ GlobalsInStd(var) /\ Accounted(mode, heap, var, "std") /\ stray = FALSE /\ Owners(mode, "std") = Glob
  BY DEF IInv, StateInv, Lasting, Owners
<1>4. /\ \A x \in Id : x \in Objects(heap, "std") => h2[x] = heap[x]
      /\ \A x \in Id : x \notin Objects(heap, "std") => h2[x] = FREE
  <2>1. ASSUME NEW x \in Id, x \notin Objects(heap, "std")
        PROVE  h2[x] = FREE
    <3>1. heap[x] = FREE \/ heap[x].mem = "try"
      BY <1>3, <2>1, HeapFacts DEF Objects, Live, Memory
    <3> QED
      BY <1>1, <3>1 DEF FREE
  <2>2. ASSUME NEW x \in Id, x \in Objects(heap, "std")
        PROVE  h2[x] = heap[x]
    BY <1>1, <2>2 DEF Objects
  <2> QED
    BY <2>1, <2>2
<1>5. /\ HeapOK(h2) /\ NoCopies(h2) /\ Objects(h2, "try") = {} /\ Objects(h2, "std") = Objects(heap, "std")
      /\ Live(h2) = Objects(heap, "std")
  <2>1. HeapOK(h2)
    <3>1. h2 = [x \in Id |-> h2[x]]
      BY <1>1
    <3> QED
      BY <1>3, <1>4, <3>1 DEF HeapOK
  <2>2. Live(h2) = Objects(heap, "std")
    BY <1>4 DEF Objects, Live
  <2>3. \A x \in Live(h2) : h2[x] = heap[x] /\ heap[x].mem = "std" /\ heap[x].copy = NONE
    BY <1>3, <1>4, <2>2, LiveFacts DEF Objects, ObjectOK, Live
  <2> QED
    BY <2>1, <2>2, <2>3 DEF NoCopies, Objects
<1>6. ASSUME NEW r, Usable(heap, r), InStd(r)
      PROVE  Usable(h2, r)
  <2>1. CASE r \in Inline
    BY <2>1 DEF Usable
  <2>2. CASE r \notin Inline
    <3>1. r \in Ref /\ heap[r.obj] # FREE /\ r.mem = heap[r.obj].mem /\ r.mem = "std" /\ r.obj \in Id
      BY <1>6, <2>2 DEF Usable, InStd, Ref
    <3>2. r.obj \in Objects(heap, "std")
      BY <3>1 DEF Objects, Live
    <3>3. h2[r.obj] = heap[r.obj] /\ heap[r.obj].copy = NONE
      BY <1>3, <1>4, <3>1, <3>2, LiveFacts DEF Objects, ObjectOK
    <3> QED
      BY <1>6, <2>2, <3>1, <3>3 DEF Usable, Home
  <2> QED
    BY <2>1, <2>2
<1>7. \A m \in Memory : Closed(h2, m)
  BY <1>3, <1>4, <1>5, <1>6 DEF Closed, Memory, Objects, Live
<1>8. Evaluable("normal", h2)
  BY <1>5, <1>7 DEF Evaluable
<1>9. /\ Typed(vb) /\ (\A own \in Loc : vb[own] = NONE) /\ \A own \in Glob : vb[own] = var[own]
      /\ UsableIn(h2, vb, Var) /\ GlobalsInStd(vb)
  <2>1. Glob \cap Loc = {} /\ Var = Glob \cup Loc
    BY ProgramAssumption DEF Var
  <2>2. Typed(vb) /\ (\A own \in Loc : vb[own] = NONE) /\ \A own \in Glob : vb[own] = var[own]
    BY <1>1, <1>3, <2>1 DEF Typed
  <2> QED
    BY <1>3, <1>6, <2>1, <2>2 DEF UsableIn, GlobalsInStd
<1>10. Accounted("normal", h2, vb, "std")
  <2>1. \A x \in Id : HeldBy(vb, "std", Var, x) = HeldBy(var, "std", Glob, x)
    <3>1. \A x : HeldBy(vb, "std", Var, x) = HeldBy(vb, "std", Glob, x)
      BY <1>9, UnsetHeld
    <3>2. \A x : HeldBy(vb, "std", Glob, x) = HeldBy(var, "std", Glob, x)
      BY <1>9, SameHeld
    <3> QED
      BY <3>1, <3>2
  <2>2. PICK ext : ext = [x \in Id |-> HeldBy(var, "std", Glob, x)]
    OBVIOUS
  <2>3. [x \in Id |-> HeldBy(vb, "std", Owners("normal", "std"), x)] = ext
    BY <2>1, <2>2 DEF Owners
  <2>4. Balanced(heap, "std", ext)
    BY <1>3, <2>2 DEF Accounted
  <2>5. \A x \in Objects(heap, "std") : x \in Id
    BY DEF Objects, Live
  <2>6. \A x : Places(h2, "std", Objects(heap, "std"), x) = Places(heap, "std", Objects(heap, "std"), x)
    BY <1>4, <2>5, SamePlaces
  <2>7. Balanced(h2, "std", ext)
    BY <1>4, <1>5, <2>4, <2>5, <2>6 DEF Balanced, Within
  <2> QED
    BY <2>3, <2>7 DEF Accounted
<1>11. Accounted("normal", h2, vb, "try")
  BY <1>5 DEF Accounted, Balanced
<1>12. Sane("normal", h2, vb)
  BY <1>8, <1>9, <1>10, <1>11 DEF Sane, Memory
<1>13. StateInv("normal", h2, vb)
  BY <1>12, SaneState
<1> QED
  BY <1>2, <1>3, <1>13 DEF IInv

\* A value copied out of a transaction is held by a global, and what else there
\* is can be used and copied as before.
LEMMA SettledKeeps ==
  ASSUME NEW h, NEW va, StateInv("copying", h, va), InUse("copying", va), NEW g \in Glob, va[g] = NONE,
         NEW h2, NEW q, Settled(h, h2, q)
  PROVE  StateInv("copying", h2, Holding(va, g, q))
<1>1. /\ Typed(va) /\ UsableIn(h, va, Glob) /\ GlobalsInStd(va) /\ HeapOK(h)
      /\ Accounted("copying", h, va, "std") /\ UsableIn(h, va, Loc)
      /\ NoCopies(h) => Accounted("copying", h, va, "try")
  BY DEF StateInv, Lasting, Passing
<1>2. /\ HeapOK(h2) /\ CopiesOK(h2) /\ Closed(h2, "std") /\ Closed(h2, "try")
      /\ Usable(h2, q) /\ InStd(q)
      /\ \A r : Usable(h, r) => Usable(h2, r)
      /\ NoCopies(h2) => /\ NoCopies(h)
                         /\ \A ext : Balanced(h, "try", ext) => Balanced(h2, "try", ext)
  BY DEF Settled
<1>3. q \in OBJ
  BY <1>2 DEF Usable, OBJ
<1>4. g \in Var /\ g \notin Loc /\ Glob \in SUBSET Var /\ Loc \in SUBSET Var /\ \A own \in Loc : own # g
  BY ProgramAssumption DEF Var
<1>5. PICK vb : vb = Holding(va, g, q)
  OBVIOUS
<1>6. /\ Typed(vb) /\ vb[g] = q /\ \A other \in Var : other # g => vb[other] = va[other]
      /\ \A m, x : \A owners \in SUBSET Var :
           HeldBy(vb, m, owners, x) = HeldBy(va, m, owners, x) + (IF g \in owners THEN One(m, q, x) ELSE 0)
  <2>1. q \in OBJ \cup {NONE} /\ g \in Var
    BY <1>3, <1>4
  <2>2. Without(va, g) = va
    BY <1>1, <2>1, HoldingFacts
  <2> QED
    BY <1>1, <1>5, <2>1, <2>2, HoldingFacts
<1>7. UsableIn(h2, vb, Glob) /\ UsableIn(h2, vb, Loc) /\ GlobalsInStd(vb)
  BY <1>1, <1>2, <1>4, <1>6 DEF UsableIn, GlobalsInStd
<1>8. Accounted("copying", h2, vb, "std")
  <2>1. PICK ext : ext = Outer("copying", va, "std")
    OBVIOUS
  <2>2. Owners("copying", "std") = Glob
    BY DEF Owners
  <2>3. ext \in [Id -> Nat] /\ Balanced(h, "std", ext) /\ \A x \in Id : ext[x] > 0 => x \in Live(h)
    BY <1>1, <2>1, <2>2, OuterFacts DEF Objects
  <2>4. Balanced(h2, "std", [x \in Id |-> ext[x] + One("std", q, x)])
    BY <2>3 DEF Settled
  <2>5. [x \in Id |-> HeldBy(vb, "std", Owners("copying", "std"), x)] = [x \in Id |-> ext[x] + One("std", q, x)]
    <3>1. ASSUME NEW x \in Id
          PROVE  HeldBy(vb, "std", Glob, x) = ext[x] + One("std", q, x)
      <4>1. ext[x] = HeldBy(va, "std", Glob, x)
        BY <2>1, <2>2 DEF Outer
      <4>2. HeldBy(vb, "std", Glob, x) = HeldBy(va, "std", Glob, x) + One("std", q, x)
        BY <1>4, <1>6
      <4> QED
        BY <4>1, <4>2
    <3> QED
      BY <2>2, <3>1
  <2> QED
    BY <2>4, <2>5 DEF Accounted
<1>9. NoCopies(h2) => Accounted("copying", h2, vb, "try")
  <2>1. \A x : HeldBy(vb, "try", Loc, x) = HeldBy(va, "try", Loc, x)
    BY <1>4, <1>6, SameHeld
  <2>2. [x \in Id |-> HeldBy(vb, "try", Owners("copying", "try"), x)] = [x \in Id |-> HeldBy(va, "try", Owners("copying", "try"), x)]
    BY <2>1 DEF Owners
  <2> QED
    BY <1>1, <1>2, <2>2 DEF Accounted
<1>10. StateInv("copying", h2, vb)
  BY <1>2, <1>6, <1>7, <1>8, <1>9 DEF StateInv, Lasting, Passing
<1> QED
  BY <1>5, <1>10

\* What is copied out of a transaction can be used, and its blocks are free.
LEMMA CopyOutCopying ==
  ASSUME IInv, mode = "copying", NEW own \in Loc, var[own] # NONE, NEW S, S = ToCopy(heap, var[own]),
         NEW at \in [S -> Free], \A x, y \in S : at[x] = at[y] => x = y
  PROVE  Copying(heap, var[own], S, at)
<1>1. StateInv("copying", heap, var) /\ InUse("copying", var)
  BY DEF IInv, InUse
<1>2. Targeted(heap, S, at)
  <2>1. \A x \in S : at[x] \in Id /\ heap[at[x]] = FREE
    BY DEF Free, Live
  <2> QED
    BY <2>1 DEF Targeted
<1>3. Usable(heap, var[own])
  BY <1>1 DEF StateInv, Passing, UsableIn
<1>4. Copyable(heap, var[own])
  BY <1>1, <1>3 DEF StateInv, Lasting, Passing, Copyable
<1> QED
  BY <1>2, <1>4 DEF Copying

\* The values are copied that a transaction keeps, or it fails.
LEMMA CopyOutKeeps ==
  ASSUME IInv, NEW g \in Glob, NEW own \in Loc, CopyOut(g, own)
  PROVE  IInv'
<1>1. mode = "copying" /\ var[own] # NONE /\ var[g] = NONE
  BY DEF CopyOut
<1>2. StateInv("copying", heap, var) /\ InUse("copying", var) /\ stray = FALSE
  BY <1>1 DEF IInv, InUse
<1>3. PICK S : S = ToCopy(heap, var[own])
  OBVIOUS
<1>4. CASE \E x \in S : heap[x].kind = "tern"
  <2>1. mode' = "failed" /\ heap' = heap /\ var' = var /\ stray' = stray
    BY <1>3, <1>4 DEF CopyOut
  <2>2. /\ Accounted("copying", heap, var, "std") <=> Accounted("failed", heap, var, "std")
        /\ Accounted("copying", heap, var, "try") <=> Accounted("failed", heap, var, "try")
    BY DEF Accounted, Owners
  <2>3. StateInv("failed", heap, var)
    BY <1>2, <2>2 DEF StateInv, Lasting, Passing, InUse
  <2> QED
    BY <1>2, <2>1, <2>3 DEF IInv
<1>5. CASE ~ \E x \in S : heap[x].kind = "tern"
  <2>1. PICK at \in [S -> Free] :
          /\ \A x, y \in S : at[x] = at[y] => x = y
          /\ heap' = copy_obj(heap, var[own], at).heap
          /\ var' = [var EXCEPT ![g] = copy_obj(heap, var[own], at).ref]
          /\ stray' = (stray \/ IsStray(copy_obj(heap, var[own], at)))
          /\ mode' = mode
    BY <1>3, <1>5 DEF CopyOut
  <2>2. PICK q, h2 : q = copy_obj(heap, var[own], at).ref /\ h2 = copy_obj(heap, var[own], at).heap
    OBVIOUS
  <2>3. Copying(heap, var[own], S, at)
    BY <1>1, <1>3, <2>1, CopyOutCopying
  <2>4. Settled(heap, h2, q)
    BY <2>2, <2>3, CopyFacts
  <2>5. StateInv("copying", h2, Holding(var, g, q))
    BY <1>1, <1>2, <2>4, SettledKeeps
  <2>6. ~ IsStray(copy_obj(heap, var[own], at))
    BY <2>2, <2>4 DEF IsStray, Settled, Usable
  <2>7. var' = Holding(var, g, q) /\ heap' = h2 /\ stray' = FALSE /\ mode' = "copying"
    BY <1>1, <1>2, <2>1, <2>2, <2>6 DEF Holding
  <2> QED
    BY <2>5, <2>7 DEF IInv
<1> QED
  BY <1>4, <1>5

-----------------------------------------------------------------------------
(***************************************************************************)
(* The invariant of the specification.                                     *)
(***************************************************************************)
\* Nothing is allocated, and nothing is held.
LEMMA InitInv ==
  ASSUME Init
  PROVE  IInv
<1>1. /\ mode = "normal" /\ heap = [x \in Id |-> FREE] /\ var = [x \in Var |-> NONE] /\ stray = FALSE
  BY DEF Init
<1>2. Live(heap) = {} /\ \A m : Objects(heap, m) = {}
  BY <1>1 DEF Live, Objects
<1>3. HeapOK(heap)
  BY <1>1 DEF HeapOK
<1>4. Evaluable("normal", heap)
  BY <1>2, <1>3 DEF Evaluable, NoCopies, Closed
<1>5. Typed(var) /\ \A own \in Var : var[own] = NONE
  BY <1>1 DEF Typed
<1>6. Sane("normal", heap, var)
  BY <1>2, <1>4, <1>5 DEF Sane, UsableIn, GlobalsInStd, Accounted, Balanced, Var
<1> QED
  BY <1>1, <1>6, SaneState DEF IInv

\* Every step keeps the invariant, of a program that does not extend a standard
\* sequence with an object from within a transaction.
LEMMA NextKeeps ==
  ASSUME IInv, [Next]_vars, ~ TRY_EXTENDS_STD
  PROVE  IInv'
<1>1. ASSUME NEW own \in Loc, NEW kind \in BuiltKinds, NEW args \in Args, Build(own, kind, args)
      PROVE  IInv'
  BY <1>1, BuildMakes, MakesKeeps
<1>2. ASSUME NEW own \in Loc, NEW other \in Var, NEW first \in 0 .. MAX_LENGTH, NEW len \in 0 .. MAX_LENGTH,
             Slice(own, other, first, len)
      PROVE  IInv'
  BY <1>2, SliceKeeps
<1>3. ASSUME NEW own \in Loc, NEW left \in Var, NEW right \in Var, Concat(own, left, right)
      PROVE  IInv'
  BY <1>3, ConcatKeeps
<1>4. ASSUME NEW own \in Loc, NEW other \in Var, NEW i \in 1 .. MAX_LENGTH, NEW arg \in Operand, Update(own, other, i, arg)
      PROVE  IInv'
  BY <1>4, UpdateMakes, MakesKeeps
<1>5. ASSUME NEW own \in Loc, NEW other \in Var, NEW i \in 1 .. MAX_LENGTH, At(own, other, i)
      PROVE  IInv'
  BY <1>5, AtKeeps
<1>6. ASSUME NEW own \in Loc, NEW other \in Var, Alias(own, other)
      PROVE  IInv'
  BY <1>6, AliasKeeps
<1>7. ASSUME NEW own \in Loc, NEW arg \in Operand, AppendTo(own, arg)
      PROVE  IInv'
  BY <1>7, AppendKeeps
<1>8. ASSUME NEW own \in Loc, Drop(own)
      PROVE  IInv'
  BY <1>8, DropKeeps
<1>9. ASSUME NEW own \in Loc, NEW g \in Glob, Store(g, own)
      PROVE  IInv'
  BY <1>9, StoreKeeps
<1>10. ASSUME NEW own \in Loc, NEW g \in Glob, CopyOut(g, own)
       PROVE  IInv'
  BY <1>10, CopyOutKeeps
<1>11. ASSUME NEW g \in Glob, Release(g)
       PROVE  IInv'
  BY <1>11, ReleaseGlobalKeeps
<1>12. ASSUME EnterTry \/ EnterCopy \/ RestoreTry
       PROVE  IInv'
  BY <1>12, EnterTryKeeps, EnterCopyKeeps, RestoreKeeps
<1>13. ASSUME ReturnToNormal \/ SoftFail
       PROVE  IInv'
  <2>1. LeaveTransaction /\ mode \in {"try", "copying"}
    BY <1>13 DEF ReturnToNormal, SoftFail
  <2> QED
    BY <2>1, LeaveKeeps
<1>14. ASSUME UNCHANGED vars
       PROVE  IInv'
  BY <1>14 DEF vars, IInv
<1>15. CASE Next
  BY <1>1, <1>2, <1>3, <1>4, <1>5, <1>6, <1>7, <1>8, <1>9, <1>10, <1>11, <1>12, <1>13, <1>15 DEF Next
<1> QED
  BY <1>14, <1>15

\* In every state of such a program all objects in use are there, in the memory
\* they should be in, and counted.
THEOREM Invariance == ~ TRY_EXTENDS_STD /\ Spec => []IInv
<1>1. Init => IInv
  BY InitInv
<1>2. ~ TRY_EXTENDS_STD /\ IInv /\ [Next]_vars => IInv'
  BY NextKeeps
<1>3. CASE TRY_EXTENDS_STD
  BY <1>3
<1>4. CASE ~ TRY_EXTENDS_STD
  <2>1. IInv /\ [Next]_vars => IInv'
    BY <1>2, <1>4
  <2> QED
    BY <1>1, <2>1, PTL DEF Spec
<1> QED
  BY <1>3, <1>4

-----------------------------------------------------------------------------
(***************************************************************************)
(* What follows from the invariant.                                        *)
(***************************************************************************)
\* The blocks that variables hold are in a set that has every block in it to
\* which one of them refers.
LEMMA HeldIn ==
  ASSUME Typed(var), NEW owners \in SUBSET Var, NEW T,
         \A own \in owners : var[own] # NONE => \A y : y \in Target(var[own]) => y \in T
  PROVE  Held(owners) \subseteq T
  BY DEF Held

\* What a usable reference is to.
LEMMA UsableTarget ==
  ASSUME NEW h, HeapOK(h), NEW ref, Usable(h, ref), NEW y \in Target(ref)
  PROVE  /\ ref \notin Inline /\ y = ref.obj /\ y \in Live(h) /\ ref.mem = h[y].mem /\ ref # NONE
         /\ y \in Objects(h, ref.mem)
         /\ InStd(ref) => y \in Objects(h, "std")
<1>1. ref \notin Inline /\ y = ref.obj /\ ref \in Ref
  BY DEF Target, Usable
<1>2. ref # NONE
  BY <1>1, InlineAssumption
<1> QED
  BY <1>1, <1>2 DEF Usable, Ref, Live, Objects, InStd

\* What the globals lead to is standard memory, and what all variables lead to
\* is in use, with what it refers to.
LEMMA ReachedSound ==
  ASSUME IInv
  PROVE  /\ ReachedFrom(heap, Held(Glob)) \subseteq Objects(heap, "std")
         /\ \A x \in ReachedFrom(heap, Held(Var)) : x \in Live(heap) /\ \A i \in DOMAIN heap[x].elems : Usable(heap, heap[x].elems[i])
<1>1. /\ HeapOK(heap) /\ Closed(heap, "std") /\ Typed(var) /\ UsableIn(heap, var, Glob) /\ GlobalsInStd(var)
      /\ InUse(mode, var) => Closed(heap, "try") /\ UsableIn(heap, var, Loc)
  BY DEF IInv, StateInv, Lasting, Passing
<1>2. ElementsTyped(heap) /\ Objects(heap, "std") \in SUBSET Id /\ Live(heap) \in SUBSET Id
  BY <1>1, HeapFacts
<1>3. Glob \in SUBSET Var /\ Var \in SUBSET Var /\ Var = Glob \cup Loc
  BY DEF Var
<1>4. PICK Std : Std = Objects(heap, "std")
  OBVIOUS
<1>5. Std \in SUBSET Id /\ \A x \in Std : \A i \in DOMAIN heap[x].elems : Usable(heap, heap[x].elems[i]) /\ InStd(heap[x].elems[i])
  BY <1>1, <1>2, <1>4 DEF Closed
<1>6. \A x \in Std : Targets(heap, x) \subseteq Std
  <2>1. ASSUME NEW x \in Std, NEW i \in DOMAIN heap[x].elems, NEW y \in Target(heap[x].elems[i])
        PROVE  y \in Std
    BY <1>1, <1>4, <1>5, <2>1, UsableTarget
  <2> QED
    BY <2>1 DEF Targets
<1>7. Held(Glob) \subseteq Std
  <2>1. ASSUME NEW own \in Glob, var[own] # NONE, NEW y \in Target(var[own])
        PROVE  y \in Std
    <3>1. Usable(heap, var[own]) /\ InStd(var[own])
      BY <1>1, <2>1 DEF UsableIn, GlobalsInStd
    <3> QED
      BY <1>1, <1>4, <2>1, <3>1, UsableTarget
  <2> QED
    BY <1>1, <1>3, <2>1, HeldIn
<1>8. \A owners \in SUBSET Var : Held(owners) \subseteq Id => Held(owners) \in SUBSET Id
  OBVIOUS
<1>9. ReachedFrom(heap, Held(Glob)) \subseteq Std
  BY <1>2, <1>5, <1>6, <1>7, ReachedFacts
<1>10. CASE InUse(mode, var)
  <2>1. PICK L : L = Live(heap)
    OBVIOUS
  <2>2. \A x \in L : \A i \in DOMAIN heap[x].elems : Usable(heap, heap[x].elems[i])
    <3>1. \A x \in L : x \in Objects(heap, "std") \/ x \in Objects(heap, "try")
      BY <1>1, <2>1, HeapFacts DEF Objects, Memory
    <3> QED
      BY <1>1, <1>10, <3>1 DEF Closed
  <2>3. \A x \in L : Targets(heap, x) \subseteq L
    <3>1. ASSUME NEW x \in L, NEW i \in DOMAIN heap[x].elems, NEW y \in Target(heap[x].elems[i])
          PROVE  y \in L
      BY <1>1, <2>1, <2>2, <3>1, UsableTarget
    <3> QED
      BY <3>1 DEF Targets
  <2>4. Held(Var) \subseteq L
    <3>1. ASSUME NEW own \in Var, var[own] # NONE, NEW y \in Target(var[own])
          PROVE  y \in L
      <4>1. Usable(heap, var[own])
        BY <1>1, <1>3, <1>10, <3>1 DEF UsableIn
      <4> QED
        BY <1>1, <2>1, <3>1, <4>1, UsableTarget
    <3> QED
      BY <1>1, <1>3, <3>1, HeldIn
  <2>5. ReachedFrom(heap, Held(Var)) \subseteq L
    BY <1>2, <2>1, <2>3, <2>4, ReachedFacts
  <2> QED
    BY <1>4, <1>9, <2>1, <2>2, <2>5
<1>11. CASE ~ InUse(mode, var)
  <2>1. \A own \in Loc : var[own] = NONE
    BY <1>11 DEF InUse
  <2>2. Held(Var) = Held(Glob)
    <3>1. {own \in Var : var[own] # NONE} = {own \in Glob : var[own] # NONE}
      BY <1>3, <2>1
    <3> QED
      BY <3>1 DEF Held
  <2>3. \A x \in Std : x \in Live(heap)
    BY <1>4 DEF Objects
  <2> QED
    BY <1>4, <1>5, <1>9, <2>2, <2>3
<1> QED
  BY <1>10, <1>11

\* The references to an object are those that say it is where it is.
LEMMA ReferencesCounted ==
  ASSUME HeapOK(heap), Typed(var), NEW m \in Memory, NEW owners \in SUBSET Var, UsableIn(heap, var, owners),
         Closed(heap, m), NEW x \in Objects(heap, m)
  PROVE  References(owners, m, x) = HeldBy(var, m, owners, x) + Within(heap, m, x)
<1>1. x \in Id /\ heap[x].mem = m
  BY DEF Objects, Live
<1>2. ASSUME NEW r, Usable(heap, r)
      PROVE  r \notin Inline /\ r.obj = x <=> Refers(m, r, x)
  BY <1>1, <1>2, InlineAssumption DEF Usable, Refers
<1>3. {own \in owners : var[own] \notin Inline \cup {NONE} /\ var[own].obj = x} = {own \in owners : Refers(m, var[own], x)}
  <2>1. ASSUME NEW own \in owners
        PROVE  var[own] \notin Inline \cup {NONE} /\ var[own].obj = x <=> Refers(m, var[own], x)
    <3>1. CASE var[own] = NONE
      BY <3>1 DEF Refers
    <3>2. CASE var[own] # NONE
      BY <1>2, <3>2 DEF UsableIn
    <3> QED
      BY <3>1, <3>2
  <2> QED
    BY <2>1
<1>4. LiveIn(m) = Objects(heap, m)
  BY DEF LiveIn, Objects
<1>5. {p \in LiveIn(m) \X Slot : p[2] \in DOMAIN heap[p[1]].elems /\ x \in Target(heap[p[1]].elems[p[2]])}
        = Places(heap, m, Objects(heap, m), x)
  <2>1. ASSUME NEW p \in Objects(heap, m) \X Slot, p[2] \in DOMAIN heap[p[1]].elems
        PROVE  x \in Target(heap[p[1]].elems[p[2]]) <=> Refers(m, heap[p[1]].elems[p[2]], x)
    <3>1. PICK r : r = heap[p[1]].elems[p[2]]
      OBVIOUS
    <3>2. Usable(heap, r)
      BY <2>1, <3>1 DEF Closed
    <3>3. x \in Target(r) <=> r \notin Inline /\ r.obj = x
      BY DEF Target
    <3> QED
      BY <1>2, <3>1, <3>2, <3>3
  <2> QED
    BY <1>4, <2>1 DEF Places
<1> QED
  BY <1>3, <1>5 DEF References, HeldBy, Within

\* mem.cpp, mem-utils.cpp and mem-copying.cpp only make objects and references
\* of the types there are, and a block is never filled beyond its capacity.
THEOREM TypeCorrect == ~ TRY_EXTENDS_STD /\ Spec => []TypeOK
<1>1. IInv => TypeOK
  <2>1. ASSUME IInv
        PROVE  TypeOK
    <3>1. /\ HeapOK(heap) /\ Typed(var) /\ stray = FALSE /\ mode \in {"normal", "try", "copying", "failed"}
      BY <2>1 DEF IInv, StateInv, Lasting
    <3>2. heap = [x \in Id |-> heap[x]] /\ \A x \in Id : heap[x] = FREE \/ ObjectOK(heap[x])
      BY <3>1 DEF HeapOK
    <3>3. \A x \in Id : heap[x] \in Object \cup {FREE}
      BY <3>2 DEF ObjectOK
    <3>4. heap \in [Id -> Object \cup {FREE}]
      BY <3>2, <3>3
    <3>5. \A x \in Id : heap[x].kind = "seq" /\ heap[x].copy = NONE => Len(heap[x].elems) <= heap[x].capacity
      <4>1. FREE.kind # "seq"
        BY DEF FREE
      <4> QED
        BY <3>2, <4>1 DEF ObjectOK
    <3> QED
      BY <3>1, <3>4, <3>5 DEF TypeOK, Typed
  <2> QED
    BY <2>1
<1> QED
  BY <1>1, Invariance, PTL

\* add_ref, release and copy_obj (mem.cpp, mem-copying.cpp) keep one count for
\* each reference: no object is freed too early, or kept for a reference that is gone.
THEOREM CountsAreExact == ~ TRY_EXTENDS_STD /\ Spec => []CountsExact
<1>1. IInv => CountsExact
  <2>1. ASSUME IInv
        PROVE  CountsExact
    <3>1. /\ HeapOK(heap) /\ Typed(var) /\ Closed(heap, "std") /\ Accounted(mode, heap, var, "std")
          /\ UsableIn(heap, var, Glob)
          /\ InUse(mode, var) => Closed(heap, "try") /\ UsableIn(heap, var, Loc)
          /\ mode = "try" => Closed(heap, "try") /\ UsableIn(heap, var, Loc) /\ Accounted(mode, heap, var, "try")
      BY <2>1 DEF IInv, StateInv, Lasting, Passing, InUse
    <3>2. ASSUME NEW m \in Memory, Closed(heap, m), Accounted(mode, heap, var, m),
                 UsableIn(heap, var, Owners(mode, m)), NEW x \in LiveIn(m)
          PROVE  heap[x].count = References(Owners(mode, m), m, x)
      <4>1. x \in Objects(heap, m) /\ x \in Id
        BY <3>2 DEF LiveIn, Objects, Live
      <4>2. Owners(mode, m) \in SUBSET Var
        BY <3>1, OuterFacts
      <4>3. References(Owners(mode, m), m, x) = HeldBy(var, m, Owners(mode, m), x) + Within(heap, m, x)
        BY <3>1, <3>2, <4>1, <4>2, ReferencesCounted
      <4> QED
        BY <3>2, <4>1, <4>3 DEF Accounted, Balanced
    <3>3. \A x \in LiveIn("std") : heap[x].count = References(IF mode = "normal" THEN Var ELSE Glob, "std", x)
      <4>1. UsableIn(heap, var, Owners(mode, "std"))
        BY <3>1 DEF UsableIn, Owners, InUse, Var
      <4>2. Owners(mode, "std") = IF mode = "normal" THEN Var ELSE Glob
        BY DEF Owners
      <4>3. \A x \in LiveIn("std") : heap[x].count = References(Owners(mode, "std"), "std", x)
        BY <3>1, <3>2, <4>1 DEF Memory
      <4> QED
        BY <4>2, <4>3
    <3>4. mode = "try" => \A x \in LiveIn("try") : heap[x].count = References(Loc, "try", x)
      <4>1. Owners(mode, "try") = Loc
        BY DEF Owners
      <4>2. mode = "try" => \A x \in LiveIn("try") : heap[x].count = References(Owners(mode, "try"), "try", x)
        BY <3>1, <3>2, <4>1 DEF Memory
      <4> QED
        BY <4>1, <4>2
    <3> QED
      BY <3>3, <3>4 DEF CountsExact
  <2> QED
    BY <2>1
<1> QED
  BY <1>1, Invariance, PTL

\* No variable reaches a block that was freed, or takes an object of a
\* transaction for one that outlives it.
THEOREM RefsAreSound == ~ TRY_EXTENDS_STD /\ Spec => []RefsSound
<1>1. IInv => RefsSound
  <2>1. ASSUME IInv
        PROVE  RefsSound
    <3>1. /\ UsableIn(heap, var, Glob) /\ (InUse(mode, var) => UsableIn(heap, var, Loc))
      BY <2>1 DEF IInv, StateInv, Lasting, Passing
    <3>2. ASSUME NEW r, Usable(heap, r)
          PROVE  Sound(r)
      BY <3>2 DEF Usable, Sound, Home
    <3>3. \A own \in Var : var[own] # NONE => Sound(var[own])
      BY <3>1, <3>2 DEF UsableIn, InUse, Var
    <3>4. \A x \in ReachedFrom(heap, Held(Var)) : \A i \in DOMAIN heap[x].elems : Sound(heap[x].elems[i])
      BY <2>1, <3>2, ReachedSound
    <3>5. \A x \in ReachedFrom(heap, Held(Glob)) : heap[x].mem = "std"
      BY <2>1, ReachedSound DEF Objects
    <3> QED
      BY <3>3, <3>4, <3>5 DEF RefsSound
  <2> QED
    BY <2>1
<1> QED
  BY <1>1, Invariance, PTL

\* The assertions of add_ref and release in mem.cpp: no reference to a block
\* that is free already is counted or released.
THEOREM ReleasesAreAlive == ~ TRY_EXTENDS_STD /\ Spec => []ReleasesAlive
<1>1. IInv => ReleasesAlive
  BY DEF IInv, ReleasesAlive
<1> QED
  BY <1>1, Invariance, PTL

-----------------------------------------------------------------------------
(***************************************************************************)
(* No object contains itself, unless the program appends a value to a part *)
(* of it.                                                                  *)
(***************************************************************************)
\* What a program makes comes after what it is made of.
LEMMA MakesOrder ==
  ASSUME IInv, Ordered(heap), NEW own \in Loc, Makes(own)
  PROVE  Ordered(heap')
<1>1. PICK kind, elems : \E x \in Id : /\ heap[x] = FREE /\ Elementary(mode, heap, kind, elems)
                                       /\ Assign(own, build(heap, mode, kind, elems, x))
  BY DEF Makes
<1>2. PICK x \in Id : /\ heap[x] = FREE /\ Elementary(mode, heap, kind, elems)
                      /\ Assign(own, build(heap, mode, kind, elems, x))
  BY <1>1
<1>3. PICK made : made = build(heap, mode, kind, elems, x)
  OBVIOUS
<1>4. mode \in {"normal", "try"} /\ heap' = made.heap
  BY <1>2, <1>3 DEF Assign, Evaluating
<1>5. Evaluable(mode, heap)
  BY <1>4, SaneState DEF IInv, Sane
<1>6. Ordered(made.heap)
  BY <1>2, <1>3, <1>4, <1>5, BuildOrder
<1> QED
  BY <1>4, <1>6

\* Holding another reference changes nothing but counts.
LEMMA SharedOrder ==
  ASSUME IInv, Ordered(heap), NEW ref, heap' = add_ref(heap, mode, ref)
  PROVE  Ordered(heap')
<1>1. HeapOK(heap)
  BY DEF IInv, StateInv, Lasting
<1>2. PICK refs : refs = <<ref>>
  OBVIOUS
<1>3. Ordered(vec_add_ref(heap, mode, refs))
  BY <1>1, AddOrder
<1> QED
  BY <1>2, <1>3 DEF add_ref

\* A sequence is extended with what it is not a part of.
LEMMA ExtendOrder ==
  ASSUME NEW md \in {"normal", "try"}, mode = md, Evaluable(md, heap), ~ TRY_EXTENDS_STD, ~ NESTED_APPEND,
         NEW ref, NEW new, NEW x, Lengthens(ref, new, x), NEW made, made = extend_sequence(heap, mode, ref, new, x)
  PROVE  Ordered(heap) => Ordered(made.heap)
<1>1. CASE can_be_extended(heap, ref, Len(new))
  <2>1. PICK y, h2, longer : /\ y = ref.obj
                             /\ h2 = vec_add_ref([heap EXCEPT ![ref.obj].elems = @ \o new], mode, Append(new, ref))
                             /\ longer = make_slice(ref.obj, ref.mem, ref.off, ref.len + Len(new))
    OBVIOUS
  <2>2. Extendable(mode, heap, ref, new)
    BY <1>1, LongerInPlace
  <2>3. Made(mode, heap, h2, longer) /\ Grown(heap, h2, y, new)
    BY <2>1, <2>2, ExtendFacts
  <2>4. HeapOK(heap) /\ NoCopies(h2)
    BY <2>3 DEF Made, Evaluable
  <2>5. y \in Id /\ new \in Seq(OBJ)
    BY <2>1, <2>2, EvaluableFacts, HeapFacts DEF Extendable, Live
  <2>6. \A i \in DOMAIN new : y \notin ReachedFrom(heap, Target(new[i]))
    BY <1>1, <2>1 DEF Lengthens, Extends, PointedTo
  <2>7. Ordered(heap) => Ordered(h2)
    BY <2>3, <2>4, <2>5, <2>6, GrownOrder
  <2>8. made.heap = h2
    BY <1>1, <2>1 DEF extend_sequence
  <2> QED
    BY <2>7, <2>8
<1>2. CASE ~ can_be_extended(heap, ref, Len(new))
  <2>1. PICK all : all = SeqElems(heap, ref) \o new
    OBVIOUS
  <2>2. Elementary(mode, heap, "seq", all) /\ x \in Id /\ heap[x] = FREE /\ made = build(heap, mode, "seq", all, x)
    BY <1>2, <2>1, JoinedElementary
  <2> QED
    BY <2>2, BuildOrder
<1> QED
  BY <1>1, <1>2

\* Concatenation, and appending.
LEMMA ConcatOrder ==
  ASSUME IInv, ~ TRY_EXTENDS_STD, ~ NESTED_APPEND, Ordered(heap),
         NEW own \in Loc, NEW left \in Var, NEW right \in Var, Concat(own, left, right)
  PROVE  Ordered(heap')
<1>1. CASE \E ref : Usable(heap, ref) /\ Assign(own, [heap |-> add_ref(heap, mode, ref), ref |-> ref])
  <2>1. PICK ref : Assign(own, [heap |-> add_ref(heap, mode, ref), ref |-> ref])
    BY <1>1
  <2>2. heap' = add_ref(heap, mode, ref)
    BY <2>1 DEF Assign
  <2> QED
    BY <2>2, SharedOrder
<1>2. CASE \E ref, new, x : Lengthens(ref, new, x) /\ Assign(own, extend_sequence(heap, mode, ref, new, x))
  <2>1. PICK ref, new, x : Lengthens(ref, new, x) /\ Assign(own, extend_sequence(heap, mode, ref, new, x))
    BY <1>2
  <2>2. PICK made : made = extend_sequence(heap, mode, ref, new, x)
    OBVIOUS
  <2>3. mode \in {"normal", "try"} /\ heap' = made.heap
    BY <2>1, <2>2 DEF Assign, Evaluating
  <2>4. Evaluable(mode, heap)
    BY <2>3, SaneState DEF IInv, Sane
  <2>5. Ordered(made.heap)
    BY <2>1, <2>2, <2>3, <2>4, ExtendOrder
  <2> QED
    BY <2>3, <2>5
<1> QED
  BY <1>1, <1>2, ConcatFacts

\* An appended element is not the sequence, or a value that has it.
LEMMA AppendOrder ==
  ASSUME IInv, ~ TRY_EXTENDS_STD, ~ NESTED_APPEND, Ordered(heap), NEW own \in Loc, NEW arg \in Operand, AppendTo(own, arg)
  PROVE  Ordered(heap')
<1>1. PICK ref, new :
        /\ mode \in {"normal", "try"} /\ Usable(heap, ref)
        /\ ref = EMPTY_SEQ => \E x \in Id : Starts(own, new, x)
        /\ ref # EMPTY_SEQ => \E x : GoesOn(own, ref, new, x)
  BY AppendFacts
<1>2. Evaluable(mode, heap)
  BY <1>1, SaneState DEF IInv, Sane
<1>3. CASE ref = EMPTY_SEQ
  <2>1. PICK x \in Id : Starts(own, new, x)
    BY <1>1, <1>3
  <2>2. PICK one : one = build(heap, mode, "seq", new, x)
    OBVIOUS
  <2>3. heap[x] = FREE /\ Elementary(mode, heap, "seq", new) /\ heap' = one.heap
    BY <2>1, <2>2 DEF Starts
  <2>4. Ordered(one.heap)
    BY <1>1, <1>2, <2>2, <2>3, BuildOrder
  <2> QED
    BY <2>3, <2>4
<1>4. CASE ref # EMPTY_SEQ
  <2>1. PICK x : GoesOn(own, ref, new, x)
    BY <1>1, <1>4
  <2>2. PICK made, h1 : made = extend_sequence(heap, mode, ref, new, x) /\ h1 = made.heap
    OBVIOUS
  <2>3. Lengthens(ref, new, x) /\ heap' = release(h1, mode, ref)
    BY <2>1, <2>2 DEF GoesOn
  <2>4. Made(mode, heap, made.heap, made.ref)
    BY <1>1, <1>2, <2>2, <2>3, ExtendMade
  <2>5. HeapOK(h1)
    BY <2>2, <2>4 DEF Made, Evaluable
  <2>6. Ordered(h1)
    BY <1>1, <1>2, <2>2, <2>3, ExtendOrder
  <2>7. ref \in OBJ
    BY <1>1, <1>2, EvaluableFacts
  <2> QED
    BY <2>3, <2>5, <2>6, <2>7, ReleaseOrder
<1> QED
  BY <1>3, <1>4

\* Releasing what a variable holds.
LEMMA ReleasedOrder ==
  ASSUME IInv, Ordered(heap), NEW own \in Var, var[own] # NONE, heap' = release(heap, mode, var[own])
  PROVE  Ordered(heap')
<1>1. HeapOK(heap) /\ var[own] \in OBJ
  BY DEF IInv, StateInv, Lasting, Typed
<1>2. Ordered(release(heap, mode, var[own]))
  BY <1>1, ReleaseOrder
<1> QED
  BY <1>2

\* A copy has the parts of its original.
LEMMA CopyOutOrder ==
  ASSUME IInv, Ordered(heap), NEW g \in Glob, NEW own \in Loc, CopyOut(g, own)
  PROVE  Ordered(heap')
<1>1. mode = "copying" /\ var[own] # NONE
  BY DEF CopyOut
<1>2. PICK S : S = ToCopy(heap, var[own])
  OBVIOUS
<1>3. CASE \E x \in S : heap[x].kind = "tern"
  <2>1. heap' = heap
    BY <1>2, <1>3 DEF CopyOut
  <2> QED
    BY <2>1
<1>4. CASE ~ \E x \in S : heap[x].kind = "tern"
  <2>1. PICK at \in [S -> Free] : /\ \A x, y \in S : at[x] = at[y] => x = y
                                  /\ heap' = copy_obj(heap, var[own], at).heap
    BY <1>2, <1>4 DEF CopyOut
  <2>2. Copying(heap, var[own], S, at)
    BY <1>1, <1>2, <2>1, CopyOutCopying
  <2>3. PICK h2 : h2 = copy_obj(heap, var[own], at).heap
    OBVIOUS
  <2>4. Ordered(h2)
    BY <2>2, <2>3, CopyOrder
  <2> QED
    BY <2>1, <2>3, <2>4
<1> QED
  BY <1>3, <1>4

\* What is left of the heap when a transaction is over has the order it had.
LEMMA LeaveOrder ==
  ASSUME Ordered(heap), LeaveTransaction
  PROVE  Ordered(heap')
<1>1. heap' = [x \in Id |-> IF heap[x].mem = "try" THEN FREE ELSE heap[x]]
  BY DEF LeaveTransaction
<1>2. PICK h2 : h2 = heap'
  OBVIOUS
<1>3. Live(h2) \subseteq Live(heap) /\ \A x \in Live(h2) : h2[x].elems = heap[x].elems /\ h2[x].copy = heap[x].copy
  BY <1>1, <1>2 DEF Live
<1>4. Ordered(h2)
  BY <1>3, SameOrder
<1> QED
  BY <1>2, <1>4

\* With nothing allocated there is nothing out of order.
LEMMA InitOrder ==
  ASSUME Init
  PROVE  Ordered(heap)
<1>1. Live(heap) = {}
  BY DEF Init, Live
<1>2. PICK rank : rank = [x \in Id |-> 0]
  OBVIOUS
<1>3. rank \in [Id -> Nat]
  BY <1>2
<1>4. Ranked(heap, rank)
  BY <1>1, <1>3 DEF Ranked
<1> QED
  BY <1>4 DEF Ordered

\* Every step keeps an order, of a program that extends no sequence with a
\* value it is a part of.
LEMMA NextOrder ==
  ASSUME IInv, [Next]_vars, ~ TRY_EXTENDS_STD, ~ NESTED_APPEND, Ordered(heap)
  PROVE  Ordered(heap')
<1>1. ASSUME NEW own \in Loc, NEW kind \in BuiltKinds, NEW args \in Args, Build(own, kind, args)
      PROVE  Ordered(heap')
  BY <1>1, BuildMakes, MakesOrder
<1>2. ASSUME NEW own \in Loc, NEW other \in Var, NEW first \in 0 .. MAX_LENGTH, NEW len \in 0 .. MAX_LENGTH,
             Slice(own, other, first, len)
      PROVE  Ordered(heap')
  <2>1. heap' = get_seq_slice(heap, mode, var[other], first, len).heap
    BY <1>2 DEF Slice, Assign
  <2>2. heap' = heap \/ heap' = add_ref(heap, mode, var[other])
    BY <2>1 DEF get_seq_slice
  <2> QED
    BY <2>2, SharedOrder
<1>3. ASSUME NEW own \in Loc, NEW left \in Var, NEW right \in Var, Concat(own, left, right)
      PROVE  Ordered(heap')
  BY <1>3, ConcatOrder
<1>4. ASSUME NEW own \in Loc, NEW other \in Var, NEW i \in 1 .. MAX_LENGTH, NEW arg \in Operand, Update(own, other, i, arg)
      PROVE  Ordered(heap')
  BY <1>4, UpdateMakes, MakesOrder
<1>5. ASSUME NEW own \in Loc, NEW other \in Var, NEW i \in 1 .. MAX_LENGTH, At(own, other, i)
      PROVE  Ordered(heap')
  <2>1. heap' = add_ref(heap, mode, Elements(var[other])[i])
    BY <1>5 DEF At, Assign
  <2> QED
    BY <2>1, SharedOrder
<1>6. ASSUME NEW own \in Loc, NEW other \in Var, Alias(own, other)
      PROVE  Ordered(heap')
  <2>1. heap' = add_ref(heap, mode, var[other])
    BY <1>6 DEF Alias, Assign
  <2> QED
    BY <2>1, SharedOrder
<1>7. ASSUME NEW own \in Loc, NEW arg \in Operand, AppendTo(own, arg)
      PROVE  Ordered(heap')
  BY <1>7, AppendOrder
<1>8. ASSUME NEW own \in Loc, Drop(own)
      PROVE  Ordered(heap')
  <2>1. own \in Var /\ var[own] # NONE /\ heap' = release(heap, mode, var[own])
    BY <1>8 DEF Drop, Var
  <2> QED
    BY <2>1, ReleasedOrder
<1>9. ASSUME NEW own \in Loc, NEW g \in Glob, CopyOut(g, own)
      PROVE  Ordered(heap')
  BY <1>9, CopyOutOrder
<1>10. ASSUME NEW g \in Glob, Release(g)
       PROVE  Ordered(heap')
  <2>1. g \in Var /\ var[g] # NONE /\ heap' = release(heap, mode, var[g])
    BY <1>10 DEF Release, Var
  <2> QED
    BY <2>1, ReleasedOrder
<1>11. ASSUME (\E own \in Loc, g \in Glob : Store(g, own)) \/ EnterTry \/ EnterCopy \/ RestoreTry \/ UNCHANGED vars
       PROVE  Ordered(heap')
  <2>1. heap' = heap
    BY <1>11 DEF Store, EnterTry, EnterCopy, RestoreTry, vars
  <2> QED
    BY <2>1
<1>12. ASSUME ReturnToNormal \/ SoftFail
       PROVE  Ordered(heap')
  BY <1>12, LeaveOrder DEF ReturnToNormal, SoftFail
<1>13. CASE Next
  BY <1>1, <1>2, <1>3, <1>4, <1>5, <1>6, <1>7, <1>8, <1>9, <1>10, <1>11, <1>12, <1>13 DEF Next
<1> QED
  BY <1>11, <1>13

\* Objects are never in a circle, which counting references would never free.
THEOREM NoCircles == ~ TRY_EXTENDS_STD /\ ~ NESTED_APPEND /\ Spec => []Ordered(heap)
<1>1. Init => Ordered(heap)
  BY InitOrder
<1>2. IInv /\ Ordered(heap) /\ [Next]_vars /\ ~ TRY_EXTENDS_STD /\ ~ NESTED_APPEND => Ordered(heap)'
  BY NextOrder DEF Ordered, Ranked
<1>3. CASE TRY_EXTENDS_STD \/ NESTED_APPEND
  BY <1>3
<1>4. CASE ~ TRY_EXTENDS_STD /\ ~ NESTED_APPEND
  <2>1. IInv /\ Ordered(heap) /\ [Next]_vars => Ordered(heap)'
    BY <1>2, <1>4
  <2>2. Spec => []IInv
    BY <1>4, Invariance
  <2> QED
    BY <1>1, <2>1, <2>2, PTL DEF Spec
<1> QED
  BY <1>3, <1>4

\* An object that no variable leads to is not counted by an object that comes
\* after all others of that kind, nor by a variable.
LEMMA AllReached ==
  ASSUME HeapOK(heap), Typed(var), Ordered(heap), NEW m \in Memory, NEW owners, owners = Owners(mode, m),
         UsableIn(heap, var, owners), Accounted(mode, heap, var, m)
  PROVE  Objects(heap, m) \subseteq ReachedFrom(heap, Held(owners))
<1>1. PICK O, R : O = Objects(heap, m) /\ R = ReachedFrom(heap, Held(owners))
  OBVIOUS
<1>2. ElementsTyped(heap) /\ O \in SUBSET Id /\ owners \in SUBSET Var /\ \A x \in O : x \in Live(heap) /\ heap[x].count \in Nat \ {0}
  BY <1>1, HeapFacts, OuterFacts DEF Objects
<1>3. Held(owners) \in SUBSET Id
  <2>1. ASSUME NEW own \in owners, var[own] # NONE, NEW y \in Target(var[own])
        PROVE  y \in Id
    <3>1. Usable(heap, var[own])
      BY <2>1 DEF UsableIn
    <3> QED
      BY <2>1, <3>1, UsableTarget DEF Live
  <2>2. Held(owners) \subseteq Id
    BY <1>2, <2>1, HeldIn
  <2> QED
    BY <2>2
<1>4. Held(owners) \subseteq R /\ \A z \in R : Targets(heap, z) \subseteq R
  BY <1>1, <1>2, <1>3, ReachedFacts
<1>5. PICK rank : Ranked(heap, rank)
  BY DEF Ordered
<1>6. PICK U : U = O \ R
  OBVIOUS
<1>7. SUFFICES ASSUME U # {} PROVE FALSE
  BY <1>1, <1>6
<1>8. PICK x \in U : \A z \in U : rank[z] <= rank[x]
  BY <1>2, <1>5, <1>6, <1>7, LastOf DEF Ranked
<1>9. x \in O /\ x \in Id /\ x \notin R
  BY <1>2, <1>6
<1>10. HeldBy(var, m, owners, x) = 0
  <2>1. SUFFICES ASSUME HeldBy(var, m, owners, x) # 0 PROVE FALSE
    OBVIOUS
  <2>2. HeldBy(var, m, owners, x) > 0
    BY <1>2, <2>1, HeldFacts
  <2>3. PICK own \in owners : Refers(m, var[own], x)
    BY <1>2, <2>2, HeldFacts
  <2>4. var[own] # NONE /\ x \in Target(var[own])
    BY <2>3 DEF Refers, Target
  <2>5. x \in Held(owners)
    BY <2>4 DEF Held
  <2> QED
    BY <1>4, <1>9, <2>5
<1>11. Within(heap, m, x) = 0
  <2>1. Places(heap, m, O, x) = {}
    <3>1. SUFFICES ASSUME NEW p \in Places(heap, m, O, x) PROVE FALSE
      OBVIOUS
    <3>2. PICK z, i : z = p[1] /\ i = p[2]
      OBVIOUS
    <3>3. z \in O /\ i \in DOMAIN heap[z].elems /\ Refers(m, heap[z].elems[i], x)
      BY <3>1, <3>2 DEF Places
    <3>4. x \in Targets(heap, z)
      BY <3>3 DEF Targets, Refers, Target
    <3>5. rank[x] < rank[z] /\ rank[x] \in Nat /\ rank[z] \in Nat
      BY <1>2, <1>5, <1>9, <3>3, <3>4 DEF Ranked
    <3>6. z \in U
      BY <1>4, <1>6, <1>9, <3>3, <3>4
    <3> QED
      BY <1>8, <3>5, <3>6
  <2> QED
    BY <1>1, <2>1, FS_EmptySet DEF Within
<1>12. heap[x].count = HeldBy(var, m, owners, x) + Within(heap, m, x)
  BY <1>1, <1>9 DEF Accounted, Balanced
<1> QED
  BY <1>2, <1>9, <1>10, <1>11, <1>12

\* add_ref, release and copy_obj (mem.cpp, mem-copying.cpp) leave no garbage:
\* whatever is allocated can be reached, and an aborted transaction leaves nothing.
THEOREM NothingLeaks == ~ TRY_EXTENDS_STD /\ ~ NESTED_APPEND /\ Spec => []NoLeak
<1>1. IInv /\ Ordered(heap) => NoLeak
  <2>1. ASSUME IInv, Ordered(heap)
        PROVE  NoLeak
    <3>1. /\ HeapOK(heap) /\ Typed(var) /\ Accounted(mode, heap, var, "std") /\ UsableIn(heap, var, Glob)
          /\ InUse(mode, var) => UsableIn(heap, var, Loc)
          /\ mode = "try" => UsableIn(heap, var, Loc) /\ Accounted(mode, heap, var, "try")
      BY <2>1 DEF IInv, StateInv, Lasting, Passing, InUse
    <3>2. \A m : LiveIn(m) = Objects(heap, m)
      BY DEF LiveIn, Objects
    <3>3. LiveIn("std") \subseteq ReachedFrom(heap, Held(IF mode = "normal" THEN Var ELSE Glob))
      <4>1. PICK owners : owners = Owners(mode, "std")
        OBVIOUS
      <4>2. owners = (IF mode = "normal" THEN Var ELSE Glob) /\ UsableIn(heap, var, owners)
        BY <3>1, <4>1 DEF Owners, UsableIn, InUse, Var
      <4>3. Objects(heap, "std") \subseteq ReachedFrom(heap, Held(owners))
        BY <2>1, <3>1, <4>1, <4>2, AllReached DEF Memory
      <4> QED
        BY <3>2, <4>2, <4>3
    <3>4. mode = "try" => LiveIn("try") \subseteq ReachedFrom(heap, Held(Loc))
      <4>1. ASSUME mode = "try"
            PROVE  LiveIn("try") \subseteq ReachedFrom(heap, Held(Loc))
        <5>1. Loc = Owners(mode, "try")
          BY DEF Owners
        <5>2. Objects(heap, "try") \subseteq ReachedFrom(heap, Held(Loc))
          BY <2>1, <3>1, <4>1, <5>1, AllReached DEF Memory
        <5> QED
          BY <3>2, <5>2
      <4> QED
        BY <4>1
    <3> QED
      BY <3>3, <3>4 DEF NoLeak
  <2> QED
    BY <2>1
<1>2. CASE TRY_EXTENDS_STD \/ NESTED_APPEND
  BY <1>2
<1>3. CASE ~ TRY_EXTENDS_STD /\ ~ NESTED_APPEND
  <2>1. Spec => []IInv
    BY <1>3, Invariance
  <2>2. Spec => []Ordered(heap)
    BY <1>3, NoCircles
  <2> QED
    BY <1>1, <2>1, <2>2, PTL
<1> QED
  BY <1>2, <1>3

\* copy_obj (mem-copying.cpp) comes back from every object it goes into.
THEOREM CopyingEnds == ~ TRY_EXTENDS_STD /\ ~ NESTED_APPEND /\ Spec => []CopyEnds
<1>1. IInv /\ Ordered(heap) => CopyEnds
  <2>1. ASSUME IInv, Ordered(heap), NEW x \in Live(heap)
        PROVE  x \notin ReachedFrom(heap, Targets(heap, x))
    <3>1. HeapOK(heap) /\ ElementsTyped(heap) /\ x \in Id
      BY <2>1, HeapFacts DEF IInv, StateInv, Lasting, Live
    <3>2. PICK rank : Ranked(heap, rank)
      BY <2>1 DEF Ordered
    <3>3. PICK T, U : T = {y \in Id : rank[y] < rank[x]} /\ U = Targets(heap, x)
      OBVIOUS
    <3>4. \A z \in Id : \A y \in Targets(heap, z) : y \in Id /\ z \in Live(heap) /\ rank[y] < rank[z]
      <4>1. ASSUME NEW z \in Id, NEW y \in Targets(heap, z)
            PROVE  y \in Id /\ z \in Live(heap) /\ rank[y] < rank[z]
        <5>1. y \in Id
          BY <3>1, TargetIds
        <5>2. heap[z] # FREE
          BY <4>1 DEF FREE, Targets
        <5> QED
          BY <3>2, <5>1, <5>2 DEF Ranked, Live
      <4> QED
        BY <4>1
    <3>5. rank \in [Id -> Nat]
      BY <3>2 DEF Ranked
    <3>6. U \subseteq T /\ T \in SUBSET Id
      BY <3>1, <3>3, <3>4
    <3>7. \A z \in T : Targets(heap, z) \subseteq T
      <4>1. ASSUME NEW z \in T, NEW y \in Targets(heap, z)
            PROVE  y \in T
        <5>1. z \in Id /\ rank[z] < rank[x]
          BY <3>3
        <5>2. y \in Id /\ rank[y] < rank[z]
          BY <3>4, <5>1
        <5>3. rank[y] \in Nat /\ rank[z] \in Nat /\ rank[x] \in Nat
          BY <3>1, <3>5, <5>1, <5>2
        <5>4. rank[y] < rank[x]
          BY <5>1, <5>2, <5>3
        <5> QED
          BY <3>3, <5>2, <5>4
      <4> QED
        BY <4>1
    <3>8. ReachedFrom(heap, U) \subseteq T
      BY <3>1, <3>6, <3>7, ReachedFacts
    <3>9. x \notin T
      <4>1. rank[x] \in Nat
        BY <3>1, <3>5
      <4> QED
        BY <3>3, <4>1
    <3> QED
      BY <3>3, <3>8, <3>9
  <2> QED
    BY <2>1 DEF CopyEnds
<1>2. CASE TRY_EXTENDS_STD \/ NESTED_APPEND
  BY <1>2
<1>3. CASE ~ TRY_EXTENDS_STD /\ ~ NESTED_APPEND
  <2>1. Spec => []IInv
    BY <1>3, Invariance
  <2>2. Spec => []Ordered(heap)
    BY <1>3, NoCircles
  <2> QED
    BY <1>1, <2>1, <2>2, PTL
<1> QED
  BY <1>2, <1>3

-----------------------------------------------------------------------------
(***************************************************************************)
(* The values that references stand for.                                   *)
(***************************************************************************)
\* The elements of the object that a reference shows.
ShownBy(h, r) ==
  IF h[Home(h, r.obj)].kind # "seq" THEN h[Home(h, r.obj)].elems
  ELSE SubSeq(h[Home(h, r.obj)].elems, r.off + 1, r.off + r.len)

\* The values of what is shown.
Through(W, shown) == [i \in DOMAIN shown |-> W[shown[i]]]

\* Values unfolded to the depth n, given those unfolded less.
Layer(h, n, below) ==
  [r \in OBJ |->
     IF r \in Atom THEN r
     ELSE IF r = EMPTY_SEQ THEN [kind |-> "seq", elems |-> <<>>]
     ELSE [kind |-> h[Home(h, r.obj)].kind,
           elems |-> IF n = 0 THEN <<>> ELSE Through(below, ShownBy(h, r))]]
Layers(h, n, u) == u = [k \in 0 .. n |-> Layer(h, k, u[k - 1])]
Depth == Cardinality(Id) + 1
Unfolded(h) == CHOOSE u : Layers(h, Depth, u)

\* Below the first layer there is nothing to look at.
LEMMA FirstLayer == \A h, a, b : Layer(h, 0, a) = Layer(h, 0, b)
BY DEF Layer

\* Values can be unfolded to any depth.
LEMMA LayersExist ==
  ASSUME NEW h
  PROVE  \A n \in Nat : \E u : Layers(h, n, u)
<1> DEFINE Ns == {n \in Nat : \E u : Layers(h, n, u)}
<1>1. 0 \in Ns
  <2>1. PICK u : u = [k \in 0 .. 0 |-> Layer(h, 0, <<>>)]
    OBVIOUS
  <2>2. \A k \in 0 .. 0 : Layer(h, 0, <<>>) = Layer(h, k, u[k - 1])
    BY FirstLayer
  <2>3. Layers(h, 0, u)
    BY <2>1, <2>2 DEF Layers
  <2> QED
    BY <2>3
<1>2. ASSUME NEW n \in Nat, n \in Ns PROVE n + 1 \in Ns
  <2>1. PICK u : Layers(h, n, u)
    BY <1>2
  <2>2. PICK more : more = [k \in 0 .. n + 1 |-> IF k = n + 1 THEN Layer(h, n + 1, u[n]) ELSE u[k]]
    OBVIOUS
  <2>3. ASSUME NEW k \in 0 .. n + 1 PROVE more[k] = Layer(h, k, more[k - 1])
    <3>1. CASE k = n + 1
      <4>1. k - 1 = n /\ n \in 0 .. n + 1 /\ n # n + 1
        BY <3>1
      <4>2. more[k - 1] = u[n]
        BY <2>2, <4>1
      <4>3. more[k] = Layer(h, n + 1, u[n])
        BY <2>2, <3>1
      <4> QED
        BY <3>1, <4>2, <4>3
    <3>2. CASE k # n + 1
      <4>1. k \in 0 .. n
        BY <3>2
      <4>2. more[k] = u[k] /\ u[k] = Layer(h, k, u[k - 1])
        BY <2>1, <2>2, <3>2, <4>1 DEF Layers
      <4>3. CASE k = 0
        BY <4>2, <4>3, FirstLayer
      <4>4. CASE k # 0
        <5>1. k - 1 \in 0 .. n + 1 /\ k - 1 # n + 1
          BY <4>1, <4>4
        <5> QED
          BY <2>2, <4>2, <5>1
      <4> QED
        BY <4>3, <4>4
    <3> QED
      BY <3>1, <3>2
  <2>4. more = [k \in 0 .. n + 1 |-> more[k]]
    BY <2>2
  <2>5. Layers(h, n + 1, more)
    BY <2>3, <2>4 DEF Layers
  <2> QED
    BY <2>5
<1> HIDE DEF Ns
<1>3. Nat \subseteq Ns
  BY <1>1, <1>2, SetInduction
<1> QED
  BY <1>3 DEF Ns

\* What the model's definition of a value is.
LEMMA UnfoldedFacts ==
  ASSUME NEW h
  PROVE  /\ Depth \in Nat /\ Depth = Cardinality(Id) + 1 /\ Cardinality(Id) \in Nat
         /\ Unfolded(h)[0] = Layer(h, 0, <<>>)
         /\ \A n \in Nat : n < Depth => Unfolded(h)[n + 1] = Layer(h, n + 1, Unfolded(h)[n])
         /\ \A ref : value(h, ref) = Unfolded(h)[Depth][ref]
<1>1. Cardinality(Id) \in Nat /\ Depth \in Nat /\ Depth = Cardinality(Id) + 1
  BY BlocksAssumption, FS_CardinalityType DEF Depth
<1>2. PICK u : u = Unfolded(h)
  OBVIOUS
<1>3. \E v : Layers(h, Depth, v)
  BY <1>1, LayersExist
<1>4. Layers(h, Depth, u)
  BY <1>2, <1>3 DEF Unfolded
<1>5. \A k \in 0 .. Depth : u[k] = Layer(h, k, u[k - 1])
  BY <1>4 DEF Layers
<1>6. u[0] = Layer(h, 0, <<>>)
  BY <1>1, <1>5, FirstLayer
<1>7. ASSUME NEW n \in Nat, n < Depth
      PROVE  u[n + 1] = Layer(h, n + 1, u[n])
  <2>1. n + 1 \in 0 .. Depth /\ (n + 1) - 1 = n
    BY <1>1, <1>7
  <2> QED
    BY <1>5, <2>1
<1>8. ASSUME NEW ref
      PROVE  value(h, ref) = Unfolded(h)[Depth][ref]
  BY DEF value, Unfolded, Layers, Layer, Through, ShownBy, Home, Depth
<1> QED
  BY <1>1, <1>2, <1>6, <1>7, <1>8

\* The value of what is inline.
Flat(r) == IF r \in Atom THEN r ELSE [kind |-> "seq", elems |-> <<>>]

\* What is inline is the same at any depth.
LEMMA FlatLayer ==
  ASSUME NEW h, NEW n, NEW below, NEW r \in Inline
  PROVE  Layer(h, n, below)[r] = Flat(r)
<1>1. r \in OBJ
  BY DEF OBJ
<1>2. CASE r \in Atom
  BY <1>1, <1>2 DEF Layer, Flat
<1>3. CASE r \notin Atom
  BY <1>1, <1>3 DEF Layer, Flat, Inline
<1> QED
  BY <1>2, <1>3

\* An object is unfolded once more than its elements are.
LEMMA ObjectLayer ==
  ASSUME NEW h, NEW n, NEW below, NEW r \in OBJ, r \notin Inline
  PROVE  Layer(h, n, below)[r] =
           [kind |-> h[Home(h, r.obj)].kind, elems |-> IF n = 0 THEN <<>> ELSE Through(below, ShownBy(h, r))]
BY DEF Layer, Inline

\* The reference r in the heap h, and s in h2, show the same, if the pairs in P do.
Matches(h, h2, r, s, P) ==
  \/ r \in Inline /\ s = r
  \/ /\ r \notin Inline /\ s \notin Inline
     /\ h[Home(h, r.obj)].kind = h2[Home(h2, s.obj)].kind
     /\ DOMAIN ShownBy(h, r) = DOMAIN ShownBy(h2, s)
     /\ \A i \in DOMAIN ShownBy(h, r) : <<ShownBy(h, r)[i], ShownBy(h2, s)[i]>> \in P
Alike(h, h2, P) ==
  P \in SUBSET (OBJ \X OBJ) /\ \A r, s : <<r, s>> \in P => Matches(h, h2, r, s, P)

\* References that show the same, down to any depth, stand for one value.
LEMMA SameValues ==
  ASSUME NEW h, NEW h2, NEW P, Alike(h, h2, P)
  PROVE  \A r, s : <<r, s>> \in P => value(h, r) = value(h2, s)
<1> DEFINE Ns == {n \in Nat : n <= Depth => \A r, s : <<r, s>> \in P => Unfolded(h)[n][r] = Unfolded(h2)[n][s]}
<1>1. 0 \in Ns
  <2>1. ASSUME NEW r, NEW s, <<r, s>> \in P
        PROVE  Layer(h, 0, <<>>)[r] = Layer(h2, 0, <<>>)[s]
    <3>1. r \in OBJ /\ s \in OBJ /\ Matches(h, h2, r, s, P)
      BY <2>1 DEF Alike
    <3>2. CASE r \in Inline /\ s = r
      BY <3>2, FlatLayer
    <3>3. CASE r \notin Inline
      <4>1. s \notin Inline /\ h[Home(h, r.obj)].kind = h2[Home(h2, s.obj)].kind
        BY <3>1, <3>3 DEF Matches
      <4>2. Layer(h, 0, <<>>)[r] = [kind |-> h[Home(h, r.obj)].kind, elems |-> <<>>]
        BY <3>1, <3>3, ObjectLayer
      <4>3. Layer(h2, 0, <<>>)[s] = [kind |-> h2[Home(h2, s.obj)].kind, elems |-> <<>>]
        BY <3>1, <4>1, ObjectLayer
      <4> QED
        BY <4>1, <4>2, <4>3
    <3> QED
      BY <3>1, <3>2, <3>3 DEF Matches
  <2> QED
    BY <2>1, UnfoldedFacts
<1>2. ASSUME NEW n \in Nat, n \in Ns PROVE n + 1 \in Ns
  <2> SUFFICES ASSUME n + 1 <= Depth, NEW r, NEW s, <<r, s>> \in P
               PROVE  Unfolded(h)[n + 1][r] = Unfolded(h2)[n + 1][s]
    OBVIOUS
  <2>1. n < Depth /\ n <= Depth /\ Depth \in Nat
    BY UnfoldedFacts
  <2>2. PICK A, B : A = Unfolded(h)[n] /\ B = Unfolded(h2)[n]
    OBVIOUS
  <2>3. Unfolded(h)[n + 1] = Layer(h, n + 1, A) /\ Unfolded(h2)[n + 1] = Layer(h2, n + 1, B)
    BY <2>1, <2>2, UnfoldedFacts
  <2>4. \A q, t : <<q, t>> \in P => A[q] = B[t]
    BY <1>2, <2>1, <2>2
  <2>5. r \in OBJ /\ s \in OBJ /\ Matches(h, h2, r, s, P)
    BY DEF Alike
  <2>6. n + 1 \in Nat /\ n + 1 # 0
    OBVIOUS
  <2>7. CASE r \in Inline /\ s = r
    BY <2>3, <2>7, FlatLayer
  <2>8. CASE r \notin Inline
    <3>1. PICK x, y : x = ShownBy(h, r) /\ y = ShownBy(h2, s)
      OBVIOUS
    <3>2. s \notin Inline /\ h[Home(h, r.obj)].kind = h2[Home(h2, s.obj)].kind /\ DOMAIN x = DOMAIN y
          /\ \A i \in DOMAIN x : <<x[i], y[i]>> \in P
      BY <2>5, <2>8, <3>1 DEF Matches
    <3>3. Through(A, x) = Through(B, y)
      BY <2>4, <3>2 DEF Through
    <3>4. Layer(h, n + 1, A)[r] = [kind |-> h[Home(h, r.obj)].kind, elems |-> Through(A, x)]
      BY <2>5, <2>6, <2>8, <3>1, ObjectLayer
    <3>5. Layer(h2, n + 1, B)[s] = [kind |-> h2[Home(h2, s.obj)].kind, elems |-> Through(B, y)]
      BY <2>5, <2>6, <3>1, <3>2, ObjectLayer
    <3> QED
      BY <2>3, <3>2, <3>3, <3>4, <3>5
  <2> QED
    BY <2>5, <2>7, <2>8 DEF Matches
<1> HIDE DEF Ns
<1>3. Nat \subseteq Ns
  BY <1>1, <1>2, SetInduction
<1>4. Depth \in Ns
  BY <1>3, UnfoldedFacts
<1>5. ASSUME NEW r, NEW s, <<r, s>> \in P
      PROVE  Unfolded(h)[Depth][r] = Unfolded(h2)[Depth][s]
  BY <1>4, <1>5, UnfoldedFacts DEF Ns
<1> QED
  BY <1>5, UnfoldedFacts

\* References to objects that show the same in both heaps.
SameShown(h, h2, r) ==
  h2[Home(h2, r.obj)].kind = h[Home(h, r.obj)].kind /\ ShownBy(h2, r) = ShownBy(h, r)

\* What shows the same stands for the same value, if what it shows does.
LEMMA SameByReference ==
  ASSUME NEW h, NEW h2, NEW R \in SUBSET OBJ,
         \A r \in R : r \in Inline \/ (SameShown(h, h2, r) /\ \A i \in DOMAIN ShownBy(h, r) : ShownBy(h, r)[i] \in R)
  PROVE  \A r \in R : value(h2, r) = value(h, r)
<1>1. PICK P : P = {<<r, r>> : r \in R}
  OBVIOUS
<1>2. P \in SUBSET (OBJ \X OBJ)
  BY <1>1
<1>3. ASSUME NEW r, NEW s, <<r, s>> \in P
      PROVE  Matches(h, h2, r, s, P)
  <2>1. s = r /\ r \in R
    BY <1>1, <1>3
  <2>2. CASE r \in Inline
    BY <2>1, <2>2 DEF Matches
  <2>3. CASE r \notin Inline
    <3>1. SameShown(h, h2, r) /\ \A i \in DOMAIN ShownBy(h, r) : ShownBy(h, r)[i] \in R
      BY <2>1, <2>3
    <3>2. \A i \in DOMAIN ShownBy(h, r) : <<ShownBy(h, r)[i], ShownBy(h, r)[i]>> \in P
      BY <1>1, <3>1
    <3> QED
      BY <2>1, <2>3, <3>1, <3>2 DEF Matches, SameShown
  <2> QED
    BY <2>2, <2>3
<1>4. Alike(h, h2, P)
  BY <1>2, <1>3 DEF Alike
<1>5. ASSUME NEW r \in R
      PROVE  value(h2, r) = value(h, r)
  <2>1. <<r, r>> \in P
    BY <1>1
  <2> QED
    BY <1>4, <2>1, SameValues
<1> QED
  BY <1>5

\* A part of a finite set that leaves something out is smaller.
LEMMA SmallerPart ==
  ASSUME NEW S, IsFiniteSet(S), NEW T \in SUBSET S, NEW x \in S, x \notin T
  PROVE  Cardinality(T) \in Nat /\ Cardinality(S) \in Nat /\ Cardinality(T) < Cardinality(S)
<1>1. IsFiniteSet(T) /\ Cardinality(T) <= Cardinality(S) /\ Cardinality(S) # Cardinality(T)
  BY FS_Subset
<1>2. PICK m, n : m = Cardinality(T) /\ n = Cardinality(S)
  OBVIOUS
<1>3. m \in Nat /\ n \in Nat
  BY <1>1, <1>2, FS_CardinalityType
<1> QED
  BY <1>1, <1>2, <1>3

\* References to objects whose elements are of the same kind.
Readable(h, R) ==
  /\ R \in SUBSET OBJ
  /\ \A r \in R : r \in Inline \/ /\ r.obj \in Live(h) /\ Home(h, r.obj) \in Live(h)
                                  /\ \A i \in DOMAIN ShownBy(h, r) :
                                       /\ ShownBy(h, r)[i] \in R
                                       /\ \E j \in DOMAIN h[Home(h, r.obj)].elems :
                                            ShownBy(h, r)[i] = h[Home(h, r.obj)].elems[j]

\* Where objects are in no circle, values are unfolded to their ends: fewer
\* blocks come before an element than before what it is an element of.
LEMMA Ends ==
  ASSUME NEW h, Ordered(h), NEW R, Readable(h, R)
  PROVE  \A r \in R : Unfolded(h)[Cardinality(Id)][r] = Unfolded(h)[Depth][r]
<1>1. PICK rank \in [Id -> Nat] : Ranked(h, rank)
  BY DEF Ordered, Ranked
<1> DEFINE Before(x) == {y \in Id : rank[y] < rank[x]}
           Low(n, r) == r \in Inline \/ Cardinality(Before(Home(h, r.obj))) < n
           Ns == {n \in Nat : n < Depth => \A r \in R : Low(n, r) => Unfolded(h)[n][r] = Unfolded(h)[n + 1][r]}
<1>2. ASSUME NEW x \in Id
      PROVE  /\ IsFiniteSet(Before(x)) /\ Cardinality(Before(x)) \in Nat /\ Cardinality(Before(x)) < Cardinality(Id)
             /\ \A y \in Id : rank[y] < rank[x] => Cardinality(Before(y)) < Cardinality(Before(x))
  <2>1. IsFiniteSet(Before(x)) /\ Cardinality(Before(x)) \in Nat
    BY BlocksAssumption, FS_Subset, FS_CardinalityType
  <2>2. Before(x) \in SUBSET Id /\ x \notin Before(x)
    OBVIOUS
  <2>3. Cardinality(Before(x)) < Cardinality(Id)
    <3> HIDE DEF Before
    <3> QED
      BY <2>2, BlocksAssumption, SmallerPart
  <2>4. ASSUME NEW y \in Id, rank[y] < rank[x]
        PROVE  Cardinality(Before(y)) < Cardinality(Before(x))
    <3>1. \A z \in Before(y) : z \in Before(x)
      BY <2>4
    <3>2. y \in Before(x) /\ y \notin Before(y)
      BY <2>4
    <3> HIDE DEF Before
    <3> QED
      BY <2>1, <3>1, <3>2, SmallerPart
  <2> QED
    BY <2>1, <2>3, <2>4
<1>3. ASSUME NEW r \in R, r \notin Inline, NEW i \in DOMAIN ShownBy(h, r), ShownBy(h, r)[i] \notin Inline
      PROVE  Cardinality(Before(Home(h, ShownBy(h, r)[i].obj))) < Cardinality(Before(Home(h, r.obj)))
  <2>1. PICK e : e = ShownBy(h, r)[i]
    OBVIOUS
  <2>2. PICK x : x = Home(h, r.obj)
    OBVIOUS
  <2>3. x \in Live(h) /\ e \in R /\ \E j \in DOMAIN h[x].elems : e = h[x].elems[j]
    BY <1>3, <2>1, <2>2 DEF Readable
  <2>4. e.obj \in Live(h) /\ Home(h, e.obj) \in Live(h) /\ e \notin Inline
    BY <1>3, <2>1, <2>3 DEF Readable
  <2>5. e.obj \in Targets(h, x)
    BY <2>3, <2>4 DEF Targets, Target
  <2>6. rank[e.obj] < rank[x]
    BY <1>1, <2>3, <2>5 DEF Ranked
  <2>7. rank[Home(h, e.obj)] = rank[e.obj]
    BY <1>1, <2>4 DEF Ranked, Home
  <2>8. x \in Id /\ Home(h, e.obj) \in Id
    BY <2>3, <2>4 DEF Live
  <2> HIDE DEF Before
  <2> QED
    BY <1>2, <2>1, <2>2, <2>6, <2>7, <2>8
<1>4. \A r \in R : r \notin Inline => Home(h, r.obj) \in Id
  BY DEF Readable, Live
<1>5. Cardinality(Id) \in Nat /\ Depth = Cardinality(Id) + 1
  BY UnfoldedFacts
<1> HIDE DEF Before
<1>6. ASSUME NEW r \in R, NEW n \in Nat, n < Depth, r \in Inline
      PROVE  Unfolded(h)[n][r] = Unfolded(h)[n + 1][r]
  <2>1. Unfolded(h)[n + 1] = Layer(h, n + 1, Unfolded(h)[n])
    BY <1>6, UnfoldedFacts
  <2>2. Unfolded(h)[n + 1][r] = Flat(r)
    BY <1>6, <2>1, FlatLayer
  <2>3. CASE n = 0
    BY <1>6, <2>2, <2>3, UnfoldedFacts, FlatLayer
  <2>4. CASE n # 0
    <3>1. PICK k \in Nat : n = k + 1
      BY <2>4
    <3>2. k < Depth
      BY <1>5, <1>6, <3>1
    <3>3. Unfolded(h)[n] = Layer(h, n, Unfolded(h)[k])
      BY <3>1, <3>2, UnfoldedFacts
    <3> QED
      BY <1>6, <2>2, <3>3, FlatLayer
  <2> QED
    BY <2>3, <2>4
<1>7. 0 \in Ns
  <2>1. ASSUME NEW r \in R, Low(0, r), 0 < Depth
        PROVE  Unfolded(h)[0][r] = Unfolded(h)[0 + 1][r]
    <3>1. r \in Inline
      <4>1. CASE r \notin Inline
        <5>1. PICK k \in Nat : k = Cardinality(Before(Home(h, r.obj)))
          BY <1>2, <1>4, <4>1
        <5> QED
          BY <2>1, <4>1, <5>1
      <4> QED
        BY <4>1
    <3> QED
      BY <1>6, <2>1, <3>1
  <2> QED
    BY <2>1
<1>8. ASSUME NEW n \in Nat, n \in Ns PROVE n + 1 \in Ns
  <2>1. ASSUME n + 1 < Depth, NEW r \in R, Low(n + 1, r)
        PROVE  Unfolded(h)[n + 1][r] = Unfolded(h)[(n + 1) + 1][r]
    <3>1. CASE r \in Inline
      BY <1>6, <2>1, <3>1
    <3>2. CASE r \notin Inline
      <4>1. n < Depth /\ n + 1 \in Nat /\ n + 1 # 0 /\ (n + 1) + 1 # 0
        BY <1>5, <2>1
      <4>2. PICK A, B, C : A = Unfolded(h)[n] /\ B = Unfolded(h)[n + 1] /\ C = Unfolded(h)[(n + 1) + 1]
        OBVIOUS
      <4>3. B = Layer(h, n + 1, A) /\ C = Layer(h, (n + 1) + 1, B)
        BY <2>1, <4>1, <4>2, UnfoldedFacts
      <4>4. PICK k \in Nat : k = Cardinality(Before(Home(h, r.obj)))
        BY <1>2, <1>4, <3>2
      <4>5. k < n + 1
        BY <2>1, <3>2, <4>4
      <4>6. PICK x : x = ShownBy(h, r)
        OBVIOUS
      <4>7. ASSUME NEW i \in DOMAIN x
            PROVE  A[x[i]] = B[x[i]]
        <5>1. x[i] \in R
          BY <3>2, <4>6 DEF Readable
        <5>2. Low(n, x[i])
          <6>1. CASE x[i] \notin Inline
            <7>1. PICK j \in Nat : j = Cardinality(Before(Home(h, x[i].obj)))
              BY <1>2, <1>4, <5>1, <6>1
            <7>2. j < k
              BY <1>3, <3>2, <4>4, <4>6, <6>1, <7>1
            <7>3. j < n
              BY <4>4, <4>5, <7>1, <7>2
            <7> QED
              BY <7>1, <7>3
          <6> QED
            BY <6>1
        <5> HIDE DEF Low
        <5> QED
          BY <1>8, <4>1, <4>2, <5>1, <5>2
      <4>8. Through(A, x) = Through(B, x)
        BY <4>7 DEF Through
      <4>9. r \in OBJ
        BY DEF Readable
      <4>10. B[r] = [kind |-> h[Home(h, r.obj)].kind, elems |-> Through(A, x)]
        BY <3>2, <4>1, <4>3, <4>6, <4>9, ObjectLayer
      <4>11. C[r] = [kind |-> h[Home(h, r.obj)].kind, elems |-> Through(B, x)]
        BY <3>2, <4>1, <4>3, <4>6, <4>9, ObjectLayer
      <4> QED
        BY <4>2, <4>8, <4>10, <4>11
    <3> QED
      BY <3>1, <3>2
  <2> HIDE DEF Low
  <2> QED
    BY <2>1
<1> HIDE DEF Ns
<1>9. Nat \subseteq Ns
  BY <1>7, <1>8, SetInduction
<1>10. Cardinality(Id) \in Ns
  BY <1>5, <1>9
<1>11. ASSUME NEW r \in R
       PROVE  Low(Cardinality(Id), r)
  BY <1>2, <1>4
<1> HIDE DEF Low
<1> QED
  BY <1>5, <1>10, <1>11 DEF Ns

\* So the value of an object is made of the values of its elements.
LEMMA ValueFacts ==
  ASSUME NEW h, Ordered(h), NEW R, Readable(h, R), NEW r \in R
  PROVE  /\ r \in Inline => value(h, r) = Flat(r)
         /\ r \notin Inline =>
              value(h, r) = [kind |-> h[Home(h, r.obj)].kind,
                             elems |-> [i \in DOMAIN ShownBy(h, r) |-> value(h, ShownBy(h, r)[i])]]
<1>1. PICK n \in Nat : n = Cardinality(Id) /\ Depth = n + 1 /\ n < Depth
  BY UnfoldedFacts
<1>2. PICK A, B : A = Unfolded(h)[n] /\ B = Unfolded(h)[Depth]
  OBVIOUS
<1>3. B = Layer(h, n + 1, A) /\ \A q : value(h, q) = B[q]
  BY <1>1, <1>2, UnfoldedFacts
<1>4. CASE r \in Inline
  BY <1>3, <1>4, FlatLayer
<1>5. CASE r \notin Inline
  <2>1. PICK x : x = ShownBy(h, r)
    OBVIOUS
  <2>2. r \in OBJ /\ \A i \in DOMAIN x : x[i] \in R
    BY <1>5, <2>1 DEF Readable
  <2>3. B[r] = [kind |-> h[Home(h, r.obj)].kind, elems |-> Through(A, x)]
    <3>1. n + 1 # 0
      BY <1>1
    <3> QED
      BY <1>3, <1>5, <2>1, <2>2, <3>1, ObjectLayer
  <2>4. ASSUME NEW i \in DOMAIN x
        PROVE  A[x[i]] = value(h, x[i])
    <3>1. \A q \in R : A[q] = B[q]
      BY ONLY <1>1, <1>2, Ordered(h), Readable(h, R), Ends
    <3> QED
      BY <1>3, <2>2, <3>1
  <2>5. Through(A, x) = [i \in DOMAIN x |-> value(h, x[i])]
    BY <2>4 DEF Through
  <2> QED
    BY <1>3, <1>5, <2>1, <2>3, <2>5
<1> QED
  BY <1>4, <1>5

-----------------------------------------------------------------------------
(***************************************************************************)
(* The values that a program can see.                                      *)
(***************************************************************************)
\* What the references in a sequence stand for.
Meanings(h, s) == [i \in DOMAIN s |-> value(h, s[i])]
AllValues(h) == {value(h, r) : r \in OBJ}

\* They are as many, each in its place.
LEMMA MeaningFacts ==
  ASSUME NEW h, NEW s \in Seq(OBJ)
  PROVE  /\ Meanings(h, s) \in Seq(AllValues(h)) /\ Len(Meanings(h, s)) = Len(s) /\ Len(s) \in Nat
         /\ DOMAIN Meanings(h, s) = DOMAIN s /\ DOMAIN s = 1 .. Len(s)
         /\ \A i \in DOMAIN s : Meanings(h, s)[i] = value(h, s[i]) /\ s[i] \in OBJ
<1>1. Len(s) \in Nat /\ DOMAIN s = 1 .. Len(s) /\ \A i \in DOMAIN s : s[i] \in OBJ
  BY LenProperties
<1>2. PICK n \in Nat : n = Len(s)
  BY <1>1
<1>3. Meanings(h, s) = [i \in 1 .. n |-> value(h, s[i])]
  BY <1>1, <1>2 DEF Meanings
<1>4. \A i \in 1 .. n : value(h, s[i]) \in AllValues(h)
  BY <1>1, <1>2 DEF AllValues
<1>5. Meanings(h, s) \in [1 .. n -> AllValues(h)]
  BY <1>3, <1>4
<1>6. Meanings(h, s) \in Seq(AllValues(h)) /\ Len(Meanings(h, s)) = n
  BY <1>2, <1>5, SeqDef, LenProperties
<1> QED
  BY <1>1, <1>2, <1>3, <1>6

\* The values of a part are a part of the values.
LEMMA PartMeanings ==
  ASSUME NEW h, NEW s \in Seq(OBJ), NEW off \in Nat, NEW n \in Nat, off + n <= Len(s)
  PROVE  Meanings(h, SubSeq(s, off + 1, off + n)) = SubSeq(Meanings(h, s), off + 1, off + n)
<1>1. PICK a, b, c, d : /\ a = SubSeq(s, off + 1, off + n) /\ b = Meanings(h, s)
                        /\ c = SubSeq(b, off + 1, off + n) /\ d = Meanings(h, a)
  OBVIOUS
<1>2. a \in Seq(OBJ) /\ Len(a) = n /\ DOMAIN a = 1 .. n /\ \A i \in 1 .. n : a[i] = s[off + i] /\ off + i \in DOMAIN s
  BY ONLY <1>1, s \in Seq(OBJ), off \in Nat, n \in Nat, off + n <= Len(s), PartFacts
<1>3. b \in Seq(AllValues(h)) /\ Len(b) = Len(s) /\ \A i \in DOMAIN s : b[i] = value(h, s[i])
  BY <1>1, MeaningFacts
<1>4. c \in Seq(AllValues(h)) /\ DOMAIN c = 1 .. n /\ \A i \in 1 .. n : c[i] = b[off + i]
  BY <1>1, <1>3, PartFacts
<1>5. d \in Seq(AllValues(h)) /\ DOMAIN d = 1 .. n /\ \A i \in 1 .. n : d[i] = value(h, a[i])
  BY <1>1, <1>2, MeaningFacts
<1>6. \A i \in 1 .. n : c[i] = d[i]
  BY <1>2, <1>3, <1>4, <1>5
<1>7. c = [i \in 1 .. n |-> c[i]] /\ d = [i \in 1 .. n |-> d[i]]
  BY <1>4, <1>5, SeqDef
<1> QED
  BY <1>1, <1>6, <1>7

\* What is appended to a sequence is in no part of what it was.
LEMMA PartOfLonger ==
  ASSUME NEW all \in Seq(OBJ), NEW new \in Seq(OBJ), NEW off \in Nat, NEW n \in Nat, off + n <= Len(all)
  PROVE  SubSeq(all \o new, off + 1, off + n) = SubSeq(all, off + 1, off + n)
<1>1. PICK longer, a, b : /\ longer = all \o new
                          /\ a = SubSeq(longer, off + 1, off + n) /\ b = SubSeq(all, off + 1, off + n)
  OBVIOUS
<1>2. PICK k, m : k = Len(all) /\ m = Len(new)
  OBVIOUS
<1>3. k \in Nat /\ m \in Nat /\ DOMAIN all = 1 .. k
  BY <1>2, LenProperties
<1>4. longer \in Seq(OBJ) /\ Len(longer) = k + m
  BY <1>1, <1>2, ConcatProperties
<1>5. \A i \in 1 .. k + m : longer[i] = IF i <= k THEN all[i] ELSE new[i - k]
  BY <1>1, <1>2, ConcatProperties
<1>6. off + n <= Len(longer)
  BY <1>2, <1>3, <1>4
<1>7. a \in Seq(OBJ) /\ DOMAIN a = 1 .. n /\ \A i \in 1 .. n : a[i] = longer[off + i]
  <2>1. a = SubSeq(longer, off + 1, off + n) /\ longer \in Seq(OBJ)
    BY <1>1, <1>4
  <2> QED
    BY ONLY <1>6, <2>1, off \in Nat, n \in Nat, PartFacts
<1>8. b \in Seq(OBJ) /\ DOMAIN b = 1 .. n /\ \A i \in 1 .. n : b[i] = all[off + i]
  BY ONLY <1>1, all \in Seq(OBJ), off \in Nat, n \in Nat, off + n <= Len(all), PartFacts
<1>9. ASSUME NEW i \in 1 .. n
      PROVE  a[i] = b[i]
  <2>1. off + i \in 1 .. k + m /\ off + i <= k
    BY <1>2, <1>3
  <2> QED
    BY <1>5, <1>7, <1>8, <2>1
<1>10. a = [i \in 1 .. n |-> a[i]] /\ b = [i \in 1 .. n |-> b[i]]
  BY <1>7, <1>8, SeqDef
<1> QED
  BY <1>1, <1>9, <1>10

\* All of a sequence is a part of it.
LEMMA WholePart ==
  ASSUME NEW all \in Seq(OBJ)
  PROVE  SubSeq(all, 0 + 1, 0 + Len(all)) = all
<1>1. PICK n \in Nat : n = Len(all)
  BY LenProperties
<1>2. PICK s : s = SubSeq(all, 0 + 1, 0 + n)
  OBVIOUS
<1>3. 0 \in Nat /\ 0 + n <= Len(all)
  BY <1>1
<1>4. s \in Seq(OBJ) /\ DOMAIN s = 1 .. n /\ \A i \in 1 .. n : s[i] = all[0 + i]
  BY ONLY <1>2, <1>3, all \in Seq(OBJ), n \in Nat, PartFacts
<1>5. \A i \in 1 .. n : s[i] = all[i]
  BY <1>4
<1>6. s = [i \in 1 .. n |-> s[i]] /\ all = [i \in 1 .. n |-> all[i]]
  BY <1>1, <1>4, SeqDef, LenProperties
<1> QED
  BY <1>1, <1>2, <1>5, <1>6

\* Two sequences, one after the other.
LEMMA JoinFacts ==
  ASSUME NEW s \in Seq(OBJ), NEW t \in Seq(OBJ), NEW m, m = Len(s), NEW n, n = Len(t), NEW c, c = s \o t
  PROVE  /\ m \in Nat /\ n \in Nat /\ c \in Seq(OBJ) /\ Len(c) = m + n
         /\ DOMAIN s = 1 .. m /\ DOMAIN t = 1 .. n /\ DOMAIN c = 1 .. m + n
         /\ \A i \in 1 .. m : c[i] = s[i]
         /\ \A i \in 1 .. n : c[m + i] = t[i]
<1>1. m \in Nat /\ n \in Nat /\ DOMAIN s = 1 .. m /\ DOMAIN t = 1 .. n
  BY LenProperties
<1>2. c \in Seq(OBJ) /\ Len(c) = m + n
  BY ConcatProperties
<1>3. \A i \in 1 .. m + n : c[i] = IF i <= m THEN s[i] ELSE t[i - m]
  BY ConcatProperties
<1>4. DOMAIN c = 1 .. m + n
  BY <1>2, LenProperties
<1>5. \A i \in 1 .. m : c[i] = s[i]
  BY <1>1, <1>3
<1>6. ASSUME NEW i \in 1 .. n
      PROVE  c[m + i] = t[i]
  <2>1. m + i \in 1 .. m + n /\ ~ (m + i <= m) /\ (m + i) - m = i
    BY <1>1
  <2>2. c[m + i] = t[(m + i) - m]
    BY <1>3, <2>1
  <2> QED
    BY <2>1, <2>2
<1> QED
  BY <1>1, <1>2, <1>4, <1>5, <1>6

\* A part that reaches the end, with all that is appended.
Lengthened(all, new, off, n, k) == SubSeq(all \o new, off + 1, off + (n + k)) = SubSeq(all, off + 1, off + n) \o new

\* It is the part with all that is appended to it.
LEMMA LongerPart ==
  ASSUME NEW all \in Seq(OBJ), NEW new \in Seq(OBJ), NEW off \in Nat, NEW n \in Nat, off + n = Len(all),
         NEW k \in Nat, k = Len(new)
  PROVE  Lengthened(all, new, off, n, k)
<1>1. PICK longer, a, b, c : /\ longer = all \o new /\ a = SubSeq(longer, off + 1, off + (n + k))
                             /\ b = SubSeq(all, off + 1, off + n) /\ c = b \o new
  OBVIOUS
<1>2. PICK m : m = Len(all)
  OBVIOUS
<1>3. /\ m \in Nat /\ k \in Nat /\ longer \in Seq(OBJ) /\ Len(longer) = m + k
      /\ \A i \in 1 .. m : longer[i] = all[i]
      /\ \A i \in 1 .. k : longer[m + i] = new[i]
  BY ONLY <1>1, <1>2, all \in Seq(OBJ), new \in Seq(OBJ), k = Len(new), JoinFacts
<1>4. m = off + n /\ n + k \in Nat /\ off + (n + k) <= Len(longer) /\ off + n <= Len(all)
  BY <1>2, <1>3
<1>5. a \in Seq(OBJ) /\ DOMAIN a = 1 .. n + k /\ \A i \in 1 .. n + k : a[i] = longer[off + i]
  BY ONLY <1>1, <1>3, <1>4, off \in Nat, PartFacts
<1>6. b \in Seq(OBJ) /\ Len(b) = n /\ \A i \in 1 .. n : b[i] = all[off + i]
  BY ONLY <1>1, <1>4, all \in Seq(OBJ), off \in Nat, n \in Nat, PartFacts
<1>7. /\ c \in Seq(OBJ) /\ DOMAIN c = 1 .. n + k
      /\ \A i \in 1 .. n : c[i] = b[i]
      /\ \A i \in 1 .. k : c[n + i] = new[i]
  <2>1. n = Len(b) /\ b \in Seq(OBJ) /\ c = b \o new
    BY <1>1, <1>6
  <2> QED
    BY ONLY <2>1, new \in Seq(OBJ), k = Len(new), JoinFacts
<1>8. ASSUME NEW i \in 1 .. n + k
      PROVE  a[i] = c[i]
  <2>1. CASE i <= n
    <3>1. i \in 1 .. n /\ off + i \in 1 .. m
      BY <1>3, <1>4, <2>1
    <3> QED
      BY <1>3, <1>5, <1>6, <1>7, <3>1
  <2>2. CASE ~ (i <= n)
    <3>1. PICK j \in 1 .. k : i = n + j
      <4>1. i - n \in 1 .. k /\ i = n + (i - n)
        BY <1>3, <2>2
      <4> QED
        BY <4>1
    <3>2. off + i = m + j
      BY <1>3, <1>4, <3>1
    <3> QED
      BY <1>3, <1>5, <1>7, <3>1, <3>2
  <2> QED
    BY <2>1, <2>2
<1>9. a = [i \in 1 .. n + k |-> a[i]] /\ c = [i \in 1 .. n + k |-> c[i]]
  BY <1>5, <1>7, SeqDef
<1>10. a = c
  BY <1>8, <1>9
<1> QED
  BY <1>1, <1>10 DEF Lengthened

\* The elements of two sequences are those of each.
LEMMA ConcatOf ==
  ASSUME NEW s \in Seq(OBJ), NEW t \in Seq(OBJ), NEW i \in DOMAIN (s \o t)
  PROVE  (\E j \in DOMAIN s : (s \o t)[i] = s[j]) \/ (\E j \in DOMAIN t : (s \o t)[i] = t[j])
<1>1. PICK m \in Nat, n \in Nat : m = Len(s) /\ n = Len(t)
  BY LenProperties
<1>2. PICK c : c = s \o t
  OBVIOUS
<1>3. c \in Seq(OBJ) /\ Len(c) = m + n /\ \A j \in 1 .. m + n : c[j] = IF j <= m THEN s[j] ELSE t[j - m]
  BY <1>1, <1>2, ConcatProperties
<1>4. i \in 1 .. m + n /\ DOMAIN s = 1 .. m /\ DOMAIN t = 1 .. n
  BY <1>1, <1>2, <1>3, LenProperties
<1>5. CASE i <= m
  <2>1. i \in DOMAIN s /\ c[i] = s[i]
    BY <1>3, <1>4, <1>5
  <2> QED
    BY <1>2, <2>1
<1>6. CASE ~ (i <= m)
  <2>1. i - m \in DOMAIN t /\ c[i] = t[i - m]
    BY <1>3, <1>4, <1>6
  <2> QED
    BY <1>2, <2>1
<1> QED
  BY <1>5, <1>6

\* So are those of two sequences, one after the other.
LEMMA ConcatMeanings ==
  ASSUME NEW h, NEW s \in Seq(OBJ), NEW t \in Seq(OBJ)
  PROVE  Meanings(h, s \o t) = Meanings(h, s) \o Meanings(h, t)
<1>1. PICK a, b, c, d, e : /\ a = Meanings(h, s) /\ b = Meanings(h, t) /\ c = s \o t
                           /\ d = Meanings(h, c) /\ e = a \o b
  OBVIOUS
<1>2. PICK m, n : m = Len(s) /\ n = Len(t)
  OBVIOUS
<1>3. /\ a \in Seq(AllValues(h)) /\ Len(a) = m /\ m \in Nat /\ DOMAIN s = 1 .. m
      /\ \A i \in DOMAIN s : a[i] = value(h, s[i])
      /\ b \in Seq(AllValues(h)) /\ Len(b) = n /\ n \in Nat /\ DOMAIN t = 1 .. n
      /\ \A i \in DOMAIN t : b[i] = value(h, t[i])
  BY <1>1, <1>2, MeaningFacts
<1>4. c \in Seq(OBJ) /\ Len(c) = m + n /\ \A i \in 1 .. m + n : c[i] = IF i <= m THEN s[i] ELSE t[i - m]
  BY <1>1, <1>2, ConcatProperties
<1>5. e \in Seq(AllValues(h)) /\ Len(e) = m + n /\ \A i \in 1 .. m + n : e[i] = IF i <= m THEN a[i] ELSE b[i - m]
  <2>1. PICK S : S = AllValues(h)
    OBVIOUS
  <2>2. a \in Seq(S) /\ b \in Seq(S) /\ Len(a) = m /\ Len(b) = n /\ e = a \o b
    BY <1>1, <1>3, <2>1
  <2>3. e \in Seq(S) /\ Len(e) = m + n
    BY <2>2, ConcatProperties
  <2>4. \A i \in 1 .. m + n : e[i] = IF i <= m THEN a[i] ELSE b[i - m]
    BY <2>2, ConcatProperties
  <2> QED
    BY <2>1, <2>3, <2>4
<1>6. d \in Seq(AllValues(h)) /\ DOMAIN d = 1 .. m + n /\ \A i \in 1 .. m + n : d[i] = value(h, c[i])
  BY <1>1, <1>4, MeaningFacts
<1>7. ASSUME NEW i \in 1 .. m + n
      PROVE  d[i] = e[i]
  <2>1. CASE i <= m
    <3>1. i \in 1 .. m
      BY <1>3, <2>1
    <3> QED
      BY <1>3, <1>4, <1>5, <1>6, <2>1, <3>1
  <2>2. CASE ~ (i <= m)
    <3>1. i - m \in 1 .. n
      BY <1>3, <2>2
    <3> QED
      BY <1>3, <1>4, <1>5, <1>6, <2>2, <3>1
  <2> QED
    BY <2>1, <2>2
<1>8. DOMAIN e = 1 .. m + n
  BY <1>5, LenProperties
<1>9. d = [i \in 1 .. m + n |-> d[i]] /\ e = [i \in 1 .. m + n |-> e[i]]
  BY <1>5, <1>6, <1>8, SeqDef
<1> QED
  BY <1>1, <1>7, <1>9

\* References that stand for the same values in two heaps, in a sequence.
LEMMA SameMeanings ==
  ASSUME NEW h, NEW h2, NEW s, \A i \in DOMAIN s : value(h2, s[i]) = value(h, s[i])
  PROVE  Meanings(h2, s) = Meanings(h, s)
BY DEF Meanings

-----------------------------------------------------------------------------
(***************************************************************************)
(* Values are kept.                                                        *)
(***************************************************************************)
\* The elements of an object in a heap without copies.
Contents(h, r) == IF is_seq(h, r) THEN SeqElems(h, r) ELSE h[r.obj].elems

\* While a program evaluates it reads usable references from usable references.
LEMMA EvaluableReadable ==
  ASSUME NEW md \in {"normal", "try"}, NEW h, Evaluable(md, h), NEW R, R = {r \in OBJ : Usable(h, r)}
  PROVE  /\ Readable(h, R) /\ R \in SUBSET OBJ
         /\ \A r : Usable(h, r) => r \in R
         /\ \A r \in R : r \notin Inline =>
              /\ ShownBy(h, r) = Contents(h, r) /\ Home(h, r.obj) = r.obj /\ r.obj \in Live(h)
              /\ Contents(h, r) \in Seq(OBJ) /\ \A i \in DOMAIN Contents(h, r) : Usable(h, Contents(h, r)[i])
<1>1. R \in SUBSET OBJ /\ \A r : Usable(h, r) => r \in R
  BY EvaluableFacts
<1>2. ASSUME NEW r \in R, r \notin Inline
      PROVE  /\ ShownBy(h, r) = Contents(h, r) /\ Home(h, r.obj) = r.obj /\ r.obj \in Live(h)
             /\ Contents(h, r) \in Seq(OBJ)
             /\ \A i \in DOMAIN Contents(h, r) : /\ Usable(h, Contents(h, r)[i])
                                                 /\ \E j \in DOMAIN h[r.obj].elems : Contents(h, r)[i] = h[r.obj].elems[j]
  <2>1. Usable(h, r) /\ r.obj \in Live(h) /\ Home(h, r.obj) = r.obj /\ r # EMPTY_SEQ
    BY <1>2, EvaluableFacts DEF Inline
  <2>2. CASE h[r.obj].kind = "seq"
    <3>1. is_seq(h, r)
      BY <1>2, <2>2 DEF is_seq, is_ne_seq
    <3>2. ShownBy(h, r) = Contents(h, r) /\ Contents(h, r) = SeqElems(h, r)
      BY <2>1, <2>2, <3>1 DEF ShownBy, Contents, SeqElems
    <3>3. PICK n : n = get_seq_length(r)
      OBVIOUS
    <3>4. /\ SeqElems(h, r) \in Seq(OBJ)
          /\ \A i \in DOMAIN SeqElems(h, r) : /\ Usable(h, SeqElems(h, r)[i])
                                              /\ r.off + i \in DOMAIN h[r.obj].elems
                                              /\ SeqElems(h, r)[i] = h[r.obj].elems[r.off + i]
      BY <2>1, <3>1, ShownFacts
    <3> QED
      BY <2>1, <3>2, <3>4
  <2>3. CASE h[r.obj].kind # "seq"
    <3>1. ~ is_seq(h, r)
      BY <2>1, <2>3 DEF is_seq, is_ne_seq
    <3>2. ShownBy(h, r) = Contents(h, r) /\ Contents(h, r) = h[r.obj].elems
      BY <2>1, <2>3, <3>1 DEF ShownBy, Contents
    <3>3. h[r.obj].elems \in Seq(OBJ)
      BY <2>1, HeapFacts DEF Evaluable, ElementsTyped, Live
    <3>4. \A i \in DOMAIN h[r.obj].elems : Usable(h, h[r.obj].elems[i])
      BY <2>1, EvaluableFacts
    <3> QED
      BY <2>1, <3>2, <3>3, <3>4
  <2> QED
    BY <2>2, <2>3
<1>3. Readable(h, R)
  BY <1>1, <1>2 DEF Readable
<1> QED
  BY <1>1, <1>2, <1>3

\* So the value of an object is its kind and the values of its elements.
LEMMA EvaluableValue ==
  ASSUME NEW md \in {"normal", "try"}, NEW h, Evaluable(md, h), Ordered(h), NEW r, Usable(h, r)
  PROVE  /\ r \in Inline => value(h, r) = Flat(r)
         /\ r \notin Inline =>
              /\ value(h, r) = [kind |-> h[r.obj].kind, elems |-> Meanings(h, Contents(h, r))]
              /\ Contents(h, r) \in Seq(OBJ) /\ \A i \in DOMAIN Contents(h, r) : Usable(h, Contents(h, r)[i])
<1>1. PICK R : R = {q \in OBJ : Usable(h, q)}
  OBVIOUS
<1>2. Readable(h, R) /\ r \in R
  BY <1>1, EvaluableReadable
<1>3. CASE r \in Inline
  BY <1>2, <1>3, ValueFacts
<1>4. CASE r \notin Inline
  <2>1. PICK x : x = ShownBy(h, r)
    OBVIOUS
  <2>2. x = Contents(h, r) /\ Home(h, r.obj) = r.obj
        /\ Contents(h, r) \in Seq(OBJ) /\ \A i \in DOMAIN Contents(h, r) : Usable(h, Contents(h, r)[i])
    BY <1>1, <1>2, <1>4, <2>1, EvaluableReadable
  <2>3. value(h, r) = [kind |-> h[Home(h, r.obj)].kind, elems |-> [i \in DOMAIN x |-> value(h, x[i])]]
    BY <1>2, <1>4, <2>1, ValueFacts
  <2>4. value(h, r) = [kind |-> h[r.obj].kind, elems |-> Meanings(h, x)]
    BY <2>2, <2>3 DEF Meanings
  <2> QED
    BY <1>4, <2>2, <2>4
<1> QED
  BY <1>3, <1>4

\* And a sequence is the sequence of the values of what is shown of it.
LEMMA SequenceValue ==
  ASSUME NEW md \in {"normal", "try"}, NEW h, Evaluable(md, h), Ordered(h), NEW r, Usable(h, r), is_seq(h, r)
  PROVE  /\ value(h, r) = [kind |-> "seq", elems |-> Meanings(h, SeqElems(h, r))]
         /\ SeqElems(h, r) \in Seq(OBJ) /\ Len(SeqElems(h, r)) = get_seq_length(r)
         /\ \A i \in DOMAIN SeqElems(h, r) : Usable(h, SeqElems(h, r)[i])
<1>1. /\ SeqElems(h, r) \in Seq(OBJ) /\ Len(SeqElems(h, r)) = get_seq_length(r)
      /\ \A i \in DOMAIN SeqElems(h, r) : Usable(h, SeqElems(h, r)[i])
      /\ r # EMPTY_SEQ => r \notin Inline /\ h[r.obj].kind = "seq"
  BY ShownFacts
<1>2. CASE r = EMPTY_SEQ
  <2>1. value(h, r) = Flat(r) /\ r \notin Atom
    BY <1>2, EvaluableValue, InlineAssumption DEF Inline
  <2>2. value(h, r) = [kind |-> "seq", elems |-> <<>>]
    BY <2>1 DEF Flat
  <2>3. SeqElems(h, r) = <<>>
    BY <1>2 DEF SeqElems
  <2>4. <<>> \in Seq(OBJ) /\ Len(<<>>) = 0
    BY EmptySeq
  <2>5. Meanings(h, <<>>) \in Seq(AllValues(h)) /\ Len(Meanings(h, <<>>)) = 0
    BY <2>4, MeaningFacts
  <2>6. Meanings(h, <<>>) = <<>>
    BY <2>5, EmptySeq
  <2> QED
    BY <1>1, <2>2, <2>3, <2>6
<1>3. CASE r # EMPTY_SEQ
  <2>1. Contents(h, r) = SeqElems(h, r)
    BY DEF Contents
  <2> QED
    BY <1>1, <1>3, <2>1, EvaluableValue
<1> QED
  BY <1>2, <1>3

\* Objects stay what they are; a sequence may get more elements behind those it had.
Kept(h, h2) ==
  \A x \in Live(h) : /\ h2[x].kind = h[x].kind /\ h2[x].copy = h[x].copy
                     /\ \/ h2[x].elems = h[x].elems
                        \/ h[x].kind = "seq" /\ \E new \in Seq(OBJ) : h2[x].elems = h[x].elems \o new

\* Then every reference stands for what it stood for.
LEMMA KeptValues ==
  ASSUME NEW md \in {"normal", "try"}, NEW h, Evaluable(md, h), NEW h2, Kept(h, h2)
  PROVE  \A r : Usable(h, r) => value(h2, r) = value(h, r)
<1>1. PICK R : R = {q \in OBJ : Usable(h, q)}
  OBVIOUS
<1>2. /\ R \in SUBSET OBJ /\ \A r : Usable(h, r) => r \in R
      /\ \A r \in R : r \notin Inline =>
           /\ ShownBy(h, r) = Contents(h, r) /\ Home(h, r.obj) = r.obj /\ r.obj \in Live(h)
           /\ Contents(h, r) \in Seq(OBJ) /\ \A i \in DOMAIN Contents(h, r) : Usable(h, Contents(h, r)[i])
  BY <1>1, EvaluableReadable
<1>3. ASSUME NEW r \in R, r \notin Inline
      PROVE  SameShown(h, h2, r) /\ \A i \in DOMAIN ShownBy(h, r) : ShownBy(h, r)[i] \in R
  <2>1. PICK x : x = r.obj
    OBVIOUS
  <2>2. x \in Live(h) /\ Home(h, x) = x /\ h2[x].kind = h[x].kind /\ h2[x].copy = h[x].copy
    BY <1>2, <1>3, <2>1 DEF Kept
  <2>3. Home(h2, x) = x
    BY <2>2 DEF Home
  <2>4. ShownBy(h2, r) = ShownBy(h, r)
    <3>1. CASE h2[x].elems = h[x].elems
      BY <2>1, <2>2, <2>3, <3>1 DEF ShownBy
    <3>2. CASE h2[x].elems # h[x].elems
      <4>1. PICK new \in Seq(OBJ) : h[x].kind = "seq" /\ h2[x].elems = h[x].elems \o new
        BY <2>2, <3>2 DEF Kept
      <4>2. PICK all, off, n : all = h[x].elems /\ off = r.off /\ n = r.len
        OBVIOUS
      <4>3. Usable(h, r) /\ all \in Seq(OBJ)
        BY <1>1, <2>2, <4>2, HeapFacts DEF Evaluable, ElementsTyped, Live
      <4>4. off \in Nat /\ n \in Nat /\ off + n <= Len(all)
        BY <1>3, <2>1, <2>2, <4>2, <4>3 DEF Usable, Ref
      <4>5. SubSeq(all \o new, off + 1, off + n) = SubSeq(all, off + 1, off + n)
        BY <4>1, <4>3, <4>4, PartOfLonger
      <4> QED
        BY <2>1, <2>2, <2>3, <4>1, <4>2, <4>5 DEF ShownBy
    <3> QED
      BY <3>1, <3>2
  <2>5. \A i \in DOMAIN ShownBy(h, r) : ShownBy(h, r)[i] \in R
    BY <1>2, <1>3
  <2> QED
    BY <2>1, <2>2, <2>3, <2>4, <2>5 DEF SameShown
<1> QED
  BY <1>2, <1>3, SameByReference

\* Objects that are left are what they were.
Left(h, h2) ==
  \A x \in Live(h2) : x \in Live(h) /\ h2[x].kind = h[x].kind /\ h2[x].elems = h[x].elems /\ h2[x].copy = h[x].copy

\* Then what can still be used stands for what it did, in all memories or in
\* standard memory alone.
LEMMA LeftValues ==
  ASSUME NEW h, NEW h2, HeapOK(h2), Left(h, h2), NEW Mems \in {Memory, {"std"}}, \A m \in Mems : Closed(h2, m),
         NoCopies(h2) \/ Mems = {"std"}
  PROVE  \A r : Usable(h2, r) /\ (r \in Inline \/ r.mem \in Mems) => value(h2, r) = value(h, r)
<1>1. PICK R : R = {q \in OBJ : Usable(h2, q) /\ (q \in Inline \/ q.mem \in Mems)}
  OBVIOUS
<1>2. R \in SUBSET OBJ /\ \A r : Usable(h2, r) /\ (r \in Inline \/ r.mem \in Mems) => r \in R
  BY <1>1 DEF Usable, OBJ
<1>3. ASSUME NEW r \in R, r \notin Inline
      PROVE  SameShown(h, h2, r) /\ \A i \in DOMAIN ShownBy(h, r) : ShownBy(h, r)[i] \in R
  <2>1. PICK x, m : x = r.obj /\ m = r.mem
    OBVIOUS
  <2>2. m \in Mems /\ x \in Live(h2) /\ h2[x].mem = m /\ r \in Ref /\ r.off + r.len <= Len(h2[Home(h2, x)].elems)
        /\ x \in Objects(h2, m)
    BY <1>1, <1>3, <2>1 DEF Usable, Live, Objects, Ref
  <2>3. h2[x].copy = NONE
    <3>1. CASE NoCopies(h2)
      BY <2>2, <3>1 DEF NoCopies
    <3>2. CASE Mems = {"std"}
      BY <2>2, <3>2, LiveFacts DEF ObjectOK
    <3> QED
      BY <3>1, <3>2
  <2>4. x \in Live(h) /\ h2[x].kind = h[x].kind /\ h2[x].elems = h[x].elems /\ h[x].copy = NONE
    BY <2>2, <2>3 DEF Left
  <2>5. Home(h2, x) = x /\ Home(h, x) = x
    BY <2>3, <2>4 DEF Home
  <2>6. SameShown(h, h2, r)
    BY <2>1, <2>4, <2>5 DEF SameShown, ShownBy
  <2>7. ASSUME NEW i \in DOMAIN ShownBy(h, r)
        PROVE  \E j \in DOMAIN h2[x].elems : ShownBy(h, r)[i] = h2[x].elems[j]
    <3>1. CASE h2[x].kind # "seq"
      BY <2>1, <2>4, <2>5, <2>7, <3>1 DEF ShownBy
    <3>2. CASE h2[x].kind = "seq"
      <4>1. PICK all, off, n : all = h2[x].elems /\ off = r.off /\ n = r.len
        OBVIOUS
      <4>2. all \in Seq(OBJ) /\ off \in Nat /\ n \in Nat /\ off + n <= Len(all)
        BY <2>2, <2>5, <4>1, HeapFacts DEF ElementsTyped, Live, Ref
      <4>3. PICK s : s = SubSeq(all, off + 1, off + n)
        OBVIOUS
      <4>4. DOMAIN s = 1 .. n /\ \A j \in 1 .. n : s[j] = all[off + j] /\ off + j \in DOMAIN all
        BY ONLY <4>2, <4>3, PartFacts
      <4>5. ShownBy(h, r) = s
        BY <2>1, <2>4, <2>5, <3>2, <4>1, <4>3 DEF ShownBy
      <4> QED
        BY <2>7, <4>1, <4>4, <4>5
    <3> QED
      BY <3>1, <3>2
  <2>8. ASSUME NEW i \in DOMAIN ShownBy(h, r)
        PROVE  ShownBy(h, r)[i] \in R
    <3>1. PICK e : e = ShownBy(h, r)[i]
      OBVIOUS
    <3>2. PICK j \in DOMAIN h2[x].elems : e = h2[x].elems[j]
      BY <2>7, <3>1
    <3>3. Closed(h2, m)
      BY <2>2
    <3>4. Usable(h2, e) /\ (m = "std" => InStd(e))
      BY <2>2, <3>2, <3>3 DEF Closed
    <3>5. e \in Inline \/ e.mem \in Mems
      <4>1. CASE Mems = Memory
        BY <3>4, <4>1 DEF Usable, Ref
      <4>2. CASE Mems = {"std"}
        BY <2>2, <3>4, <4>2 DEF InStd
      <4> QED
        BY <4>1, <4>2
    <3> QED
      BY <1>2, <3>1, <3>4, <3>5
  <2> QED
    BY <2>6, <2>8
<1> QED
  BY <1>2, <1>3, SameByReference

\* Counting references changes no object but in its count.
LEMMA AddKept ==
  ASSUME NEW h, HeapOK(h), NEW md, NEW refs \in Seq(OBJ)
  PROVE  Kept(h, vec_add_ref(h, md, refs))
<1>1. PICK h2, m : h2 = vec_add_ref(h, md, refs) /\ m = CurrMemory(md)
  OBVIOUS
<1>2. Added(h, h2, m, refs)
  BY <1>1, AddedFacts
<1> QED
  BY <1>1, <1>2 DEF Added, Kept

\* A new object changes no other.
LEMMA BuildKept ==
  ASSUME NEW h, HeapOK(h), NEW md, NEW kind, NEW elems \in Seq(OBJ), NEW x \in Id, h[x] = FREE
  PROVE  Kept(h, build(h, md, kind, elems, x).heap)
<1>1. PICK h1, h2 : h1 = vec_add_ref(h, md, elems) /\ h2 = build(h, md, kind, elems, x).heap
  OBVIOUS
<1>2. h2 = [h1 EXCEPT ![x] = NewObject(md, kind, elems)]
  BY <1>1 DEF build
<1>3. Kept(h, h1) /\ h1 = [y \in Id |-> h1[y]]
  BY <1>1, AddKept DEF vec_add_ref
<1>4. \A y \in Live(h) : h2[y] = h1[y]
  BY <1>2, <1>3 DEF Live
<1>5. Kept(h, h2)
  BY <1>3, <1>4 DEF Kept
<1> QED
  BY <1>1, <1>5

\* What a new object stands for.
LEMMA BuildValue ==
  ASSUME NEW md \in {"normal", "try"}, NEW h, Evaluable(md, h), NEW kind, NEW elems, Elementary(md, h, kind, elems),
         NEW x \in Id, h[x] = FREE, NEW made, made = build(h, md, kind, elems, x), Ordered(made.heap)
  PROVE  value(made.heap, made.ref) = [kind |-> kind, elems |-> Meanings(h, elems)]
<1>1. PICK h2, r : h2 = made.heap /\ r = made.ref
  OBVIOUS
<1>2. Made(md, h, h2, r) /\ Grown(h, h2, x, elems)
  BY <1>1, BuildFacts
<1>3. Evaluable(md, h2) /\ Usable(h2, r) /\ HeapOK(h) /\ elems \in Seq(OBJ) /\ \A i \in DOMAIN elems : Usable(h, elems[i])
  BY <1>2 DEF Made, Evaluable, Elementary
<1>4. /\ r = make_ref(md, kind, x, elems)
      /\ h2 = [vec_add_ref(h, md, elems) EXCEPT ![x] = NewObject(md, kind, elems)]
  BY <1>1 DEF build
<1>5. r.obj = x /\ r.off = 0 /\ (kind = "seq" => r.len = Len(elems))
  BY <1>4 DEF make_ref, make_slice
<1>6. h2[x] = NewObject(md, kind, elems)
  BY <1>4 DEF vec_add_ref
<1>7. h2[x].kind = kind /\ h2[x].elems = elems
  BY <1>6 DEF NewObject
<1>8. r \notin Inline
  <2>1. r = [obj |-> x, mem |-> CurrMemory(md), off |-> 0, len |-> IF kind = "seq" THEN Len(elems) ELSE 0]
    BY <1>4 DEF make_ref, make_slice
  <2>2. CurrMemory(md) \in Memory /\ (IF kind = "seq" THEN Len(elems) ELSE 0) \in Nat
    BY <1>3, Kinship, LenProperties
  <2>3. r \in Ref
    BY <2>1, <2>2 DEF Ref
  <2> QED
    BY <2>3, Kinship
<1>9. Contents(h2, r) = elems
  <2>1. CASE kind = "seq"
    <3>1. is_seq(h2, r) /\ r # EMPTY_SEQ
      BY <1>5, <1>7, <1>8, <2>1 DEF is_seq, is_ne_seq, Inline
    <3>2. Contents(h2, r) = SubSeq(elems, 0 + 1, 0 + Len(elems))
      BY <1>5, <1>7, <2>1, <3>1 DEF Contents, SeqElems
    <3>3. SubSeq(elems, 0 + 1, 0 + Len(elems)) = elems
      BY <1>3, WholePart
    <3> QED
      BY <3>2, <3>3
  <2>2. CASE kind # "seq"
    <3>1. ~ is_seq(h2, r)
      BY <1>5, <1>7, <1>8, <2>2 DEF is_seq, is_ne_seq, Inline
    <3> QED
      BY <1>5, <1>7, <3>1 DEF Contents
  <2> QED
    BY <2>1, <2>2
<1>10. Ordered(h2)
  BY <1>1
<1>11. value(h2, r) = [kind |-> h2[r.obj].kind, elems |-> Meanings(h2, Contents(h2, r))]
  BY <1>3, <1>8, <1>10, EvaluableValue
<1>12. Kept(h, h2)
  BY <1>1, <1>3, BuildKept
<1>13. Meanings(h2, elems) = Meanings(h, elems)
  <2>1. \A i \in DOMAIN elems : value(h2, elems[i]) = value(h, elems[i])
    BY <1>3, <1>12, KeptValues
  <2> QED
    BY <2>1, SameMeanings
<1> QED
  BY <1>1, <1>5, <1>7, <1>9, <1>11, <1>13

\* An extension in place changes what no reference shows.
LEMMA ExtendKept ==
  ASSUME NEW md \in {"normal", "try"}, NEW h, Evaluable(md, h), NEW ref, NEW new, Extendable(md, h, ref, new),
         NEW h2, h2 = vec_add_ref([h EXCEPT ![ref.obj].elems = @ \o new], md, Append(new, ref))
  PROVE  Kept(h, h2)
<1>1. PICK y, longer : y = ref.obj /\ longer = make_slice(ref.obj, ref.mem, ref.off, ref.len + Len(new))
  OBVIOUS
<1>2. Grown(h, h2, y, new) /\ h2[y].kind = "seq"
  BY <1>1, ExtendFacts
<1>3. h[y].kind = "seq" /\ new \in Seq(OBJ) /\ HeapOK(h) /\ NoCopies(h)
  BY <1>1 DEF Extendable, Evaluable
<1>4. ASSUME NEW x \in Live(h), x # y
      PROVE  h2[x].kind = h[x].kind
  <2>1. PICK h1 : h1 = [h EXCEPT ![ref.obj].elems = @ \o new]
    OBVIOUS
  <2>2. x \in Id /\ h[x] # FREE
    BY <1>4 DEF Live
  <2>3. h1[x] = h[x]
    BY <1>1, <1>3, <1>4, <2>1, <2>2 DEF HeapOK
  <2>4. PICK n : h2[x] = [h[x] EXCEPT !.count = n]
    BY <2>1, <2>2, <2>3 DEF vec_add_ref
  <2>5. h[x] \in Object
    BY <1>3, <2>2 DEF HeapOK, ObjectOK
  <2> QED
    BY <2>4, <2>5 DEF Object
<1>5. ASSUME NEW x \in Live(h), x # y
      PROVE  h2[x].elems = h[x].elems /\ h2[x].copy = h[x].copy
  BY <1>2, <1>5 DEF Grown, Live
<1>6. y \in Live(h) => h2[y].elems = h[y].elems \o new /\ h2[y].copy = h[y].copy
  BY <1>2, <1>3 DEF Grown, NoCopies
<1> QED
  BY <1>2, <1>3, <1>4, <1>5, <1>6 DEF Kept

\* What a sequence is and a reference to it, when it is extended in place.
InPlace(md, h, ref, new, h2, longer) ==
  /\ h2 = vec_add_ref([h EXCEPT ![ref.obj].elems = @ \o new], md, Append(new, ref))
  /\ longer = make_slice(ref.obj, ref.mem, ref.off, ref.len + Len(new))
Joined(h, ref, new) == [kind |-> "seq", elems |-> Meanings(h, SeqElems(h, ref) \o new)]

\* The sequence that an extension in place returns.
LEMMA ExtendValue ==
  ASSUME NEW md \in {"normal", "try"}, NEW h, Evaluable(md, h), NEW ref, NEW new, Extendable(md, h, ref, new),
         NEW h2, NEW longer, InPlace(md, h, ref, new, h2, longer), Ordered(h2)
  PROVE  value(h2, longer) = Joined(h, ref, new)
<1> USE DEF InPlace
<1>1. Made(md, h, h2, longer) /\ Grown(h, h2, ref.obj, new) /\ h2[ref.obj].kind = "seq"
  BY ExtendFacts
<1>2. /\ ref \notin Inline /\ Usable(h, ref) /\ h[ref.obj].kind = "seq" /\ new \in Seq(OBJ)
      /\ (\A i \in DOMAIN new : Usable(h, new[i])) /\ can_be_extended(h, ref, Len(new))
  BY DEF Extendable
<1>3. PICK all, off, n, k : all = h[ref.obj].elems /\ off = ref.off /\ n = ref.len /\ k = Len(new)
  OBVIOUS
<1>4. ref \in Ref /\ is_seq(h, ref) /\ ref.obj \in Live(h) /\ HeapOK(h)
  BY <1>2, EvaluableFacts DEF Usable, is_seq, is_ne_seq, Evaluable
<1>5. all \in Seq(OBJ) /\ off \in Nat /\ n \in Nat /\ k \in Nat /\ off + n = Len(all)
  BY <1>2, <1>3, <1>4, HeapFacts, LenProperties DEF ElementsTyped, Live, Ref, can_be_extended
<1>6. longer.obj = ref.obj /\ longer.off = off /\ longer.len = n + k /\ longer \in Ref
  <2>1. longer = [obj |-> ref.obj, mem |-> ref.mem, off |-> off, len |-> n + k]
    BY <1>3 DEF make_slice
  <2>2. ref.obj \in Id /\ ref.mem \in Memory /\ n + k \in Nat
    BY <1>4, <1>5 DEF Ref
  <2> QED
    BY <1>5, <2>1, <2>2 DEF Ref
<1>7. longer \notin Inline /\ is_seq(h2, longer) /\ longer # EMPTY_SEQ /\ ref # EMPTY_SEQ
  BY <1>1, <1>2, <1>6, Kinship DEF is_seq, is_ne_seq, Inline
<1>8. Evaluable(md, h2) /\ Usable(h2, longer)
  BY <1>1 DEF Made
<1>9. value(h2, longer) = [kind |-> "seq", elems |-> Meanings(h2, SeqElems(h2, longer))]
  BY <1>7, <1>8, SequenceValue
<1>10. SeqElems(h2, longer) = SubSeq(all \o new, off + 1, off + (n + k))
  <2>1. h2[ref.obj].elems = all \o new
    BY <1>1, <1>3 DEF Grown
  <2>2. PICK e : e = all \o new
    OBVIOUS
  <2>3. SeqElems(h2, longer) = SubSeq(e, off + 1, off + (n + k))
    BY <1>6, <1>7, <2>1, <2>2 DEF SeqElems
  <2> QED
    BY <2>2, <2>3
<1>11. SeqElems(h, ref) = SubSeq(all, off + 1, off + n)
  BY <1>3, <1>7 DEF SeqElems
<1>12. SubSeq(all \o new, off + 1, off + (n + k)) = SubSeq(all, off + 1, off + n) \o new
  <2>1. all \in Seq(OBJ) /\ new \in Seq(OBJ) /\ off \in Nat /\ n \in Nat /\ off + n = Len(all) /\ k \in Nat /\ k = Len(new)
    BY <1>2, <1>3, <1>5
  <2>2. Lengthened(all, new, off, n, k)
    BY ONLY <2>1, LongerPart
  <2> QED
    BY <2>2 DEF Lengthened
<1>13. Kept(h, h2)
  BY ExtendKept
<1>14. PICK s : s = SeqElems(h, ref) \o new
  OBVIOUS
<1>15. \A i \in DOMAIN s : Usable(h, s[i])
  <2>1. SeqElems(h, ref) \in Seq(OBJ) /\ \A i \in DOMAIN SeqElems(h, ref) : Usable(h, SeqElems(h, ref)[i])
    BY <1>2, <1>4, ShownFacts
  <2> QED
    BY <1>2, <1>14, <2>1, ConcatOf
<1>16. Meanings(h2, s) = Meanings(h, s)
  <2>1. \A i \in DOMAIN s : value(h2, s[i]) = value(h, s[i])
    BY <1>13, <1>15, KeptValues
  <2> QED
    BY <2>1, SameMeanings
<1> QED
  BY <1>9, <1>10, <1>11, <1>12, <1>14, <1>16 DEF Joined

\* A release leaves the objects it does not free as they were, but for the count.
LEMMA ReleaseLeft ==
  ASSUME NEW h, HeapOK(h), NEW md, NEW ref \in OBJ
  PROVE  Left(h, release(h, md, ref))
<1>1. PICK h2 : h2 = release(h, md, ref)
  OBVIOUS
<1>2. PICK D : D = Dying(h, md, ref)
  OBVIOUS
<1>3. h2 = [x \in Id |-> IF x \in D \/ h[x] = FREE THEN FREE
                         ELSE [h[x] EXCEPT !.count = @ - Counted(md, <<ref>>, x) - CountedFrom(h, md, D, x)]]
  BY <1>1, <1>2 DEF release
<1>4. ASSUME NEW x \in Live(h2)
      PROVE  x \in Live(h) /\ h2[x].kind = h[x].kind /\ h2[x].elems = h[x].elems /\ h2[x].copy = h[x].copy
  <2>1. x \in Id /\ h2[x] # FREE
    BY <1>4 DEF Live
  <2>2. h[x] # FREE /\ h2[x] = [h[x] EXCEPT !.count = @ - Counted(md, <<ref>>, x) - CountedFrom(h, md, D, x)]
    BY <1>3, <2>1
  <2>3. h[x] \in Object
    BY <2>1, <2>2 DEF HeapOK, ObjectOK
  <2> QED
    BY <2>1, <2>2, <2>3 DEF Live, Object
<1>5. Left(h, h2)
  BY <1>4 DEF Left
<1> QED
  BY <1>1, <1>5
-----------------------------------------------------------------------------
(***************************************************************************)
(* The program computes with values.                                       *)
(***************************************************************************)
\* No object is taken for an atom, or for no value at all.
AtomsApart == \A x \in Atom \cup {NONE} : \A kind, elems : x # [kind |-> kind, elems |-> elems]

KindOf(h, r) == IF is_seq(h, r) THEN "seq" ELSE h[r.obj].kind

\* What a program can see of the value of a reference.
LEMMA SeenFacts ==
  ASSUME NEW md \in {"normal", "try"}, NEW h, Evaluable(md, h), Ordered(h), AtomsApart, NEW r, Usable(h, r),
         NEW x, x = value(h, r)
  PROVE  /\ r \in Atom => x = r
         /\ r \notin Atom => /\ x = [kind |-> KindOf(h, r), elems |-> Meanings(h, Contents(h, r))] /\ x \notin Atom
                             /\ x.kind = KindOf(h, r) /\ x.elems = Meanings(h, Contents(h, r))
                             /\ Contents(h, r) \in Seq(OBJ) /\ \A i \in DOMAIN Contents(h, r) : Usable(h, Contents(h, r)[i])
         /\ x # NONE
         /\ is_seq(h, r) <=> x \notin Atom \cup {NONE} /\ x.kind = "seq"
<1>1. CASE r \in Atom
  <2>1. r \in Inline /\ r # EMPTY_SEQ /\ r # NONE
    BY <1>1, InlineAssumption, Kinship DEF Inline
  <2>2. x = Flat(r)
    BY <2>1, EvaluableValue
  <2>3. x = r /\ ~ is_seq(h, r)
    BY <1>1, <2>1, <2>2 DEF Flat, is_seq, is_ne_seq
  <2> QED
    BY <1>1, <2>1, <2>3
<1>2. CASE r \notin Atom
  <2>1. PICK c, k : c = Contents(h, r) /\ k = KindOf(h, r)
    OBVIOUS
  <2>2. /\ x = [kind |-> k, elems |-> Meanings(h, c)]
        /\ c \in Seq(OBJ) /\ \A i \in DOMAIN c : Usable(h, c[i])
    <3>1. CASE is_seq(h, r)
      <4>1. c = SeqElems(h, r) /\ k = "seq"
        BY <2>1, <3>1 DEF Contents, KindOf
      <4> QED
        BY <3>1, <4>1, SequenceValue
    <3>2. CASE ~ is_seq(h, r)
      <4>1. r \notin Inline /\ k = h[r.obj].kind
        BY <1>2, <2>1, <3>2 DEF KindOf, Inline, is_seq
      <4> QED
        BY <2>1, <4>1, EvaluableValue
    <3> QED
      BY <3>1, <3>2
  <2>3. x \notin Atom /\ x # NONE
    BY <2>2 DEF AtomsApart
  <2>4. is_seq(h, r) <=> k = "seq"
    BY <1>2, <2>1 DEF KindOf, is_seq, is_ne_seq, Inline
  <2> QED
    BY <1>2, <2>1, <2>2, <2>3, <2>4
<1> QED
  BY <1>1, <1>2

\* The values that the variables hold.
Val(h, va) == [own \in Var |-> IF va[own] = NONE THEN NONE ELSE value(h, va[own])]

\* A state in which a program evaluates.
Computing ==
  /\ mode \in {"normal", "try"} /\ IInv /\ Ordered(heap) /\ AtomsApart

\* There it holds references that it can use, and sees their values.
LEMMA ComputingFacts ==
  ASSUME Computing
  PROVE  /\ Sane(mode, heap, var) /\ Evaluable(mode, heap) /\ Typed(var) /\ HeapOK(heap)
         /\ \A own \in Var : /\ var[own] = NONE => Val(heap, var)[own] = NONE
                             /\ var[own] # NONE => /\ Usable(heap, var[own])
                                                   /\ Val(heap, var)[own] = value(heap, var[own])
                                                   /\ Val(heap, var)[own] # NONE
<1>1. Sane(mode, heap, var)
  BY SaneState DEF Computing, IInv
<1>2. Evaluable(mode, heap) /\ Typed(var) /\ UsableIn(heap, var, Var) /\ HeapOK(heap)
  BY <1>1 DEF Sane, Evaluable
<1>3. ASSUME NEW own \in Var, var[own] # NONE
      PROVE  /\ Usable(heap, var[own])
             /\ Val(heap, var)[own] = value(heap, var[own])
             /\ Val(heap, var)[own] # NONE
  <2>1. PICK r, x : r = var[own] /\ x = value(heap, r)
    OBVIOUS
  <2>2. Usable(heap, r)
    BY <1>2, <1>3, <2>1 DEF UsableIn
  <2>3. x # NONE
    BY <1>2, <2>1, <2>2, SeenFacts DEF Computing
  <2> QED
    BY <1>3, <2>1, <2>2, <2>3 DEF Val
<1>4. \A own \in Var : var[own] = NONE => Val(heap, var)[own] = NONE
  BY DEF Val
<1> QED
  BY <1>1, <1>2, <1>3, <1>4

\* What is made of values, whatever is made with it, is the value of a variable.
LEMMA ResultStep ==
  ASSUME Computing, NEW own \in Loc, NEW made, Assign(own, made), Kept(heap, made.heap), made.ref # NONE,
         NEW result, result = value(made.heap, made.ref), result # NONE, V!Yields(result)
  PROVE  V!Next
<1>1. PICK a, b, h2, vb : a = Val(heap, var) /\ b = Val(heap', var') /\ h2 = heap' /\ vb = var'
  OBVIOUS
<1>2. var[own] = NONE /\ h2 = made.heap /\ vb = [var EXCEPT ![own] = made.ref] /\ mode' = mode /\ own \in Var
  BY <1>1 DEF Assign, Var
<1>3. /\ Evaluable(mode, heap) /\ Typed(var) /\ mode \in {"normal", "try"}
      /\ \A other \in Var : var[other] # NONE => Usable(heap, var[other])
  BY ComputingFacts DEF Computing
<1>4. vb[own] = made.ref /\ \A other \in Var : other # own => vb[other] = var[other]
  BY <1>2, <1>3 DEF Typed
<1>5. b[own] = result /\ a[own] = NONE
  BY <1>1, <1>2, <1>4 DEF Val
<1>6. ASSUME NEW other \in Var, other # own
      PROVE  b[other] = a[other]
  <2>1. CASE var[other] = NONE
    BY <1>1, <1>4, <1>6, <2>1 DEF Val
  <2>2. CASE var[other] # NONE
    <3>1. value(h2, var[other]) = value(heap, var[other])
      BY <1>2, <1>3, <2>2, KeptValues
    <3> QED
      BY <1>1, <1>4, <1>6, <2>2, <3>1 DEF Val
  <2> QED
    BY <2>1, <2>2
<1>7. b = [a EXCEPT ![own] = result]
  <2>1. a = [other \in Var |-> a[other]] /\ b = [other \in Var |-> b[other]]
    BY <1>1 DEF Val
  <2> QED
    BY <1>2, <1>5, <1>6, <2>1
<1>8. V!Evaluate(own)
  BY <1>1, <1>2, <1>3, <1>5, <1>7 DEF V!Evaluate, V!Evaluating, Val
<1> QED
  BY <1>8 DEF V!Next

\* An object is made of elements.
LEMMA MakeStep ==
  ASSUME Computing, Ordered(heap'), NEW own \in Loc, NEW kind, NEW elems, NEW x \in Id, heap[x] = FREE,
         Elementary(mode, heap, kind, elems), Assign(own, build(heap, mode, kind, elems, x)),
         NEW result, result = [kind |-> kind, elems |-> Meanings(heap, elems)], V!Yields(result)
  PROVE  V!Next
<1>1. PICK made : made = build(heap, mode, kind, elems, x)
  OBVIOUS
<1>2. Assign(own, made) /\ heap' = made.heap /\ mode \in {"normal", "try"} /\ Evaluable(mode, heap) /\ HeapOK(heap)
  BY <1>1, ComputingFacts DEF Assign, Computing
<1>3. elems \in Seq(OBJ)
  BY DEF Elementary
<1>4. Kept(heap, made.heap)
  BY <1>1, <1>2, <1>3, BuildKept
<1>5. Ordered(made.heap)
  BY <1>2
<1>6. value(made.heap, made.ref) = result
  BY <1>1, <1>2, <1>5, BuildValue
<1>7. made.ref # NONE
  <2>1. Made(mode, heap, made.heap, made.ref)
    BY <1>1, <1>2, BuildFacts
  <2>2. made.ref \in OBJ
    BY <2>1 DEF Made, Usable, OBJ
  <2> QED
    BY <2>2, Kinship
<1>8. result # NONE
  BY DEF Computing, AtomsApart
<1> QED
  BY <1>2, <1>4, <1>6, <1>7, <1>8, ResultStep

\* A reference that can be used already is returned.
LEMMA ShareStep ==
  ASSUME Computing, NEW own \in Loc, NEW ref, Usable(heap, ref), NEW made, Assign(own, made), made.ref = ref,
         made.heap = heap \/ \E refs \in Seq(OBJ) : made.heap = vec_add_ref(heap, mode, refs),
         NEW result, result = value(heap, ref), V!Yields(result)
  PROVE  V!Next
<1>1. PICK h2 : h2 = made.heap
  OBVIOUS
<1>2. mode \in {"normal", "try"} /\ Evaluable(mode, heap) /\ HeapOK(heap) /\ Ordered(heap) /\ AtomsApart
  BY ComputingFacts DEF Computing
<1>3. Kept(heap, h2)
  <2>1. CASE h2 = heap
    BY <2>1 DEF Kept
  <2>2. CASE h2 # heap
    <3>1. PICK refs \in Seq(OBJ) : h2 = vec_add_ref(heap, mode, refs)
      BY <1>1, <2>2
    <3> QED
      BY <1>2, <3>1, AddKept
  <2> QED
    BY <2>1, <2>2
<1>4. value(h2, ref) = result
  BY <1>2, <1>3, KeptValues
<1>5. result # NONE
  BY <1>2, SeenFacts
<1>6. ref # NONE
  <2>1. ref \in OBJ
    BY DEF Usable, OBJ
  <2> QED
    BY <2>1, Kinship
<1> QED
  BY <1>1, <1>3, <1>4, <1>5, <1>6, ResultStep

\* The values of the operands are the operands of the values.
LEMMA OperandValues ==
  ASSUME Computing, NEW args \in Args, Known(args)
  PROVE  /\ V!Known(args) /\ V!Operands(args) = Meanings(heap, Operands(args)) /\ args \in V!Args
         /\ Operands(args) \in Seq(OBJ) /\ Len(Operands(args)) \in 1 .. 2 /\ DOMAIN Operands(args) = DOMAIN args
         /\ \A i \in DOMAIN Operands(args) : Usable(heap, Operands(args)[i])
<1>1. mode \in {"normal", "try"} /\ Evaluable(mode, heap) /\ Ordered(heap) /\ AtomsApart /\ Sane(mode, heap, var)
  BY ComputingFacts DEF Computing
<1>2. PICK s, a : s = Operands(args) /\ a = Val(heap, var)
  OBVIOUS
<1>3. /\ s \in Seq(OBJ) /\ Len(s) \in 1 .. 2
      /\ \A i \in DOMAIN s : Usable(heap, s[i])
  BY <1>1, <1>2, OperandFacts
<1>4. DOMAIN s = DOMAIN args
  BY <1>2 DEF Operands
<1>5. ASSUME NEW i \in DOMAIN args
      PROVE  /\ args[i] \in Atom => s[i] = args[i] /\ value(heap, s[i]) = args[i]
             /\ args[i] \notin Atom => args[i] \in Loc /\ a[args[i]] = value(heap, s[i]) /\ a[args[i]] # NONE
  <2>1. args[i] \in Operand
    BY DEF Args
  <2>2. CASE args[i] \in Atom
    <3>1. args[i] \notin Loc
      BY <2>2, ProgramAssumption
    <3>2. s[i] = args[i]
      BY <1>2, <3>1 DEF Operands
    <3>3. Usable(heap, s[i])
      BY <1>3, <1>4
    <3> QED
      BY <1>1, <2>2, <3>2, <3>3, SeenFacts
  <2>3. CASE args[i] \notin Atom
    <3>1. args[i] \in Loc /\ args[i] \in Var
      BY <2>1, <2>3 DEF Operand, Var
    <3>2. s[i] = var[args[i]] /\ var[args[i]] # NONE
      BY <1>2, <3>1 DEF Operands, Known
    <3> QED
      BY <1>2, <2>3, <3>1, <3>2, ComputingFacts
  <2> QED
    BY <2>2, <2>3
<1>6. V!Known(args)
  BY <1>2, <1>5 DEF V!Known, Val
<1>7. V!Operands(args) = Meanings(heap, s)
  BY <1>2, <1>4, <1>5 DEF V!Operands, Val, Meanings
<1>8. args \in V!Args
  BY DEF V!Args, V!Operand, Args, Operand
<1> QED
  BY <1>2, <1>3, <1>4, <1>6, <1>7, <1>8

\* Two operands or one, of any kind, make an object.
LEMMA BuildStep ==
  ASSUME Computing, Ordered(heap'), NEW own \in Loc, NEW kind \in BuiltKinds, NEW args \in Args, Build(own, kind, args)
  PROVE  V!Next
<1>1. Known(args) /\ mode \in {"normal", "try"}
  BY DEF Build, Computing
<1>2. PICK s : s = Operands(args)
  OBVIOUS
<1>3. /\ V!Known(args) /\ V!Operands(args) = Meanings(heap, s) /\ args \in V!Args
      /\ s \in Seq(OBJ) /\ Len(s) \in 1 .. 2
      /\ \A i \in DOMAIN s : Usable(heap, s[i])
  BY <1>1, <1>2, OperandValues
<1>4. kind \in Kinds
  BY ProgramAssumption
<1>5. Elementary(mode, heap, kind, s)
  <2>1. PICK n : n = Len(s)
    OBVIOUS
  <2>2. n \in 1 .. 2 /\ Largest \in Nat /\ MAX_LENGTH \in Nat /\ 2 <= MAX_LENGTH /\ MAX_LENGTH <= Largest
    BY <1>3, <2>1, LargestFacts
  <2>3. n <= MAX_LENGTH /\ n \in 1 .. Largest
    BY <2>2
  <2> QED
    BY <1>3, <1>4, <2>1, <2>3 DEF Elementary
<1>6. PICK x \in Free : Assign(own, build(heap, mode, kind, s, x))
  BY <1>2 DEF Build
<1>7. x \in Id /\ heap[x] = FREE
  BY <1>6 DEF Free, Live
<1>8. PICK result : result = [kind |-> kind, elems |-> Meanings(heap, s)]
  OBVIOUS
<1>9. V!Build(args, result)
  BY <1>3, <1>4, <1>8 DEF V!Build, Kinds
<1>10. V!Yields(result)
  <2>1. result \notin Atom
    BY <1>8 DEF Computing, AtomsApart
  <2> QED
    BY <1>3, <1>9, <2>1 DEF V!Yields
<1> QED
  BY <1>5, <1>6, <1>7, <1>8, <1>10, MakeStep

PartOf(all, off, n, first, len, at) ==
  SubSeq(SubSeq(all, off + 1, off + n), first + 1, first + len) = SubSeq(all, at + 1, at + len)

\* A part of a part is a part.
LEMMA PartOfPart ==
  ASSUME NEW all \in Seq(OBJ), NEW off \in Nat, NEW n \in Nat, off + n <= Len(all),
         NEW first \in Nat, NEW len \in Nat, first + len <= n, NEW at, at = off + first
  PROVE  PartOf(all, off, n, first, len, at)
<1>1. PICK b, c, d : /\ b = SubSeq(all, off + 1, off + n) /\ c = SubSeq(b, first + 1, first + len)
                     /\ d = SubSeq(all, at + 1, at + len)
  OBVIOUS
<1>2. b \in Seq(OBJ) /\ Len(b) = n /\ \A i \in 1 .. n : b[i] = all[off + i]
  BY ONLY <1>1, all \in Seq(OBJ), off \in Nat, n \in Nat, off + n <= Len(all), PartFacts
<1>3. first + len <= Len(b)
  BY <1>2
<1>4. c \in Seq(OBJ) /\ DOMAIN c = 1 .. len /\ \A i \in 1 .. len : c[i] = b[first + i]
  BY ONLY <1>1, <1>2, <1>3, first \in Nat, len \in Nat, PartFacts
<1>5. at \in Nat /\ at + len <= Len(all)
  <2>1. Len(all) \in Nat
    BY LenProperties
  <2> QED
    BY <2>1
<1>6. d \in Seq(OBJ) /\ DOMAIN d = 1 .. len /\ \A i \in 1 .. len : d[i] = all[at + i]
  BY ONLY <1>1, <1>5, all \in Seq(OBJ), len \in Nat, PartFacts
<1>7. ASSUME NEW i \in 1 .. len
      PROVE  c[i] = d[i]
  <2>1. first + i \in 1 .. n /\ off + (first + i) = at + i
    OBVIOUS
  <2> QED
    BY <1>2, <1>4, <1>6, <2>1
<1>8. c = [i \in 1 .. len |-> c[i]] /\ d = [i \in 1 .. len |-> d[i]]
  BY <1>4, <1>6, SeqDef
<1>9. c = d
  BY <1>7, <1>8
<1> QED
  BY <1>1, <1>9 DEF PartOf

\* A reference to a part of what a reference shows shows that part.
LEMMA SliceShows ==
  ASSUME NEW md \in {"normal", "try"}, NEW h, Evaluable(md, h), NEW ref, Usable(h, ref), is_seq(h, ref),
         NEW first \in Nat, NEW len \in Nat, first + len <= get_seq_length(ref),
         NEW part, part = get_seq_slice(h, md, ref, first, len).ref
  PROVE  /\ Usable(h, part) /\ is_seq(h, part)
         /\ SeqElems(h, part) = SubSeq(SeqElems(h, ref), first + 1, first + len)
<1>1. PICK s, t : s = SeqElems(h, ref) /\ t = SubSeq(s, first + 1, first + len)
  OBVIOUS
<1>2. /\ s \in Seq(OBJ) /\ Len(s) = get_seq_length(ref) /\ get_seq_length(ref) \in 0 .. MAX_LENGTH
      /\ ref # EMPTY_SEQ => ref \notin Inline /\ h[ref.obj].kind = "seq" /\ ref.len = get_seq_length(ref)
  BY <1>1, ShownFacts
<1>3. CASE len = 0
  <2>1. part = EMPTY_SEQ
    BY <1>3 DEF get_seq_slice
  <2>2. Usable(h, part) /\ is_seq(h, part) /\ SeqElems(h, part) = <<>>
    BY <2>1 DEF Usable, is_seq, SeqElems, Inline
  <2>3. t \in Seq(OBJ) /\ Len(t) = len
    <3>1. first + len <= Len(s)
      BY <1>2
    <3> QED
      BY ONLY <1>1, <1>2, <3>1, first \in Nat, len \in Nat, PartFacts
  <2>4. t = <<>>
    BY <1>3, <2>3, EmptySeq
  <2> QED
    BY <1>1, <2>2, <2>4
<1>4. CASE len # 0
  <2>1. ref # EMPTY_SEQ
    BY <1>4 DEF get_seq_length
  <2>2. PICK all, off, n, at, o, m : all = h[ref.obj].elems /\ off = ref.off /\ n = ref.len /\ at = off + first
                                     /\ o = ref.obj /\ m = ref.mem
    OBVIOUS
  <2>3. /\ ref \in Ref /\ ref.obj \in Live(h) /\ Home(h, ref.obj) = ref.obj /\ n = get_seq_length(ref)
        /\ HeapOK(h) /\ h[o] # FREE /\ m = h[o].mem
    BY <1>2, <2>1, <2>2, EvaluableFacts DEF Usable, Evaluable
  <2>4. all \in Seq(OBJ) /\ off \in Nat /\ n \in Nat /\ off + n <= Len(all) /\ o \in Id /\ m \in Memory /\ n <= MAX_LENGTH
    BY <1>2, <2>1, <2>2, <2>3, HeapFacts DEF ElementsTyped, Live, Ref, Usable
  <2>5. part = [obj |-> o, mem |-> m, off |-> at, len |-> len]
    BY <1>4, <2>2 DEF get_seq_slice, make_slice
  <2>6. at \in Nat /\ first + len <= n
    BY <2>2, <2>3, <2>4
  <2>7. part \in Ref /\ part \notin Inline
    <3>1. part \in Ref
      BY <2>4, <2>5, <2>6 DEF Ref
    <3> QED
      BY <3>1, Kinship
  <2>8. part.obj = o /\ part.mem = m /\ part.off = at /\ part.len = len
    BY <2>5
  <2>9. is_seq(h, part) /\ part # EMPTY_SEQ
    BY <1>2, <2>1, <2>2, <2>7, <2>8 DEF is_seq, is_ne_seq, Inline
  <2>10. at + len <= Len(all) /\ len <= MAX_LENGTH /\ MAX_LENGTH \in Nat
    <3>1. Len(all) \in Nat /\ MAX_LENGTH \in Nat
      BY <2>4, LenProperties, LargestFacts
    <3> QED
      BY <2>2, <2>4, <2>6, <3>1
  <2>11. Usable(h, part)
    <3>1. Home(h, part.obj) = o
      BY <2>2, <2>3, <2>8
    <3> QED
      BY <2>2, <2>3, <2>7, <2>8, <2>10, <3>1 DEF Usable
  <2>12. SeqElems(h, part) = SubSeq(all, at + 1, at + len)
    BY <2>2, <2>8, <2>9 DEF SeqElems
  <2>13. s = SubSeq(all, off + 1, off + n)
    BY <1>1, <2>1, <2>2 DEF SeqElems
  <2>14. SubSeq(SubSeq(all, off + 1, off + n), first + 1, first + len) = SubSeq(all, at + 1, at + len)
    <3>1. at = off + first
      BY <2>2
    <3>2. PartOf(all, off, n, first, len, at)
      BY ONLY <2>4, <2>6, <3>1, first \in Nat, len \in Nat, PartOfPart
    <3> QED
      BY <3>2 DEF PartOf
  <2> QED
    BY <1>1, <2>9, <2>11, <2>12, <2>13, <2>14
<1> QED
  BY <1>3, <1>4

\* What a variable has that holds a sequence.
LEMMA HeldSequence ==
  ASSUME Computing, NEW other \in Var, HoldsSequence(other), NEW a, a = Val(heap, var),
         NEW s, s = SeqElems(heap, var[other])
  PROVE  /\ Usable(heap, var[other]) /\ is_seq(heap, var[other]) /\ var[other] # NONE
         /\ a[other] = [kind |-> "seq", elems |-> Meanings(heap, s)]
         /\ V!IsSeq(a[other]) /\ a[other].elems = Meanings(heap, s) /\ a[other] = value(heap, var[other])
         /\ s \in Seq(OBJ) /\ Len(s) = get_seq_length(var[other])
         /\ Len(s) \in 0 .. MAX_LENGTH /\ DOMAIN s = 1 .. Len(s)
         /\ Meanings(heap, s) \in Seq(AllValues(heap)) /\ Len(Meanings(heap, s)) = Len(s) /\ DOMAIN Meanings(heap, s) = DOMAIN s
         /\ \A i \in DOMAIN s : Usable(heap, s[i])
<1>1. PICK r : r = var[other]
  OBVIOUS
<1>2. r # NONE /\ is_seq(heap, r) /\ mode \in {"normal", "try"}
  BY <1>1 DEF HoldsSequence, Computing
<1>3. Usable(heap, r) /\ a[other] = value(heap, r) /\ Evaluable(mode, heap) /\ Ordered(heap)
  BY <1>1, <1>2, ComputingFacts DEF Computing
<1>4. value(heap, r) = [kind |-> "seq", elems |-> Meanings(heap, s)]
  BY <1>1, <1>2, <1>3, SequenceValue
<1>5. /\ s \in Seq(OBJ) /\ Len(s) = get_seq_length(r) /\ Len(s) \in 0 .. MAX_LENGTH
      /\ DOMAIN s = 1 .. Len(s) /\ \A i \in DOMAIN s : Usable(heap, s[i])
  BY <1>1, <1>2, <1>3, ShownFacts
<1>6. a[other] \notin Atom \cup {NONE}
  BY <1>3, <1>4 DEF Computing, AtomsApart
<1>7. V!IsSeq(a[other])
  BY <1>3, <1>4, <1>6 DEF V!IsSeq
<1>8. Meanings(heap, s) \in Seq(AllValues(heap)) /\ Len(Meanings(heap, s)) = Len(s) /\ DOMAIN Meanings(heap, s) = DOMAIN s
  BY <1>5, MeaningFacts
<1> QED
  BY <1>1, <1>2, <1>3, <1>4, <1>5, <1>7, <1>8

\* A part of a sequence.
LEMMA SliceStep ==
  ASSUME Computing, NEW own \in Loc, NEW other \in Var,
         NEW first \in 0 .. MAX_LENGTH, NEW len \in 0 .. MAX_LENGTH, Slice(own, other, first, len)
  PROVE  V!Next
<1>1. PICK ref, made, a, s : ref = var[other] /\ made = get_seq_slice(heap, mode, ref, first, len)
                             /\ a = Val(heap, var) /\ s = SeqElems(heap, ref)
  OBVIOUS
<1>2. /\ Usable(heap, ref) /\ is_seq(heap, ref) /\ s \in Seq(OBJ) /\ Len(s) = get_seq_length(ref)
      /\ V!IsSeq(a[other]) /\ a[other].elems = Meanings(heap, s) /\ Len(Meanings(heap, s)) = Len(s)
  BY <1>1, HeldSequence DEF Slice
<1>3. first + len <= get_seq_length(ref) /\ Assign(own, made) /\ first \in Nat /\ len \in Nat
  BY <1>1, LargestFacts DEF Slice
<1>4. mode \in {"normal", "try"} /\ Evaluable(mode, heap) /\ Ordered(heap)
  BY ComputingFacts DEF Computing
<1>5. PICK part, t : part = made.ref /\ t = SubSeq(s, first + 1, first + len)
  OBVIOUS
<1>6. Usable(heap, part) /\ is_seq(heap, part) /\ SeqElems(heap, part) = t
  <2>1. part = get_seq_slice(heap, mode, ref, first, len).ref
    BY <1>1, <1>5
  <2>2. Usable(heap, part) /\ is_seq(heap, part)
        /\ SeqElems(heap, part) = SubSeq(SeqElems(heap, ref), first + 1, first + len)
    BY ONLY <1>2, <1>3, <1>4, <2>1, SliceShows
  <2> QED
    BY <1>1, <1>5, <2>2
<1>7. value(heap, part) = [kind |-> "seq", elems |-> Meanings(heap, t)]
  BY <1>4, <1>6, SequenceValue
<1>8. Meanings(heap, t) = SubSeq(Meanings(heap, s), first + 1, first + len)
  BY <1>2, <1>3, <1>5, PartMeanings
<1>9. PICK result : result = value(heap, part)
  OBVIOUS
<1>10. V!Slice(other, first, len, result)
  BY <1>1, <1>2, <1>3, <1>7, <1>8, <1>9 DEF V!Slice, V!SeqOf, Val
<1>11. V!Yields(result)
  BY <1>10 DEF V!Yields, V!Var, Var
<1>12. made.heap = heap \/ \E refs \in Seq(OBJ) : made.heap = vec_add_ref(heap, mode, refs)
  <2>1. <<ref>> \in Seq(OBJ)
    BY <1>2, <1>4, EvaluableFacts
  <2>2. made.heap = heap \/ made.heap = vec_add_ref(heap, mode, <<ref>>)
    BY <1>1 DEF get_seq_slice, add_ref
  <2> QED
    BY <2>1, <2>2
<1> QED
  BY <1>3, <1>5, <1>6, <1>9, <1>11, <1>12, ShareStep

\* A sequence is extended, in its block or in another.
LEMMA ExtendedValue ==
  ASSUME Computing, ~ TRY_EXTENDS_STD, NEW ref, NEW new, NEW x, Lengthens(ref, new, x),
         NEW made, made = extend_sequence(heap, mode, ref, new, x), Ordered(made.heap)
  PROVE  /\ Kept(heap, made.heap) /\ Evaluable(mode, made.heap) /\ made.ref # NONE
         /\ value(made.heap, made.ref) = [kind |-> "seq", elems |-> Meanings(heap, SeqElems(heap, ref) \o new)]
<1>1. mode \in {"normal", "try"} /\ Evaluable(mode, heap) /\ HeapOK(heap)
  BY ComputingFacts DEF Computing
<1>2. Evaluable(mode, made.heap) /\ made.ref # NONE
  <2>1. Made(mode, heap, made.heap, made.ref)
    BY <1>1, ExtendMade
  <2>2. made.ref \in OBJ /\ Evaluable(mode, made.heap)
    BY <2>1 DEF Made, Usable, OBJ
  <2> QED
    BY <2>2, Kinship
<1>3. CASE can_be_extended(heap, ref, Len(new))
  <2>1. Extendable(mode, heap, ref, new)
    BY <1>3, LongerInPlace
  <2>2. PICK h2, longer : h2 = made.heap /\ longer = made.ref
    OBVIOUS
  <2>3. /\ longer = make_slice(ref.obj, ref.mem, ref.off, ref.len + Len(new))
        /\ h2 = vec_add_ref([heap EXCEPT ![ref.obj].elems = @ \o new], mode, Append(new, ref))
    BY <1>3, <2>2 DEF extend_sequence
  <2>4. Kept(heap, h2)
    BY ONLY <1>1, <2>1, <2>3, ExtendKept
  <2>5. value(h2, longer) = Joined(heap, ref, new)
    <3>1. InPlace(mode, heap, ref, new, h2, longer)
      BY <2>3 DEF InPlace
    <3>2. Ordered(h2)
      BY <2>2
    <3> QED
      BY <1>1, <2>1, <3>1, <3>2, ExtendValue
  <2> QED
    BY <1>2, <2>2, <2>4, <2>5 DEF Joined
<1>4. CASE ~ can_be_extended(heap, ref, Len(new))
  <2>1. PICK elems : elems = SeqElems(heap, ref) \o new
    OBVIOUS
  <2>2. /\ Elementary(mode, heap, "seq", elems) /\ x \in Id /\ heap[x] = FREE
        /\ made = build(heap, mode, "seq", elems, x)
    BY <1>1, <1>4, <2>1, JoinedElementary
  <2>3. elems \in Seq(OBJ)
    BY <2>2 DEF Elementary
  <2>4. Kept(heap, made.heap)
    BY <1>1, <2>2, <2>3, BuildKept
  <2>5. value(made.heap, made.ref) = [kind |-> "seq", elems |-> Meanings(heap, elems)]
    BY <1>1, <2>2, BuildValue
  <2> QED
    BY <1>2, <2>1, <2>4, <2>5
<1> QED
  BY <1>3, <1>4

\* The result of an extension.
LEMMA ExtendStep ==
  ASSUME Computing, Ordered(heap'), ~ TRY_EXTENDS_STD, NEW own \in Loc, NEW ref, NEW new, NEW x, Lengthens(ref, new, x),
         NEW made, made = extend_sequence(heap, mode, ref, new, x), Assign(own, made),
         NEW result, result = [kind |-> "seq", elems |-> Meanings(heap, SeqElems(heap, ref) \o new)], V!Yields(result)
  PROVE  V!Next
<1>1. Ordered(made.heap)
  BY DEF Assign
<1>2. Kept(heap, made.heap) /\ made.ref # NONE /\ value(made.heap, made.ref) = result
  BY <1>1, ExtendedValue
<1>3. result # NONE
  BY DEF Computing, AtomsApart
<1> QED
  BY <1>2, <1>3, ResultStep

\* A variable gets the value of another.
LEMMA SameStep ==
  ASSUME Computing, NEW own \in Loc, NEW other \in Var, var[other] # NONE,
         Assign(own, [heap |-> add_ref(heap, mode, var[other]), ref |-> var[other]])
  PROVE  V!Next
<1>1. PICK ref, made, result, a : /\ ref = var[other] /\ result = value(heap, ref) /\ a = Val(heap, var)
                                  /\ made = [heap |-> add_ref(heap, mode, ref), ref |-> ref]
  OBVIOUS
<1>2. Usable(heap, ref) /\ a[other] = result /\ result # NONE
  BY <1>1, ComputingFacts
<1>3. ref \in OBJ
  BY <1>2 DEF Usable, OBJ
<1>4. <<ref>> \in Seq(OBJ) /\ made.heap = vec_add_ref(heap, mode, <<ref>>) /\ made.ref = ref /\ Assign(own, made)
  BY <1>1, <1>3 DEF add_ref
<1>5. V!Alias(other, result)
  BY <1>1, <1>2 DEF V!Alias, Val
<1>6. V!Yields(result)
  BY <1>5 DEF V!Yields, V!Var, Var
<1> QED
  BY <1>1, <1>2, <1>4, <1>6, ShareStep

\* Two sequences, one after the other.
LEMMA ConcatStep ==
  ASSUME Computing, Ordered(heap'), ~ TRY_EXTENDS_STD,
         NEW own \in Loc, NEW left \in Var, NEW right \in Var, Concat(own, left, right)
  PROVE  V!Next
<1>1. HoldsSequence(left) /\ HoldsSequence(right)
  BY DEF Concat
<1>2. PICK ref, new, a, s : ref = var[left] /\ new = SeqElems(heap, var[right]) /\ a = Val(heap, var) /\ s = SeqElems(heap, ref)
  OBVIOUS
<1>3. /\ Usable(heap, ref) /\ is_seq(heap, ref) /\ ref # NONE
      /\ V!IsSeq(a[left]) /\ a[left].elems = Meanings(heap, s) /\ s \in Seq(OBJ)
  BY <1>1, <1>2, HeldSequence
<1>4. /\ V!IsSeq(a[right]) /\ a[right].elems = Meanings(heap, new) /\ var[right] # NONE
      /\ new \in Seq(OBJ) /\ Len(new) = get_seq_length(var[right])
      /\ \A i \in DOMAIN new : Usable(heap, new[i])
  BY <1>1, <1>2, HeldSequence
<1>5. CASE var[right] = EMPTY_SEQ
  <2>1. Assign(own, [heap |-> add_ref(heap, mode, var[left]), ref |-> var[left]])
    BY <1>5 DEF Concat
  <2> QED
    BY <1>2, <1>3, <2>1, SameStep
<1>6. CASE var[right] # EMPTY_SEQ /\ var[left] = EMPTY_SEQ
  <2>1. Assign(own, [heap |-> add_ref(heap, mode, var[right]), ref |-> var[right]])
    BY <1>6 DEF Concat
  <2> QED
    BY <1>4, <2>1, SameStep
<1>7. CASE var[right] # EMPTY_SEQ /\ var[left] # EMPTY_SEQ
  <2>1. /\ Extends(ref, new)
        /\ \E x \in BlockFor(ref, Len(new)) : Assign(own, extend_sequence(heap, mode, ref, new, x))
    BY <1>2, <1>4, <1>7 DEF Concat
  <2>2. PICK x \in BlockFor(ref, Len(new)) : Assign(own, extend_sequence(heap, mode, ref, new, x))
    BY <2>1
  <2>3. is_ne_seq(heap, ref)
    BY <1>2, <1>3, <1>7 DEF is_seq
  <2>4. Lengthens(ref, new, x)
    BY <1>3, <1>4, <2>1, <2>2, <2>3 DEF Lengthens
  <2>5. PICK result, made : /\ result = [kind |-> "seq", elems |-> Meanings(heap, SeqElems(heap, ref) \o new)]
                            /\ made = extend_sequence(heap, mode, ref, new, x)
    OBVIOUS
  <2>6. Meanings(heap, s \o new) = Meanings(heap, s) \o Meanings(heap, new)
    BY <1>3, <1>4, ConcatMeanings
  <2>7. V!Concat(left, right, result)
    BY <1>2, <1>3, <1>4, <2>5, <2>6 DEF V!Concat, V!SeqOf, Val
  <2>8. V!Yields(result)
    BY <2>7 DEF V!Yields, V!Var, Var
  <2> QED
    BY <2>2, <2>4, <2>5, <2>8, ExtendStep
<1> QED
  BY <1>5, <1>6, <1>7

\* The values of a sequence where one element is another.
LEMMA OtherMeanings ==
  ASSUME NEW h, NEW s \in Seq(OBJ), NEW i \in DOMAIN s, NEW e
  PROVE  Meanings(h, [s EXCEPT ![i] = e]) = [Meanings(h, s) EXCEPT ![i] = value(h, e)]
<1>1. s = [j \in DOMAIN s |-> s[j]]
  BY SeqDef
<1>2. PICK t, a, b : t = [s EXCEPT ![i] = e] /\ a = Meanings(h, t) /\ b = Meanings(h, s)
  OBVIOUS
<1>3. DOMAIN t = DOMAIN s /\ \A j \in DOMAIN s : t[j] = IF j = i THEN e ELSE s[j]
  BY <1>1, <1>2
<1>4. a = [j \in DOMAIN s |-> value(h, t[j])] /\ b = [j \in DOMAIN s |-> value(h, s[j])]
  BY <1>2, <1>3 DEF Meanings
<1>5. \A j \in DOMAIN s : a[j] = IF j = i THEN value(h, e) ELSE b[j]
  BY <1>3, <1>4
<1> QED
  BY <1>2, <1>4, <1>5

\* A sequence with another element in the place of one.
LEMMA UpdateStep ==
  ASSUME Computing, Ordered(heap'), NEW own \in Loc, NEW other \in Var, NEW i \in 1 .. MAX_LENGTH, NEW arg \in Operand,
         Update(own, other, i, arg)
  PROVE  V!Next
<1>1. HoldsSequence(other) /\ Known(<<arg>>) /\ i \in 1 .. get_seq_length(var[other])
  BY DEF Update
<1>2. PICK a, s, ops, e, t : /\ a = Val(heap, var) /\ s = SeqElems(heap, var[other]) /\ ops = Operands(<<arg>>)
                             /\ e = ops[1] /\ t = [s EXCEPT ![i] = e]
  OBVIOUS
<1>3. /\ V!IsSeq(a[other]) /\ a[other].elems = Meanings(heap, s) /\ DOMAIN Meanings(heap, s) = DOMAIN s
      /\ s \in Seq(OBJ) /\ Len(s) = get_seq_length(var[other]) /\ Len(s) \in 0 .. MAX_LENGTH /\ DOMAIN s = 1 .. Len(s)
      /\ \A j \in DOMAIN s : Usable(heap, s[j])
  BY <1>1, <1>2, HeldSequence
<1>4. <<arg>> \in Args /\ DOMAIN <<arg>> = 1 .. 1
  BY DEF Args
<1>5. /\ V!Known(<<arg>>) /\ V!Operands(<<arg>>) = Meanings(heap, ops)
      /\ ops \in Seq(OBJ) /\ DOMAIN ops = DOMAIN <<arg>> /\ \A j \in DOMAIN ops : Usable(heap, ops[j])
  BY <1>1, <1>2, <1>4, OperandValues
<1>6. Usable(heap, e) /\ e \in OBJ /\ V!Operands(<<arg>>)[1] = value(heap, e)
  <2>1. 1 \in DOMAIN ops
    BY <1>4, <1>5
  <2>2. Meanings(heap, ops)[1] = value(heap, ops[1])
    BY <2>1 DEF Meanings
  <2> QED
    BY <1>2, <1>5, <2>1, <2>2 DEF Usable, OBJ
<1>7. i \in DOMAIN s
  BY <1>1, <1>3
<1>8. t \in Seq(OBJ) /\ Len(t) = Len(s) /\ \A j \in DOMAIN t : Usable(heap, t[j])
  <2>1. t \in Seq(OBJ) /\ Len(t) = Len(s)
    BY <1>2, <1>3, <1>6, <1>7, ExceptSeq
  <2>2. DOMAIN t = DOMAIN s /\ \A j \in DOMAIN s : t[j] = IF j = i THEN e ELSE s[j]
    BY <1>2, <1>3, SeqDef
  <2> QED
    BY <1>3, <1>6, <2>1, <2>2
<1>9. Elementary(mode, heap, "seq", t)
  BY <1>3, <1>8 DEF Elementary, Kinds
<1>10. PICK x \in Free : Assign(own, build(heap, mode, "seq", t, x))
  BY <1>2 DEF Update
<1>11. x \in Id /\ heap[x] = FREE
  BY <1>10 DEF Free, Live
<1>12. PICK result : result = [kind |-> "seq", elems |-> Meanings(heap, t)]
  OBVIOUS
<1>13. Meanings(heap, t) = [Meanings(heap, s) EXCEPT ![i] = value(heap, e)]
  BY <1>2, <1>3, <1>7, OtherMeanings
<1>14. V!Update(other, i, arg, result)
  BY <1>2, <1>3, <1>5, <1>6, <1>7, <1>12, <1>13 DEF V!Update, V!SeqOf, Val
<1>15. V!Yields(result)
  BY <1>14 DEF V!Yields, V!Var, Var, V!Operand, Operand
<1> QED
  BY <1>9, <1>10, <1>11, <1>12, <1>15, MakeStep

\* An element of what a variable holds.
LEMMA AtStep ==
  ASSUME Computing, NEW own \in Loc, NEW other \in Var, NEW i \in 1 .. MAX_LENGTH, At(own, other, i)
  PROVE  V!Next
<1>1. PICK r, a, c, ref, made : /\ r = var[other] /\ a = Val(heap, var) /\ c = Contents(heap, r) /\ ref = c[i]
                                /\ made = [heap |-> add_ref(heap, mode, ref), ref |-> ref]
  OBVIOUS
<1>2. i \in DOMAIN Elements(r) /\ Assign(own, [heap |-> add_ref(heap, mode, Elements(r)[i]), ref |-> Elements(r)[i]])
  BY <1>1 DEF At
<1>3. r \notin Inline \cup {NONE}
  <2>1. ASSUME r \in Inline \cup {NONE} PROVE FALSE
    <3>1. Elements(r) = <<>>
      BY <2>1 DEF Elements
    <3> QED
      BY <1>2, <3>1
  <2> QED
    BY <2>1
<1>4. Elements(r) = c
  BY <1>1, <1>3 DEF Elements, Contents
<1>5. Usable(heap, r) /\ a[other] = value(heap, r) /\ r \notin Atom
  BY <1>1, <1>3, ComputingFacts DEF Inline
<1>6. mode \in {"normal", "try"} /\ Evaluable(mode, heap) /\ Ordered(heap) /\ AtomsApart
  BY ComputingFacts DEF Computing
<1>7. /\ a[other] \notin Atom \cup {NONE} /\ a[other].elems = Meanings(heap, c)
      /\ c \in Seq(OBJ) /\ \A j \in DOMAIN c : Usable(heap, c[j])
  BY <1>1, <1>5, <1>6, SeenFacts
<1>8. i \in DOMAIN c /\ Assign(own, made)
  BY <1>1, <1>2, <1>4
<1>9. Usable(heap, ref) /\ ref \in OBJ
  BY <1>1, <1>7, <1>8 DEF Usable, OBJ
<1>10. PICK result : result = value(heap, ref)
  OBVIOUS
<1>11. Meanings(heap, c)[i] = result /\ i \in DOMAIN Meanings(heap, c)
  BY <1>1, <1>8, <1>10 DEF Meanings
<1>12. V!At(other, i, result)
  BY <1>1, <1>7, <1>11 DEF V!At, Val
<1>13. V!Yields(result)
  BY <1>12 DEF V!Yields, V!Var, Var
<1>14. made.ref = ref /\ made.heap = vec_add_ref(heap, mode, <<ref>>) /\ <<ref>> \in Seq(OBJ)
  BY <1>1, <1>9 DEF add_ref
<1> QED
  BY <1>8, <1>9, <1>10, <1>13, <1>14, ShareStep

\* Objects that are left, and what variables still hold of them.
LEMMA LossValues ==
  ASSUME NEW h2, HeapOK(h2), Left(heap, h2), NEW vb, NEW Mems \in {Memory, {"std"}}, \A m \in Mems : Closed(h2, m),
         NoCopies(h2) \/ Mems = {"std"},
         \A own \in Var : vb[own] # NONE => /\ vb[own] = var[own] /\ Usable(h2, var[own])
                                            /\ var[own] \in Inline \/ var[own].mem \in Mems
  PROVE  \A own \in Var : Val(h2, vb)[own] = IF vb[own] = NONE THEN NONE ELSE Val(heap, var)[own]
<1>1. SUFFICES ASSUME NEW own \in Var, vb[own] # NONE
               PROVE  Val(h2, vb)[own] = Val(heap, var)[own]
  BY DEF Val
<1>2. PICK r : r = var[own]
  OBVIOUS
<1>3. r # NONE /\ vb[own] = r /\ Usable(h2, r) /\ (r \in Inline \/ r.mem \in Mems)
  BY <1>1, <1>2
<1>4. value(h2, r) = value(heap, r)
  BY <1>3, LeftValues
<1> QED
  BY <1>2, <1>3, <1>4 DEF Val

\* A sequence that a variable holds gets an element more.
LEMMA AppendStep ==
  ASSUME Computing, IInv', ~ TRY_EXTENDS_STD, ~ NESTED_APPEND, Ordered(heap'),
         NEW own \in Loc, NEW arg \in Operand, AppendTo(own, arg)
  PROVE  V!Next
<1>1. HoldsSequence(own) /\ Known(<<arg>>) /\ own \in Var /\ mode' = mode
  BY DEF AppendTo, Var
<1>2. mode \in {"normal", "try"} /\ Sane(mode, heap, var) /\ Evaluable(mode, heap) /\ Ordered(heap) /\ Typed(var) /\ HeapOK(heap)
  BY ComputingFacts DEF Computing
<1>3. PICK ref, new, s, a, b, h2, vb : /\ ref = var[own] /\ new = Operands(<<arg>>) /\ s = SeqElems(heap, ref)
                                       /\ a = Val(heap, var) /\ b = Val(heap', var') /\ h2 = heap' /\ vb = var'
  OBVIOUS
<1>4. /\ Usable(heap, ref) /\ is_seq(heap, ref) /\ ref # NONE /\ s \in Seq(OBJ) /\ Len(s) = get_seq_length(ref)
      /\ V!IsSeq(a[own]) /\ a[own].elems = Meanings(heap, s)
  BY <1>1, <1>3, HeldSequence
<1>5. <<arg>> \in Args /\ DOMAIN <<arg>> = 1 .. 1
  BY DEF Args
<1>6. /\ V!Known(<<arg>>) /\ V!Operands(<<arg>>) = Meanings(heap, new)
      /\ new \in Seq(OBJ) /\ DOMAIN new = DOMAIN <<arg>> /\ \A j \in DOMAIN new : Usable(heap, new[j])
  BY <1>1, <1>3, <1>5, OperandValues
<1>7. Len(new) = 1
  BY <1>5, <1>6, LenProperties
<1>8. Evaluable(mode, h2) /\ (\A other \in Var : vb[other] # NONE => Usable(h2, vb[other]))
  <2>1. StateInv(mode, h2, vb)
    BY <1>1, <1>3 DEF IInv
  <2>2. Sane(mode, h2, vb)
    BY <1>2, <2>1, SaneState
  <2> QED
    BY <2>2 DEF Sane, UsableIn
<1>9. PICK result : result = [kind |-> "seq", elems |-> Meanings(heap, s \o new)]
  OBVIOUS
<1>10. \E h1, longer : /\ Kept(heap, h1) /\ value(h1, longer) = result /\ longer # NONE /\ vb = [var EXCEPT ![own] = longer]
                       /\ Left(h1, h2)
  <2>1. CASE ref = EMPTY_SEQ
    <3>1. PICK x \in Free : /\ heap' = build(heap, mode, "seq", new, x).heap
                            /\ var' = [var EXCEPT ![own] = build(heap, mode, "seq", new, x).ref]
      BY <1>3, <2>1 DEF AppendTo, BlockFor
    <3>2. x \in Id /\ heap[x] = FREE
      BY DEF Free, Live
    <3>3. PICK made : made = build(heap, mode, "seq", new, x)
      OBVIOUS
    <3>4. h2 = made.heap /\ vb = [var EXCEPT ![own] = made.ref]
      BY <1>3, <3>1, <3>3
    <3>5. Elementary(mode, heap, "seq", new)
      BY <1>6, <1>7, LargestFacts DEF Elementary, Kinds
    <3>6. Kept(heap, made.heap)
      BY <1>2, <1>6, <3>2, <3>3, BuildKept
    <3>7. Ordered(made.heap)
      BY <1>3, <3>4
    <3>8. value(made.heap, made.ref) = [kind |-> "seq", elems |-> Meanings(heap, new)]
      BY <1>2, <3>2, <3>3, <3>5, <3>7, BuildValue
    <3>9. made.ref # NONE
      <4>1. Made(mode, heap, made.heap, made.ref)
        BY <1>2, <3>2, <3>3, <3>5, BuildFacts
      <4>2. made.ref \in OBJ
        BY <4>1 DEF Made, Usable, OBJ
      <4> QED
        BY <4>2, Kinship
    <3>10. s \o new = new
      <4>1. s = <<>>
        BY <1>3, <2>1 DEF SeqElems
      <4> QED
        BY <1>6, <4>1, ConcatEmptySeq
    <3>11. Left(made.heap, h2)
      BY <3>4 DEF Left
    <3> QED
      BY <1>9, <3>4, <3>6, <3>8, <3>9, <3>10, <3>11
  <2>2. CASE ref # EMPTY_SEQ
    <3>1. PICK x \in BlockFor(ref, 1) : /\ Extends(ref, new)
                                        /\ heap' = release(extend_sequence(heap, mode, ref, new, x).heap, mode, ref)
                                        /\ var' = [var EXCEPT ![own] = extend_sequence(heap, mode, ref, new, x).ref]
      BY <1>3, <2>2 DEF AppendTo
    <3>2. PICK made : made = extend_sequence(heap, mode, ref, new, x)
      OBVIOUS
    <3>3. h2 = release(made.heap, mode, ref) /\ vb = [var EXCEPT ![own] = made.ref]
      BY <1>3, <3>1, <3>2
    <3>4. Lengthens(ref, new, x)
      BY <1>4, <1>6, <1>7, <2>2, <3>1 DEF Lengthens, is_seq
    <3>5. Ordered(made.heap)
      BY <1>2, <3>2, <3>4, ExtendOrder
    <3>6. /\ Kept(heap, made.heap) /\ Evaluable(mode, made.heap) /\ made.ref # NONE
          /\ value(made.heap, made.ref) = result
      BY <1>3, <1>9, <3>2, <3>4, <3>5, ExtendedValue
    <3>7. Left(made.heap, h2)
      <4>1. HeapOK(made.heap) /\ ref \in OBJ
        BY <1>4, <3>6 DEF Evaluable, Usable, OBJ
      <4> QED
        BY <3>3, <4>1, ReleaseLeft
    <3> QED
      BY <3>3, <3>6, <3>7
  <2> QED
    BY <2>1, <2>2
<1>11. PICK h1, longer : /\ Kept(heap, h1) /\ value(h1, longer) = result /\ longer # NONE
                         /\ vb = [var EXCEPT ![own] = longer] /\ Left(h1, h2)
  BY <1>10
<1>12. \A r : Usable(h2, r) => value(h2, r) = value(h1, r)
  <2>1. HeapOK(h2) /\ NoCopies(h2) /\ \A m \in Memory : Closed(h2, m)
    BY <1>8 DEF Evaluable
  <2>2. PICK Mems \in {Memory, {"std"}} : Mems = Memory
    OBVIOUS
  <2>3. \A r : Usable(h2, r) /\ (r \in Inline \/ r.mem \in Mems) => value(h2, r) = value(h1, r)
    BY <1>11, <2>1, <2>2, LeftValues
  <2>4. \A r : Usable(h2, r) => r \in Inline \/ r.mem \in Mems
    BY <2>2 DEF Usable, Ref
  <2> QED
    BY <2>3, <2>4
<1>13. vb[own] = longer /\ \A other \in Var : other # own => vb[other] = var[other]
  BY <1>1, <1>2, <1>11 DEF Typed
<1>14. b[own] = result
  <2>1. value(h2, longer) = value(h1, longer)
    BY <1>1, <1>8, <1>11, <1>12, <1>13
  <2> QED
    BY <1>1, <1>3, <1>11, <1>13, <2>1 DEF Val
<1>15. ASSUME NEW other \in Var, other # own
       PROVE  b[other] = a[other]
  <2>1. CASE var[other] = NONE
    BY <1>3, <1>13, <1>15, <2>1 DEF Val
  <2>2. CASE var[other] # NONE
    <3>1. PICK r : r = var[other]
      OBVIOUS
    <3>2. Usable(heap, r) /\ Usable(h2, r)
      BY <1>8, <1>13, <1>15, <2>2, <3>1, ComputingFacts
    <3>3. value(h2, r) = value(h1, r) /\ value(h1, r) = value(heap, r)
      BY <1>2, <1>11, <1>12, <3>2, KeptValues
    <3> QED
      BY <1>3, <1>13, <1>15, <2>2, <3>1, <3>3 DEF Val
  <2> QED
    BY <2>1, <2>2
<1>16. b = [a EXCEPT ![own] = result]
  <2>1. a = [other \in Var |-> a[other]] /\ b = [other \in Var |-> b[other]]
    BY <1>3 DEF Val
  <2> QED
    BY <1>1, <1>14, <1>15, <2>1
<1>17. Meanings(heap, s \o new) = Meanings(heap, s) \o Meanings(heap, new)
  BY <1>4, <1>6, ConcatMeanings
<1>18. result = V!SeqOf(a[own].elems \o V!Operands(<<arg>>))
  BY <1>4, <1>6, <1>9, <1>17 DEF V!SeqOf
<1>19. V!AppendTo(own, arg)
  BY <1>1, <1>2, <1>3, <1>4, <1>6, <1>16, <1>18 DEF V!AppendTo, V!Evaluating, Val
<1> QED
  BY <1>19 DEF V!Next, V!Operand, Operand

\* A variable is dropped.
LEMMA DropStep ==
  ASSUME Computing, IInv', NEW own \in Loc, Drop(own)
  PROVE  V!Next
<1>1. /\ own \in Var /\ mode' = mode /\ mode \in {"normal", "try"} /\ HeapOK(heap) /\ Typed(var)
      /\ var[own] # NONE /\ Usable(heap, var[own])
  BY ComputingFacts DEF Drop, Computing, Var
<1>2. PICK a, b, h2, vb : a = Val(heap, var) /\ b = Val(heap', var') /\ h2 = heap' /\ vb = var'
  OBVIOUS
<1>3. h2 = release(heap, mode, var[own]) /\ vb = [var EXCEPT ![own] = NONE]
  BY <1>2 DEF Drop
<1>4. Left(heap, h2)
  <2>1. var[own] \in OBJ
    BY <1>1 DEF Usable, OBJ
  <2> QED
    BY <1>1, <1>3, <2>1, ReleaseLeft
<1>5. Evaluable(mode, h2) /\ (\A other \in Var : vb[other] # NONE => Usable(h2, vb[other]))
  <2>1. StateInv(mode, h2, vb)
    BY <1>1, <1>2 DEF IInv
  <2>2. Sane(mode, h2, vb)
    BY <1>1, <2>1, SaneState
  <2> QED
    BY <2>2 DEF Sane, UsableIn
<1>6. \A other \in Var : b[other] = IF vb[other] = NONE THEN NONE ELSE a[other]
  <2>1. HeapOK(h2) /\ NoCopies(h2) /\ \A m \in Memory : Closed(h2, m)
    BY <1>5 DEF Evaluable
  <2>2. PICK Mems \in {Memory, {"std"}} : Mems = Memory
    OBVIOUS
  <2>3. ASSUME NEW other \in Var, vb[other] # NONE
        PROVE  vb[other] = var[other] /\ Usable(h2, var[other]) /\ (var[other] \in Inline \/ var[other].mem \in Mems)
    <3>1. vb[other] = var[other]
      BY <1>1, <1>3, <2>3 DEF Typed
    <3> QED
      BY <1>5, <2>2, <2>3, <3>1 DEF Usable, Ref
  <2>4. \A other \in Var : Val(h2, vb)[other] = IF vb[other] = NONE THEN NONE ELSE Val(heap, var)[other]
    BY <1>4, <2>1, <2>2, <2>3, LossValues
  <2> QED
    BY <1>2, <2>4
<1>7. V!Drop
  BY <1>1, <1>2, <1>6 DEF V!Drop, V!Var, Var, Val
<1> QED
  BY <1>7 DEF V!Next

\* Standard memory is left, and what the globals hold of it.
LEMMA LossOfLocals ==
  ASSUME NEW h2, NEW vb, NEW md, Lasting(md, h2, vb), Left(heap, h2),
         \A own \in Var : vb[own] # NONE => vb[own] = var[own] /\ (own \in Glob \/ (Usable(h2, vb[own]) /\ InStd(vb[own])))
  PROVE  \A own \in Var : Val(h2, vb)[own] = IF vb[own] = NONE THEN NONE ELSE Val(heap, var)[own]
<1>1. HeapOK(h2) /\ Closed(h2, "std")
  BY DEF Lasting
<1>2. PICK Mems \in {Memory, {"std"}} : Mems = {"std"}
  OBVIOUS
<1>3. ASSUME NEW own \in Var, vb[own] # NONE
      PROVE  vb[own] = var[own] /\ Usable(h2, var[own]) /\ (var[own] \in Inline \/ var[own].mem \in Mems)
  <2>1. Usable(h2, vb[own]) /\ InStd(vb[own])
    BY <1>3 DEF Lasting, UsableIn, GlobalsInStd
  <2> QED
    BY <1>2, <1>3, <2>1 DEF InStd
<1>4. \A m \in Mems : Closed(h2, m)
  BY <1>1, <1>2
<1> QED
  BY <1>1, <1>2, <1>3, <1>4, LossValues

\* What a variable holds has a value, while anything can be copied too.
LEMMA ValueIsSet ==
  ASSUME AtomsApart, NEW h, NEW r \in OBJ
  PROVE  value(h, r) # NONE
<1>1. Depth \in Nat /\ Depth = Cardinality(Id) + 1 /\ Cardinality(Id) \in Nat
      /\ (\A n \in Nat : n < Depth => Unfolded(h)[n + 1] = Layer(h, n + 1, Unfolded(h)[n]))
      /\ \A ref : value(h, ref) = Unfolded(h)[Depth][ref]
  BY UnfoldedFacts
<1>2. PICK n, below : n = Depth /\ below = Unfolded(h)[Cardinality(Id)]
  OBVIOUS
<1>3. value(h, r) = Layer(h, n, below)[r]
  <2>1. Cardinality(Id) < Depth
    BY <1>1
  <2> QED
    BY <1>1, <1>2, <2>1
<1>4. CASE r \in Inline
  <2>1. value(h, r) = Flat(r)
    BY <1>3, <1>4, FlatLayer
  <2> QED
    BY <1>4, <2>1, InlineAssumption DEF Flat, AtomsApart, Inline
<1>5. CASE r \notin Inline
  <2>1. \E kind, elems : value(h, r) = [kind |-> kind, elems |-> elems]
    <3>1. PICK k, e : k = h[Home(h, r.obj)].kind /\ e = IF n = 0 THEN <<>> ELSE Through(below, ShownBy(h, r))
      OBVIOUS
    <3>2. Layer(h, n, below)[r] = [kind |-> k, elems |-> e]
      BY <1>5, <3>1, ObjectLayer
    <3> QED
      BY <1>3, <3>2
  <2> QED
    BY <2>1 DEF AtomsApart
<1> QED
  BY <1>4, <1>5

\* A global is released.
LEMMA ReleaseGlobalStep ==
  ASSUME IInv, IInv', NEW g \in Glob, Release(g)
  PROVE  V!Next
<1>1. /\ g \in Var /\ mode' = mode /\ mode \in {"normal", "copying"} /\ HeapOK(heap) /\ Typed(var)
      /\ var[g] # NONE
  BY DEF Release, IInv, StateInv, Lasting, Var
<1>2. PICK a, b, h2, vb : a = Val(heap, var) /\ b = Val(heap', var') /\ h2 = heap' /\ vb = var'
  OBVIOUS
<1>3. /\ h2 = release(heap, mode, var[g])
      /\ vb = [own \in Var |-> IF own = g \/ (own \in Loc /\ mode = "copying") THEN NONE ELSE var[own]]
  BY <1>2 DEF Release
<1>4. Left(heap, h2)
  <2>1. var[g] \in OBJ
    BY <1>1 DEF Typed
  <2> QED
    BY <1>1, <1>3, <2>1, ReleaseLeft
<1>5. StateInv(mode, h2, vb)
  BY <1>1, <1>2 DEF IInv
<1>6. Lasting(mode, h2, vb)
  BY <1>5 DEF StateInv
<1>7. ASSUME NEW own \in Var, vb[own] # NONE
      PROVE  vb[own] = var[own] /\ (own \in Glob \/ (Usable(h2, vb[own]) /\ InStd(vb[own])))
  <2>1. vb[own] = var[own]
    BY <1>3, <1>7
  <2>2. CASE own \notin Glob
    <3>1. own \in Loc /\ mode = "normal"
      BY <1>1, <1>3, <1>7, <2>2 DEF Var
    <3>2. Sane(mode, h2, vb)
      BY <1>5, <3>1, SaneState
    <3>3. Evaluable(mode, h2) /\ Usable(h2, vb[own])
      BY <1>7, <3>2 DEF Sane, UsableIn
    <3>4. InStd(vb[own])
      BY <3>1, <3>3, EvaluableFacts
    <3> QED
      BY <2>1, <3>3, <3>4
  <2> QED
    BY <2>1, <2>2
<1>8. \A own \in Var : b[own] = IF vb[own] = NONE THEN NONE ELSE a[own]
  BY <1>2, <1>4, <1>6, <1>7, LossOfLocals
<1>9. V!Drop
  BY <1>1, <1>2, <1>8 DEF V!Drop, V!Var, Var, Val
<1> QED
  BY <1>9 DEF V!Next

\* The end of a transaction.
LEMMA LeaveStep ==
  ASSUME IInv, IInv', LeaveTransaction, mode \in {"try", "copying"}
  PROVE  V!Next
<1>1. PICK a, b, h2, vb : a = Val(heap, var) /\ b = Val(heap', var') /\ h2 = heap' /\ vb = var'
  OBVIOUS
<1>2. /\ h2 = [x \in Id |-> IF heap[x].mem = "try" THEN FREE ELSE heap[x]]
      /\ vb = [own \in Var |-> IF own \in Loc THEN NONE ELSE var[own]]
      /\ mode' = "normal"
  BY <1>1 DEF LeaveTransaction
<1>3. Left(heap, h2)
  BY <1>2 DEF Left, Live
<1>4. Lasting("normal", h2, vb)
  BY <1>1, <1>2 DEF IInv, StateInv
<1>5. \A own \in Var : vb[own] # NONE => vb[own] = var[own] /\ own \in Glob
  BY <1>2 DEF Var
<1>6. \A own \in Var : b[own] = IF vb[own] = NONE THEN NONE ELSE a[own]
  BY <1>1, <1>3, <1>4, <1>5, LossOfLocals
<1>7. \A own \in Var : b[own] = IF own \in Loc THEN NONE ELSE a[own]
  BY <1>1, <1>2, <1>6 DEF Val
<1>8. V!Leave
  BY <1>1, <1>2, <1>7 DEF V!Leave, V!Without, V!Var, Var, Val
<1> QED
  BY <1>8 DEF V!Next

\* A global takes over the value of a local variable.
LEMMA StoreStep ==
  ASSUME Computing, NEW g \in Glob, NEW own \in Loc, Store(g, own)
  PROVE  V!Next
<1>1. PICK a, b, vb : a = Val(heap, var) /\ b = Val(heap', var') /\ vb = var'
  OBVIOUS
<1>2. /\ mode = "normal" /\ var[own] # NONE /\ var[g] = NONE /\ vb = [var EXCEPT ![g] = var[own], ![own] = NONE]
      /\ mode' = mode /\ heap' = heap /\ g \in Var /\ own \in Var /\ g # own
  BY <1>1, ProgramAssumption DEF Store, Var
<1>3. Typed(var) /\ a[own] = value(heap, var[own]) /\ a[own] # NONE /\ a[g] = NONE
  BY <1>1, <1>2, ComputingFacts
<1>4. vb[g] = var[own] /\ vb[own] = NONE /\ \A other \in Var : other # g /\ other # own => vb[other] = var[other]
  BY <1>2, <1>3 DEF Typed
<1>5. b = [other \in Var |-> IF other = g THEN a[own] ELSE IF other = own THEN NONE ELSE a[other]]
  BY <1>1, <1>2, <1>3, <1>4 DEF Val
<1>6. b = [V!Without(a, {own}) EXCEPT ![g] = a[own]]
  BY <1>2, <1>5 DEF V!Without, V!Var, Var
<1>7. V!Store(g, own)
  BY <1>1, <1>2, <1>3, <1>6 DEF V!Store, Val
<1> QED
  BY <1>7 DEF V!Next

\* What a sequence shows of a block, and any other object of its block.
PartShown(kind, all, off, len) == IF kind # "seq" THEN all ELSE SubSeq(all, off + 1, off + len)

AllImages(kind, all, images, off, len) ==
  /\ DOMAIN PartShown(kind, images, off, len) = DOMAIN PartShown(kind, all, off, len)
  /\ \A i \in DOMAIN PartShown(kind, all, off, len) :
       \E j \in DOMAIN all : /\ PartShown(kind, all, off, len)[i] = all[j]
                             /\ PartShown(kind, images, off, len)[i] = images[j]

\* What is shown of the images of elements are the images of what is shown.
LEMMA ImagesShown ==
  ASSUME NEW kind, NEW all \in Seq(OBJ), NEW images \in Seq(OBJ), Len(images) = Len(all),
         NEW off \in Nat, NEW len \in Nat, off + len <= Len(all)
  PROVE  AllImages(kind, all, images, off, len)
<1>1. PICK a, b : a = PartShown(kind, all, off, len) /\ b = PartShown(kind, images, off, len)
  OBVIOUS
<1>2. DOMAIN all = DOMAIN images
  BY LenProperties
<1>3. CASE kind # "seq"
  BY <1>2, <1>3 DEF AllImages, PartShown
<1>4. CASE kind = "seq"
  <2>1. a = SubSeq(all, off + 1, off + len) /\ b = SubSeq(images, off + 1, off + len) /\ off + len <= Len(images)
    BY <1>1, <1>4 DEF PartShown
  <2>2. DOMAIN a = 1 .. len /\ \A i \in 1 .. len : a[i] = all[off + i] /\ off + i \in DOMAIN all
    BY ONLY <2>1, all \in Seq(OBJ), off \in Nat, len \in Nat, off + len <= Len(all), PartFacts
  <2>3. DOMAIN b = 1 .. len /\ \A i \in 1 .. len : b[i] = images[off + i]
    BY ONLY <2>1, images \in Seq(OBJ), off \in Nat, len \in Nat, PartFacts
  <2> QED
    BY <1>1, <2>2, <2>3 DEF AllImages
<1> QED
  BY <1>3, <1>4

\* What a usable reference shows, wherever the contents of its block are, can be used.
LEMMA ShownUsable ==
  ASSUME NEW h, NEW root, Copyable(h, root), NEW r, Usable(h, r), r \notin Inline, NEW y, y = Home(h, r.obj)
  PROVE  /\ r.obj \in Live(h) /\ y \in Live(h) /\ r.off \in Nat /\ r.len \in Nat /\ r \in Ref
         /\ h[y].elems \in Seq(OBJ) /\ r.off + r.len <= Len(h[y].elems)
         /\ h[r.obj].copy # NONE => y = h[r.obj].copy /\ y \in Objects(h, "std")
         /\ h[r.obj].copy = NONE => y = r.obj
         /\ h[y].copy = NONE
         /\ ShownBy(h, r) = PartShown(h[y].kind, h[y].elems, r.off, r.len)
         /\ \A j \in DOMAIN h[y].elems : Usable(h, h[y].elems[j])
<1>1. HeapOK(h) /\ Closed(h, "std") /\ Closed(h, "try") /\ CopiesOK(h)
  BY DEF Copyable
<1>2. PICK x : x = r.obj
  OBVIOUS
<1>3. /\ r \in Ref /\ x \in Id /\ h[x] # FREE /\ x \in Live(h) /\ r.mem = h[x].mem /\ r.off \in Nat /\ r.len \in Nat
      /\ r.off + r.len <= Len(h[y].elems)
  BY <1>2 DEF Usable, Ref, Live
<1>4. /\ h[x].copy # NONE => y = h[x].copy /\ y \in Objects(h, "std")
      /\ h[x].copy = NONE => y = x
  BY <1>1, <1>2, <1>3 DEF Home, CopiesOK
<1>5. y \in Live(h)
  BY <1>3, <1>4 DEF Objects
<1>6. h[y].copy = NONE
  <2>1. CASE h[x].copy = NONE
    BY <1>4, <2>1
  <2>2. CASE h[x].copy # NONE
    <3>1. y \in Live(h) /\ h[y].mem = "std"
      BY <1>4, <2>2 DEF Objects
    <3>2. ObjectOK(h[y])
      BY <1>1, <3>1, LiveFacts
    <3> QED
      BY <3>1, <3>2 DEF ObjectOK
  <2> QED
    BY <2>1, <2>2
<1>7. h[y].elems \in Seq(OBJ)
  BY <1>1, <1>5, HeapFacts DEF ElementsTyped, Live
<1>8. ShownBy(h, r) = PartShown(h[y].kind, h[y].elems, r.off, r.len)
  BY <1>2 DEF ShownBy, PartShown
<1>9. ASSUME NEW j \in DOMAIN h[y].elems
      PROVE  Usable(h, h[y].elems[j])
  <2>1. PICK m \in Memory : m = h[y].mem
    BY <1>1, <1>5, HeapFacts
  <2>2. Closed(h, m) /\ y \in Objects(h, m)
    BY <1>1, <1>5, <2>1 DEF Memory, Objects
  <2> QED
    BY <2>2 DEF Closed
<1> QED
  BY <1>2, <1>3, <1>4, <1>5, <1>6, <1>7, <1>8, <1>9

\* In the copy the same reference is in the place of another, or its image is.
Follows(h, S, at, r, s) ==
  Usable(h, r) /\ (s = r \/ (Visited(h, r) \subseteq S /\ s = repoint_to_std_mem_copy(h, at, r)))
Pairs(h, S, at) == {p \in OBJ \X OBJ : Follows(h, S, at, p[1], p[2])}

\* Where the contents are that either shows.
LEMMA CopyHomes ==
  ASSUME NEW h, NEW ref, NEW S, NEW at, Copying(h, ref, S, at), NEW h2, NEW made, CopiedAs(h, h2, S, at, made),
         NEW r, NEW s, Follows(h, S, at, r, s), r \notin Inline, NEW y, y = Home(h, r.obj), NEW z, z = Home(h2, s.obj)
  PROVE  /\ s \notin Inline /\ s.off = r.off /\ s.len = r.len
         /\ IF y \in S THEN z = at[y] ELSE z = y
<1>1. Copyable(h, ref) /\ S = ToCopy(h, ref) /\ Targeted(h, S, at) /\ Usable(h, r)
  BY DEF Copying, Follows
<1>2. PICK x : x = r.obj
  OBVIOUS
<1>3. /\ x \in Live(h) /\ y \in Live(h)
      /\ h[x].copy # NONE => y = h[x].copy /\ y \in Objects(h, "std")
      /\ h[x].copy = NONE => y = x
      /\ h[y].copy = NONE
  BY <1>1, <1>2, ShownUsable
<1>4. S \subseteq Objects(h, "try") /\ \A u \in S : at[u] \in Id /\ h[u].copy = NONE
  BY CopyingFacts
<1>5. x \in S => y = x
  BY <1>3, <1>4
<1>6. x \notin S => y \notin S
  BY <1>3, <1>4 DEF Objects
<1>7. \A u \in S : h2[u].copy = at[u] /\ h2[at[u]].copy = NONE /\ at[u] # NONE
  BY <1>4, InlineAssumption DEF CopiedAs
<1>8. \A u \in Live(h) : u \notin S => h2[u].copy = h[u].copy
  <2>1. PICK N : N = {at[u] : u \in S}
    OBVIOUS
  <2>2. Sorted(h, h2, S, N, made)
    BY <2>1, CopyObjects
  <2> QED
    BY <2>2 DEF Sorted
<1>9. CASE s = r
  <2>1. CASE x \in S
    BY <1>2, <1>5, <1>7, <1>9, <2>1 DEF Home
  <2>2. CASE x \notin S
    <3>1. h2[x].copy = h[x].copy
      BY <1>3, <1>8, <2>2
    <3>2. z = y
      BY <1>2, <1>9, <3>1 DEF Home
    <3> QED
      BY <1>6, <1>9, <2>2, <3>2
  <2> QED
    BY <2>1, <2>2
<1>10. CASE s # r
  <2>1. Visited(h, r) \subseteq S /\ s = repoint_to_std_mem_copy(h, at, r)
    BY <1>10 DEF Follows
  <2>2. /\ r \in Inline \/ r.mem = "std" => s = r
        /\ r \notin Inline => s \notin Inline /\ s.off = r.off /\ s.len = r.len
        /\ r \notin Inline /\ r.mem # "std" /\ r.obj \notin S => h[r.obj].copy # NONE /\ s.obj = h[r.obj].copy
        /\ r \notin Inline /\ r.mem # "std" /\ r.obj \in S => s.obj = at[r.obj]
    BY <1>1, <2>1, ImageFacts
  <2>3. s \notin Inline /\ s.off = r.off /\ s.len = r.len /\ r.mem # "std"
    BY <1>10, <2>2
  <2>4. CASE x \in S
    <3>1. s.obj = at[x] /\ y = x
      BY <1>2, <1>5, <2>2, <2>3, <2>4
    <3> QED
      BY <1>7, <2>3, <2>4, <3>1 DEF Home
  <2>5. CASE x \notin S
    <3>1. s.obj = y /\ y \notin S
      BY <1>2, <1>3, <1>6, <2>2, <2>3, <2>5
    <3>2. h2[y].copy = NONE
      BY <1>3, <1>8, <3>1
    <3> QED
      BY <2>3, <3>1, <3>2 DEF Home
  <2> QED
    BY <2>4, <2>5
<1> QED
  BY <1>9, <1>10

\* References to an original and to its copy show the same.
LEMMA CopyAlike ==
  ASSUME NEW h, NEW ref, NEW S, NEW at, Copying(h, ref, S, at), NEW h2, NEW made, CopiedAs(h, h2, S, at, made)
  PROVE  Alike(h, h2, Pairs(h, S, at))
<1>1. PICK P : P = Pairs(h, S, at)
  OBVIOUS
<1>2. SUFFICES ASSUME NEW r, NEW s, <<r, s>> \in P PROVE Matches(h, h2, r, s, P)
  BY <1>1 DEF Alike, Pairs
<1>3. Copyable(h, ref) /\ S = ToCopy(h, ref) /\ Targeted(h, S, at) /\ HeapOK(h2)
  BY DEF Copying, CopiedAs
<1>4. r \in OBJ /\ s \in OBJ /\ Follows(h, S, at, r, s) /\ Usable(h, r)
  BY <1>1, <1>2 DEF Pairs, Follows
<1>5. CASE r \in Inline
  BY <1>4, <1>5 DEF Matches, Follows, repoint_to_std_mem_copy
<1>6. CASE r \notin Inline
  <2>1. PICK y, z : y = Home(h, r.obj) /\ z = Home(h2, s.obj)
    OBVIOUS
  <2>2. s \notin Inline /\ s.off = r.off /\ s.len = r.len /\ IF y \in S THEN z = at[y] ELSE z = y
    BY <1>4, <1>6, <2>1, CopyHomes
  <2>3. PICK all, kind, off, len : all = h[y].elems /\ kind = h[y].kind /\ off = r.off /\ len = r.len
    OBVIOUS
  <2>4. /\ y \in Live(h) /\ off \in Nat /\ len \in Nat /\ all \in Seq(OBJ) /\ off + len <= Len(all)
        /\ ShownBy(h, r) = PartShown(kind, all, off, len)
        /\ \A j \in DOMAIN all : Usable(h, all[j])
    BY <1>3, <1>4, <1>6, <2>1, <2>3, ShownUsable
  <2>5. PICK images : images = h2[z].elems
    OBVIOUS
  <2>6. ShownBy(h2, s) = PartShown(h2[z].kind, images, off, len)
    BY <2>1, <2>2, <2>3, <2>5 DEF ShownBy, PartShown
  <2>7. CASE y \notin S
    <3>1. PICK N : N = {at[u] : u \in S}
      OBVIOUS
    <3>2. Sorted(h, h2, S, N, made)
      BY <3>1, CopyObjects
    <3>3. images = all /\ h2[z].kind = kind
      BY <2>2, <2>3, <2>4, <2>5, <2>7, <3>2 DEF Sorted
    <3>4. ShownBy(h2, s) = ShownBy(h, r)
      BY <2>4, <2>6, <3>3
    <3>5. ASSUME NEW i \in DOMAIN ShownBy(h, r)
          PROVE  <<ShownBy(h, r)[i], ShownBy(h2, s)[i]>> \in P
      <4>1. PICK e : e = ShownBy(h, r)[i]
        OBVIOUS
      <4>2. PICK j \in DOMAIN all : e = all[j]
        <5>1. AllImages(kind, all, all, off, len)
          BY <2>4, ImagesShown
        <5> QED
          BY <2>4, <3>5, <4>1, <5>1 DEF AllImages
      <4>3. Usable(h, e) /\ e \in OBJ
        BY <2>4, <4>2 DEF Usable, OBJ
      <4>4. <<e, e>> \in P
        BY <1>1, <4>3 DEF Pairs, Follows
      <4> QED
        BY <3>4, <4>1, <4>4
    <3> QED
      BY <1>6, <2>1, <2>2, <2>3, <3>3, <3>4, <3>5 DEF Matches
  <2>8. CASE y \in S
    <3>1. /\ h2[z].kind = kind /\ images = [i \in DOMAIN all |-> repoint_to_std_mem_copy(h, at, all[i])]
          /\ Len(images) = Len(all) /\ h2[z] # FREE
      BY <2>2, <2>3, <2>5, <2>8 DEF CopiedAs
    <3>2. images \in Seq(OBJ)
      <4>1. z \in Id
        BY <2>2, <2>8, CopyingFacts
      <4> QED
        BY <1>3, <2>5, <4>1, HeapFacts DEF ElementsTyped
    <3>3. /\ DOMAIN PartShown(kind, images, off, len) = DOMAIN PartShown(kind, all, off, len)
          /\ \A i \in DOMAIN PartShown(kind, all, off, len) :
               \E j \in DOMAIN all : /\ PartShown(kind, all, off, len)[i] = all[j]
                                     /\ PartShown(kind, images, off, len)[i] = images[j]
      <4>1. Len(images) = Len(all)
        BY <3>1
      <4>2. all \in Seq(OBJ) /\ off \in Nat /\ len \in Nat /\ off + len <= Len(all)
        BY <2>4
      <4>3. AllImages(kind, all, images, off, len)
        BY ONLY <3>2, <4>1, <4>2, ImagesShown
      <4> QED
        BY <4>3 DEF AllImages
    <3>4. DOMAIN ShownBy(h, r) = DOMAIN ShownBy(h2, s)
      BY <2>4, <2>6, <3>1, <3>3
    <3>5. ASSUME NEW i \in DOMAIN ShownBy(h, r)
          PROVE  <<ShownBy(h, r)[i], ShownBy(h2, s)[i]>> \in P
      <4>1. PICK j \in DOMAIN all : ShownBy(h, r)[i] = all[j] /\ ShownBy(h2, s)[i] = images[j]
        BY <2>4, <2>6, <3>1, <3>3, <3>5
      <4>2. PICK e, q : e = all[j] /\ q = repoint_to_std_mem_copy(h, at, e)
        OBVIOUS
      <4>3. images[j] = q
        BY <3>1, <4>2
      <4>4. Usable(h, e) /\ e \in OBJ /\ Visited(h, e) \subseteq S
        BY <2>3, <2>8, <4>2, CopyingFacts
      <4>5. Usable(h2, q)
        BY <4>2, <4>4, CopyUsable
      <4>6. q \in OBJ
        BY <4>5 DEF Usable, OBJ
      <4>7. <<e, q>> \in P
        BY <1>1, <4>2, <4>4, <4>6 DEF Pairs, Follows
      <4> QED
        BY <4>1, <4>2, <4>3, <4>7
    <3> QED
      BY <1>6, <2>1, <2>2, <2>3, <3>1, <3>4, <3>5 DEF Matches
  <2> QED
    BY <2>7, <2>8
<1> QED
  BY <1>5, <1>6

\* So a copy has the value of its original, and everything else has its own.
LEMMA CopiedValues ==
  ASSUME NEW h, NEW ref, NEW S, NEW at, Copying(h, ref, S, at), NEW h2, h2 = copy_obj(h, ref, at).heap,
         NEW q, q = copy_obj(h, ref, at).ref
  PROVE  /\ q \in OBJ /\ value(h2, q) = value(h, ref)
         /\ \A r : Usable(h, r) => value(h2, r) = value(h, r)
<1>1. PICK made : made = [y \in Id |-> MadeTo(h, ref, at, y)]
  OBVIOUS
<1>2. CopiedAs(h, h2, S, at, made)
  BY <1>1, CopiedFacts
<1>3. PICK P : P = Pairs(h, S, at)
  OBVIOUS
<1>4. Alike(h, h2, P)
  BY <1>2, <1>3, CopyAlike
<1>5. \A r, s : <<r, s>> \in P => value(h, r) = value(h2, s)
  BY <1>4, SameValues
<1>6. Usable(h, ref) /\ Visited(h, ref) \subseteq S
  BY CopyingFacts
<1>7. q = repoint_to_std_mem_copy(h, at, ref)
  BY DEF copy_obj
<1>8. Usable(h2, q)
  BY <1>2, <1>6, <1>7, CopyUsable
<1>9. q \in OBJ /\ ref \in OBJ
  BY <1>6, <1>8 DEF Usable, OBJ
<1>10. <<ref, q>> \in P
  BY <1>3, <1>6, <1>7, <1>9 DEF Pairs, Follows
<1>11. ASSUME NEW r, Usable(h, r)
       PROVE  value(h2, r) = value(h, r)
  <2>1. r \in OBJ
    BY <1>11 DEF Usable, OBJ
  <2>2. <<r, r>> \in P
    BY <1>3, <1>11, <2>1 DEF Pairs, Follows
  <2> QED
    BY <1>5, <2>2
<1> QED
  BY <1>5, <1>9, <1>10, <1>11

\* What a transaction computed is stored in a global, or copying fails.
LEMMA CopyOutStep ==
  ASSUME IInv, AtomsApart, NEW g \in Glob, NEW own \in Loc, CopyOut(g, own)
  PROVE  [V!Next]_V!vars
<1>1. mode = "copying" /\ var[own] # NONE /\ var[g] = NONE /\ own \in Var /\ g \in Var
  BY DEF CopyOut, Var
<1>2. PICK S, ref, a, b : S = ToCopy(heap, var[own]) /\ ref = var[own] /\ a = Val(heap, var) /\ b = Val(heap', var')
  OBVIOUS
<1>3. CASE \E x \in S : heap[x].kind = "tern"
  <2>1. mode' = "failed" /\ heap' = heap /\ var' = var
    BY <1>2, <1>3 DEF CopyOut
  <2> QED
    BY <1>1, <2>1 DEF V!vars
<1>4. CASE ~ \E x \in S : heap[x].kind = "tern"
  <2>1. PICK at \in [S -> Free] :
          /\ \A x, y \in S : at[x] = at[y] => x = y
          /\ heap' = copy_obj(heap, ref, at).heap
          /\ var' = [var EXCEPT ![g] = copy_obj(heap, ref, at).ref]
          /\ mode' = mode
    BY <1>2, <1>4 DEF CopyOut
  <2>2. PICK q, h2, vb : q = copy_obj(heap, ref, at).ref /\ h2 = copy_obj(heap, ref, at).heap /\ vb = var'
    OBVIOUS
  <2>3. Copying(heap, ref, S, at)
    BY <1>1, <1>2, <2>1, CopyOutCopying
  <2>4. q \in OBJ /\ value(h2, q) = value(heap, ref) /\ \A r : Usable(heap, r) => value(h2, r) = value(heap, r)
    BY <2>2, <2>3, CopiedValues
  <2>5. Typed(var) /\ \A other \in Var : var[other] # NONE => Usable(heap, var[other])
    <3>1. InUse(mode, var)
      BY <1>1 DEF InUse
    <3>2. Typed(var) /\ UsableIn(heap, var, Glob) /\ UsableIn(heap, var, Loc)
      BY <3>1 DEF IInv, StateInv, Lasting, Passing
    <3> QED
      BY <3>2 DEF UsableIn, Var
  <2>6. heap' = h2 /\ vb[g] = q /\ q # NONE /\ \A other \in Var : other # g => vb[other] = var[other]
    BY <1>1, <2>1, <2>2, <2>4, <2>5, Kinship DEF Typed
  <2>7. a[own] = value(heap, ref) /\ a[g] = NONE /\ b[g] = value(h2, q)
    BY <1>1, <1>2, <2>2, <2>6 DEF Val
  <2>8. a[own] # NONE
    <3>1. ref \in OBJ
      BY <1>1, <1>2, <2>5 DEF Typed
    <3> QED
      BY <2>7, <3>1, ValueIsSet
  <2>9. ASSUME NEW other \in Var, other # g
        PROVE  b[other] = a[other]
    <3>1. CASE var[other] = NONE
      BY <1>2, <2>2, <2>6, <2>9, <3>1 DEF Val
    <3>2. CASE var[other] # NONE
      <4>1. value(h2, var[other]) = value(heap, var[other])
        BY <2>4, <2>5, <3>2
      <4> QED
        BY <1>2, <2>2, <2>6, <2>9, <3>2, <4>1 DEF Val
    <3> QED
      BY <3>1, <3>2
  <2>10. b = [a EXCEPT ![g] = a[own]]
    <3>1. a = [other \in Var |-> a[other]] /\ b = [other \in Var |-> b[other]]
      BY <1>2 DEF Val
    <3> QED
      BY <1>1, <2>4, <2>7, <2>9, <3>1
  <2>11. V!Store(g, own)
    BY <1>1, <1>2, <2>1, <2>7, <2>8, <2>10 DEF V!Store, Val
  <2> QED
    BY <2>11 DEF V!Next
<1> QED
  BY <1>3, <1>4

\* A transaction is entered, or goes on.
LEMMA EnterStep ==
  ASSUME EnterTry \/ EnterCopy \/ RestoreTry
  PROVE  V!Next
<1>1. V!EnterTry \/ V!EnterCopy \/ V!RestoreTry
  BY DEF EnterTry, EnterCopy, RestoreTry, V!EnterTry, V!EnterCopy, V!RestoreTry
<1> QED
  BY <1>1 DEF V!Next

-----------------------------------------------------------------------------
(***************************************************************************)
(* The heap implements values.                                             *)
(***************************************************************************)
\* Every step of the program is a step of a program that computes with values.
LEMMA NextStep ==
  ASSUME IInv, Ordered(heap), AtomsApart, [Next]_vars, ~ TRY_EXTENDS_STD, ~ NESTED_APPEND
  PROVE  [V!Next]_V!vars
<1>1. IInv' /\ Ordered(heap')
  BY NextKeeps, NextOrder
<1>2. Evaluating => Computing
  BY DEF Evaluating, Computing
<1>3. ASSUME NEW own \in Loc, NEW kind \in BuiltKinds, NEW args \in Args, Build(own, kind, args)
      PROVE  V!Next
  <2>1. Evaluating
    BY <1>3 DEF Build, Assign
  <2> QED
    BY <1>1, <1>2, <1>3, <2>1, BuildStep
<1>4. ASSUME NEW own \in Loc, NEW other \in Var, NEW first \in 0 .. MAX_LENGTH, NEW len \in 0 .. MAX_LENGTH,
             Slice(own, other, first, len)
      PROVE  V!Next
  <2>1. Evaluating
    BY <1>4 DEF Slice, HoldsSequence
  <2> QED
    BY <1>1, <1>2, <1>4, <2>1, SliceStep
<1>5. ASSUME NEW own \in Loc, NEW left \in Var, NEW right \in Var, Concat(own, left, right)
      PROVE  V!Next
  <2>1. Evaluating
    BY <1>5 DEF Concat, HoldsSequence
  <2> QED
    BY <1>1, <1>2, <1>5, <2>1, ConcatStep
<1>6. ASSUME NEW own \in Loc, NEW other \in Var, NEW i \in 1 .. MAX_LENGTH, NEW arg \in Operand, Update(own, other, i, arg)
      PROVE  V!Next
  <2>1. Evaluating
    BY <1>6 DEF Update, HoldsSequence
  <2> QED
    BY <1>1, <1>2, <1>6, <2>1, UpdateStep
<1>7. ASSUME NEW own \in Loc, NEW other \in Var, NEW i \in 1 .. MAX_LENGTH, At(own, other, i)
      PROVE  V!Next
  <2>1. Evaluating
    BY <1>7 DEF At
  <2> QED
    BY <1>1, <1>2, <1>7, <2>1, AtStep
<1>8. ASSUME NEW own \in Loc, NEW other \in Var, Alias(own, other)
      PROVE  V!Next
  <2>1. Evaluating /\ var[other] # NONE /\ Assign(own, [heap |-> add_ref(heap, mode, var[other]), ref |-> var[other]])
    BY <1>8 DEF Alias, Assign
  <2> QED
    BY <1>2, <2>1, SameStep
<1>9. ASSUME NEW own \in Loc, NEW arg \in Operand, AppendTo(own, arg)
      PROVE  V!Next
  <2>1. Evaluating
    BY <1>9 DEF AppendTo
  <2> QED
    BY <1>1, <1>2, <1>9, <2>1, AppendStep
<1>10. ASSUME NEW own \in Loc, Drop(own)
       PROVE  V!Next
  <2>1. Evaluating
    BY <1>10 DEF Drop
  <2> QED
    BY <1>1, <1>2, <1>10, <2>1, DropStep
<1>11. ASSUME NEW own \in Loc, NEW g \in Glob, Store(g, own)
       PROVE  V!Next
  <2>1. Evaluating
    BY <1>11 DEF Store, Evaluating
  <2> QED
    BY <1>2, <1>11, <2>1, StoreStep
<1>12. ASSUME NEW own \in Loc, NEW g \in Glob, CopyOut(g, own)
       PROVE  [V!Next]_V!vars
  BY <1>12, CopyOutStep
<1>13. ASSUME NEW g \in Glob, Release(g)
       PROVE  V!Next
  BY <1>1, <1>13, ReleaseGlobalStep
<1>14. ASSUME EnterTry \/ EnterCopy \/ RestoreTry
       PROVE  V!Next
  BY <1>14, EnterStep
<1>15. ASSUME ReturnToNormal \/ SoftFail
       PROVE  V!Next
  <2>1. LeaveTransaction /\ mode \in {"try", "copying"}
    BY <1>15 DEF ReturnToNormal, SoftFail
  <2> QED
    BY <1>1, <2>1, LeaveStep
<1>16. ASSUME UNCHANGED vars
       PROVE  UNCHANGED V!vars
  BY <1>16 DEF vars, V!vars
<1>17. CASE Next
  BY <1>3, <1>4, <1>5, <1>6, <1>7, <1>8, <1>9, <1>10, <1>11, <1>12, <1>13, <1>14, <1>15, <1>17 DEF Next
<1> QED
  BY <1>16, <1>17

\* In the beginning no variable has a value.
LEMMA InitStep ==
  ASSUME Init
  PROVE  V!Init
<1>1. mode = "normal" /\ \A own \in Var : var[own] = NONE
  BY DEF Init
<1> QED
  BY <1>1 DEF V!Init, V!Var, Var

\* What a program computes with the references of mem.cpp, mem-utils.cpp,
\* instrs.cpp and mem-copying.cpp it could compute with values: no block that is
\* shared, extended, freed or copied changes what a variable stands for.
THEOREM Implements == AtomsApart /\ ~ TRY_EXTENDS_STD /\ ~ NESTED_APPEND /\ Spec => ImplementsValues
<1>1. Init => V!Init
  BY InitStep
<1>2. IInv /\ Ordered(heap) /\ AtomsApart /\ ~ TRY_EXTENDS_STD /\ ~ NESTED_APPEND /\ [Next]_vars => [V!Next]_V!vars
  BY NextStep
<1>3. CASE ~ AtomsApart \/ TRY_EXTENDS_STD \/ NESTED_APPEND
  BY <1>3
<1>4. CASE AtomsApart /\ ~ TRY_EXTENDS_STD /\ ~ NESTED_APPEND
  <2>1. IInv /\ Ordered(heap) /\ [Next]_vars => [V!Next]_V!vars
    BY <1>2, <1>4
  <2>2. Spec => []IInv
    BY <1>4, Invariance
  <2>3. Spec => []Ordered(heap)
    BY <1>4, NoCircles
  <2> QED
    BY <1>1, <2>1, <2>2, <2>3, PTL DEF Spec, ImplementsValues, V!Spec
<1> QED
  BY <1>3, <1>4
=============================================================================
