----------------------------- MODULE TableLemmas -----------------------------
(***************************************************************************)
(* What the tables' functions keep of the tables and of the store, and     *)
(* what they return, for rows of any length up to three.                   *)
(***************************************************************************)
EXTENDS UnaryTable, BinaryTable, TernaryTable, ValueStoreLemmas

-----------------------------------------------------------------------------
(***************************************************************************)
(* Counting the references of rows.                                        *)
(***************************************************************************)

\* The references to a surrogate, each the row it is in and its column.
UsesOf(rows, i) == {p \in rows \X (1 .. 3) : p[2] \in DOMAIN p[1] /\ p[1][p[2]] = i}

\* They are finitely many.
LEMMA UsesNat ==
  ASSUME NEW rows, IsFiniteSet(rows), NEW i
  PROVE  IsFiniteSet(UsesOf(rows, i)) /\ Uses(rows, i) = Cardinality(UsesOf(rows, i)) /\ Uses(rows, i) \in Nat
<1>1. IsFiniteSet(1 .. 3)
  BY IntervalSize
<1>2. IsFiniteSet(rows \X (1 .. 3))
  BY <1>1, FS_Product
<1>3. UsesOf(rows, i) \in SUBSET (rows \X (1 .. 3))
  BY DEF UsesOf
<1>4. IsFiniteSet(UsesOf(rows, i))
  BY <1>2, <1>3, FS_Subset
<1> QED
  BY <1>4, FS_CardinalityType DEF Uses, UsesOf

\* The references of two sets of rows that are apart add up.
LEMMA UsesUnion ==
  ASSUME NEW R, IsFiniteSet(R), NEW S, IsFiniteSet(S), R \cap S = {}, NEW i
  PROVE  Uses(R \cup S, i) = Uses(R, i) + Uses(S, i)
<1>1. UsesOf(R \cup S, i) = UsesOf(R, i) \cup UsesOf(S, i) /\ UsesOf(R, i) \cap UsesOf(S, i) = {}
  BY DEF UsesOf
<1>2. /\ IsFiniteSet(UsesOf(R, i)) /\ IsFiniteSet(UsesOf(S, i))
      /\ Uses(R, i) = Cardinality(UsesOf(R, i)) /\ Uses(S, i) = Cardinality(UsesOf(S, i))
      /\ Uses(R, i) \in Nat /\ Uses(S, i) \in Nat
  BY UsesNat
<1>3. Cardinality(UsesOf(R, i) \cup UsesOf(S, i)) =
        Cardinality(UsesOf(R, i)) + Cardinality(UsesOf(S, i)) - Cardinality(UsesOf(R, i) \cap UsesOf(S, i))
  BY <1>2, FS_Union
<1>4. Uses(R \cup S, i) = Cardinality(UsesOf(R \cup S, i))
  BY DEF Uses, UsesOf
<1>5. Uses(R \cup S, i) = Uses(R, i) + Uses(S, i) - 0
  BY <1>1, <1>2, <1>3, <1>4, FS_EmptySet
<1> QED
  BY <1>2, <1>5

\* Fewer rows have fewer references.
LEMMA UsesSubset ==
  ASSUME NEW S, IsFiniteSet(S), NEW R \in SUBSET S, NEW i
  PROVE  Uses(R, i) <= Uses(S, i)
<1>1. UsesOf(R, i) \in SUBSET UsesOf(S, i)
  BY DEF UsesOf
<1>2. IsFiniteSet(UsesOf(S, i))
  BY UsesNat
<1>3. Cardinality(UsesOf(R, i)) <= Cardinality(UsesOf(S, i))
  BY <1>1, <1>2, FS_Subset
<1> QED
  BY <1>3 DEF Uses, UsesOf

\* No row, no reference; and none to what is in no row.
LEMMA UsesNone ==
  ASSUME NEW rows, NEW i, \A row \in rows : \A c \in DOMAIN row : row[c] # i
  PROVE  Uses(rows, i) = 0
<1>1. UsesOf(rows, i) = {}
  BY DEF UsesOf
<1> QED
  BY <1>1, FS_EmptySet DEF Uses, UsesOf

\* What is in a row is referred to.
LEMMA UsesSome ==
  ASSUME NEW rows, IsFiniteSet(rows), NEW row \in rows, NEW c \in DOMAIN row, c \in 1 .. 3
  PROVE  Uses(rows, row[c]) > 0
<1>1. <<row, c>> \in UsesOf(rows, row[c])
  BY DEF UsesOf
<1>2. UsesOf(rows, row[c]) # {}
  BY <1>1
<1>3. IsFiniteSet(UsesOf(rows, row[c])) /\ Uses(rows, row[c]) = Cardinality(UsesOf(rows, row[c])) /\ Uses(rows, row[c]) \in Nat
  BY UsesNat
<1>4. Cardinality(UsesOf(rows, row[c])) # 0
  BY <1>2, <1>3, FS_EmptySet
<1> QED
  BY <1>3, <1>4

-----------------------------------------------------------------------------
(***************************************************************************)
(* Counting the rows that are added.                                       *)
(***************************************************************************)

\* Counting any number of references to stored values.
LEMMA AddCounts ==
  ASSUME NEW store, NEW held, NEW freeList, StoreOK(store, held, freeList),
         NEW n \in [Slots(store.block) -> Nat],
         \A i \in Slots(store.block) : n[i] > 0 => i \in Occupied(store.block),
         NEW store2,
         store2 = [store EXCEPT !.ref_counts = [i \in Slots(store.block) |-> @[i] + n[i]]],
         NEW held2, held2 = [i \in Slots(store.block) |-> held[i] + n[i]]
  PROVE  StoreOK(store2, held2, freeList) /\ store2.block = store.block
<1> DEFINE c == store.block.capacity
<1>1. /\ c \in Nat /\ store \in Store(c) /\ Slots(store.block) = 0 .. c - 1
      /\ held \in [0 .. c - 1 -> Nat] /\ n \in [0 .. c - 1 -> Nat]
      /\ freeList \in Seq(0 .. c - 1)
  BY DEF StoreOK, StoreTyped, Slots
<1>2. \A i \in 0 .. c - 1 : n[i] > 0 => ~ IsBlank(store.block, i)
  BY <1>1 DEF Occupied
<1>3. PICK counts : counts = [i \in 0 .. c - 1 |-> store.ref_counts[i] + n[i]]
  OBVIOUS
<1>4. store.ref_counts \in [0 .. c - 1 -> Nat]
  <2> HIDE DEF c
  <2> QED
    BY <1>1 DEF Store
<1>5. counts \in [0 .. c - 1 -> Nat] /\ \A i \in 0 .. c - 1 : counts[i] = store.ref_counts[i] + n[i]
  <2> HIDE DEF c
  <2>1. \A i \in 0 .. c - 1 : store.ref_counts[i] + n[i] \in Nat
    BY <1>1, <1>4
  <2> QED
    BY <1>3, <2>1
<1>6. store2 = [store EXCEPT !.ref_counts = counts]
  BY <1>1, <1>3
<1>7. /\ store2.block = store.block /\ store2.usage = store.usage
      /\ store2.first_free = store.first_free /\ store2.ref_counts = counts
      /\ store2 \in Store(c)
  <2> HIDE DEF c
  <2> QED
    BY <1>1, <1>5, <1>6 DEF Store
<1>8. held2 \in [0 .. c - 1 -> Nat] /\ \A i \in 0 .. c - 1 : held2[i] = held[i] + n[i]
  <2>1. \A i \in 0 .. c - 1 : held[i] + n[i] \in Nat
    BY <1>1
  <2> QED
    BY <1>1, <2>1
<1>9. StoreTyped(store2, held2, freeList)
  BY <1>1, <1>7, <1>8 DEF StoreTyped
<1>10. FreeListed(store2, freeList)
  <2>1. \A k : FreeAt(store2, freeList, k) = FreeAt(store, freeList, k)
    BY <1>7 DEF FreeAt
  <2> QED
    BY <1>7, <2>1 DEF StoreOK, FreeListed
<1>11. RefsCovered(store2, held2)
  <2> SUFFICES ASSUME NEW i \in 0 .. c - 1
               PROVE  /\ held2[i] > 0 => ~ IsBlank(store.block, i)
                      /\ ~ IsBlank(store.block, i) => held2[i] <= counts[i]
    BY <1>1, <1>7 DEF RefsCovered
  <2>1. /\ held[i] > 0 => ~ IsBlank(store.block, i)
        /\ ~ IsBlank(store.block, i) => held[i] <= store.ref_counts[i]
    BY <1>1 DEF StoreOK, RefsCovered
  <2>2. PICK h \in Nat, m \in Nat, r \in Nat : h = held[i] /\ m = n[i] /\ r = store.ref_counts[i]
    BY <1>1, <1>4
  <2>3. held2[i] = h + m /\ counts[i] = r + m
    BY <1>5, <1>8, <2>2
  <2>4. m > 0 => ~ IsBlank(store.block, i)
    BY <1>2, <2>2
  <2> QED
    BY <2>1, <2>2, <2>3, <2>4
<1> QED
  BY <1>7, <1>9, <1>10, <1>11 DEF StoreOK

\* Rows of stored values are counted, column by column.
LEMMA AddRefsKeeps ==
  ASSUME NEW store, NEW held, NEW freeList, StoreOK(store, held, freeList),
         NEW added, IsFiniteSet(added),
         \A row \in added : \A c \in DOMAIN row : row[c] \in Occupied(store.block),
         NEW store2, store2 = AddRefs(store, added),
         NEW held2, held2 = [i \in Slots(store.block) |-> held[i] + Uses(added, i)]
  PROVE  StoreOK(store2, held2, freeList) /\ store2.block = store.block
<1>1. PICK n : n = [i \in Slots(store.block) |-> Uses(added, i)]
  OBVIOUS
<1>2. n \in [Slots(store.block) -> Nat]
  BY <1>1, UsesNat
<1>3. ASSUME NEW i \in Slots(store.block), n[i] > 0 PROVE i \in Occupied(store.block)
  <2>1. Uses(added, i) # 0
    BY <1>1, <1>3
  <2> QED
    BY <2>1, UsesNone
<1>4. DOMAIN store.ref_counts = Slots(store.block)
  <2>1. store.block.capacity \in Nat /\ store \in Store(store.block.capacity)
    BY DEF StoreOK, StoreTyped
  <2> QED
    BY <2>1 DEF Store, Slots
<1>5. store2 = [store EXCEPT !.ref_counts = [i \in Slots(store.block) |-> @[i] + n[i]]]
  BY <1>1, <1>4 DEF AddRefs
<1>6. held2 = [i \in Slots(store.block) |-> held[i] + n[i]]
  BY <1>1
<1> QED
  BY <1>2, <1>3, <1>5, <1>6, AddCounts

-----------------------------------------------------------------------------
(***************************************************************************)
(* Releasing the rows that are dropped.                                    *)
(***************************************************************************)

\* A store that keeps every surrogate that is still referred to.
Kept(store, store2, held2) ==
  /\ \E freeList : StoreOK(store2, held2, freeList)
  /\ StoreKeyed(store2)
  /\ store2.block.capacity = store.block.capacity
  /\ \A i \in Slots(store.block) : held2[i] > 0 => store2.block.slots[i] = store.block.slots[i]

\* Releasing one reference keeps the others.
LEMMA ReleaseOne ==
  ASSUME NEW store, NEW s, NEW held, Kept(store, s, held),
         NEW surr \in Slots(store.block), held[surr] > 0,
         NEW s2, s2 = value_store_release(s, surr),
         NEW held2, held2 = [held EXCEPT ![surr] = @ - 1]
  PROVE  Kept(store, s2, held2)
<1>1. PICK freeList : StoreOK(s, held, freeList)
  BY DEF Kept
<1>2. Slots(s.block) = Slots(store.block) /\ surr \in Slots(s.block) /\ StoreKeyed(s)
  BY DEF Kept, Slots
<1>3. PICK freeList2 : freeList2 = FreeWith(s2, freeList, surr)
  OBVIOUS
<1>4. StoreOK(s2, held2, freeList2)
  BY <1>1, <1>2, <1>3, ReleaseKeeps
<1>5. StoreKeyed(s2)
  BY <1>1, <1>2, ReleaseKeyed
<1>6. /\ s2.block.capacity = s.block.capacity
      /\ \A i \in Slots(s.block) : i # surr \/ held[surr] > 1 => s2.block.slots[i] = s.block.slots[i]
  BY <1>1, <1>2, ReleaseSlots
<1>7. held \in [Slots(s.block) -> Nat]
  BY <1>1 DEF StoreOK, StoreTyped
<1>8. ASSUME NEW i \in Slots(store.block), held2[i] > 0
      PROVE  s2.block.slots[i] = store.block.slots[i]
  <2>1. CASE i = surr
    <3>1. held2[i] = held[surr] - 1 /\ held[surr] \in Nat
      BY <1>2, <1>7, <2>1
    <3>2. held[surr] > 1
      BY <1>8, <3>1
    <3>3. s2.block.slots[i] = s.block.slots[i]
      BY <1>2, <1>6, <3>2
    <3> QED
      BY <2>1, <3>3 DEF Kept
  <2>2. CASE i # surr
    <3>1. held2[i] = held[i]
      BY <1>2, <1>7, <2>2
    <3>2. s2.block.slots[i] = s.block.slots[i]
      BY <1>2, <1>6, <2>2
    <3> QED
      BY <1>8, <3>1, <3>2 DEF Kept
  <2> QED
    BY <2>1, <2>2
<1> QED
  BY <1>4, <1>5, <1>6, <1>8 DEF Kept

\* Keeping is transitive, as references only become fewer.
LEMMA KeptTwice ==
  ASSUME NEW store, NEW s, NEW held, Kept(store, s, held),
         NEW s2, NEW held2, Kept(s, s2, held2),
         \A i \in Slots(store.block) : held2[i] > 0 => held[i] > 0
  PROVE  Kept(store, s2, held2)
<1>1. Slots(s.block) = Slots(store.block)
  BY DEF Kept, Slots
<1> QED
  BY <1>1 DEF Kept

\* The loop that releases a row exists: there is a function that has a store
\* for each number of columns released.
LEMMA ReleaseRowSteps ==
  ASSUME NEW store, NEW row, Len(row) \in Nat
  PROVE  \E r : /\ r[0] = store /\ ReleaseRow(store, row) = r[Len(row)]
                /\ \A k \in Nat : k < Len(row) => r[k + 1] = value_store_release(r[k], row[k + 1])
<1> DEFINE Loop(r, n) == r = [k \in 0 .. n |-> IF k = 0 THEN store ELSE value_store_release(r[k - 1], row[k])]
           N == {n \in Nat : \E r : Loop(r, n)}
           loop == CHOOSE r : Loop(r, Len(row))
<1>1. 0 \in N
  <2>1. Loop([k \in 0 .. 0 |-> store], 0)
    OBVIOUS
  <2> HIDE DEF Loop
  <2> QED
    BY <2>1
<1>2. ASSUME NEW n \in N, n \in Nat PROVE n + 1 \in N
  <2>1. PICK r : Loop(r, n)
    BY <1>2
  <2> DEFINE q == [k \in 0 .. n + 1 |-> IF k = n + 1 THEN value_store_release(r[n], row[n + 1]) ELSE r[k]]
  <2>2. \A k \in 0 .. n : r[k] = IF k = 0 THEN store ELSE value_store_release(r[k - 1], row[k])
    BY <2>1
  <2>3. ASSUME NEW k \in 0 .. n + 1
        PROVE  q[k] = IF k = 0 THEN store ELSE value_store_release(q[k - 1], row[k])
    <3>1. CASE k = n + 1
      <4>1. k - 1 = n /\ k # 0 /\ n \in 0 .. n + 1 /\ n # n + 1
        BY <1>2, <3>1
      <4>2. q[k] = value_store_release(r[n], row[n + 1]) /\ q[n] = r[n]
        BY <3>1, <4>1
      <4> QED
        BY <3>1, <4>1, <4>2
    <3>2. CASE k # n + 1
      <4>1. k \in 0 .. n /\ q[k] = r[k]
        BY <1>2, <3>2
      <4>2. CASE k = 0
        BY <2>2, <4>1, <4>2
      <4>3. CASE k # 0
        <5>1. k - 1 \in 0 .. n + 1 /\ k - 1 # n + 1
          BY <1>2, <4>1, <4>3
        <5>2. q[k - 1] = r[k - 1]
          BY <5>1
        <5> QED
          BY <2>2, <4>1, <4>3, <5>2
      <4> QED
        BY <4>2, <4>3
    <3> QED
      BY <3>1, <3>2
  <2>4. Loop(q, n + 1)
    <3>1. q = [k \in 0 .. n + 1 |-> q[k]]
      OBVIOUS
    <3> HIDE DEF q
    <3> QED
      BY <2>3, <3>1
  <2> HIDE DEF Loop, q
  <2> QED
    BY <1>2, <2>4
<1>3. \E r : Loop(r, Len(row))
  <2>1. Nat \subseteq N
    <3> HIDE DEF N
    <3> QED
      BY <1>1, <1>2, SetInduction
  <2> QED
    BY <2>1
<1>4. ReleaseRow(store, row) = loop[Len(row)]
  BY DEF ReleaseRow
<1>5. Loop(loop, Len(row))
  <2> HIDE DEF Loop
  <2> QED
    BY <1>3
<1>6. \A k \in 0 .. Len(row) : loop[k] = IF k = 0 THEN store ELSE value_store_release(loop[k - 1], row[k])
  <2> HIDE DEF loop
  <2> QED
    BY <1>5
<1> HIDE DEF loop, Loop
<1>7. ASSUME NEW k \in Nat, k < Len(row) PROVE loop[k + 1] = value_store_release(loop[k], row[k + 1])
  <2>1. k + 1 \in 0 .. Len(row) /\ k + 1 # 0 /\ (k + 1) - 1 = k
    BY <1>7
  <2> QED
    BY <1>6, <2>1
<1> QED
  BY <1>4, <1>6, <1>7

\* A row of surrogates.
RowLike(row, S) == \E n \in 1 .. 3 : row \in [1 .. n -> S]

\* The references of the first columns of a row.
FirstUses(row, k, i) == {p \in {row} \X (1 .. k) : p[1][p[2]] = i}

\* They become one more, for the surrogate of the column.
LEMMA FirstUsesStep ==
  ASSUME NEW row, NEW k \in Nat, NEW i
  PROVE  /\ Cardinality(FirstUses(row, k, i)) \in Nat
         /\ Cardinality(FirstUses(row, k + 1, i)) =
              Cardinality(FirstUses(row, k, i)) + IF row[k + 1] = i THEN 1 ELSE 0
<1>1. IsFiniteSet(FirstUses(row, k, i))
  <2>1. IsFiniteSet({row} \X (1 .. k))
    BY IntervalSize, FS_Singleton, FS_Product
  <2>2. FirstUses(row, k, i) \in SUBSET ({row} \X (1 .. k))
    BY DEF FirstUses
  <2> QED
    BY <2>1, <2>2, FS_Subset
<1>2. Cardinality(FirstUses(row, k, i)) \in Nat
  BY <1>1, FS_CardinalityType
<1>3. CASE row[k + 1] = i
  <2>1. FirstUses(row, k + 1, i) = FirstUses(row, k, i) \cup {<<row, k + 1>>}
    BY <1>3 DEF FirstUses
  <2>2. <<row, k + 1>> \notin FirstUses(row, k, i)
    BY DEF FirstUses
  <2>3. Cardinality(FirstUses(row, k, i) \cup {<<row, k + 1>>}) = Cardinality(FirstUses(row, k, i)) + 1
    BY <1>1, <2>2, FS_AddElement
  <2> QED
    BY <1>2, <1>3, <2>1, <2>3
<1>4. CASE row[k + 1] # i
  <2>1. FirstUses(row, k + 1, i) = FirstUses(row, k, i)
    BY <1>4 DEF FirstUses
  <2> QED
    BY <1>2, <1>4, <2>1
<1> QED
  BY <1>2, <1>3, <1>4

\* All the columns of a row are all its references.
LEMMA RowUses ==
  ASSUME NEW S, NEW row, RowLike(row, S), NEW i
  PROVE  /\ Len(row) \in 1 .. 3 /\ \A c \in 1 .. Len(row) : row[c] \in S
         /\ Cardinality(FirstUses(row, 0, i)) = 0
         /\ Cardinality(FirstUses(row, Len(row), i)) = Uses({row}, i)
<1>1. PICK n \in 1 .. 3 : row \in [1 .. n -> S]
  BY DEF RowLike
<1>2. Len(row) = n /\ DOMAIN row = 1 .. n
  <2>1. row \in Seq(S) /\ DOMAIN row = 1 .. n /\ n \in Nat
    BY <1>1, SeqDef
  <2> QED
    BY <2>1, LenProperties
<1>3. FirstUses(row, 0, i) = {}
  BY DEF FirstUses
<1>4. FirstUses(row, n, i) = UsesOf({row}, i)
  BY <1>1, <1>2 DEF FirstUses, UsesOf
<1>5. \A c \in 1 .. n : row[c] \in S
  BY <1>1
<1> QED
  BY <1>1, <1>2, <1>3, <1>4, <1>5, FS_EmptySet DEF Uses, UsesOf

\* Releasing a row releases each of its references.
LEMMA ReleaseRowKeeps ==
  ASSUME NEW store, NEW held, Kept(store, store, held),
         NEW row, RowLike(row, Slots(store.block)),
         \A i \in Slots(store.block) : held[i] >= Uses({row}, i),
         NEW held2, held2 = [i \in Slots(store.block) |-> held[i] - Uses({row}, i)]
  PROVE  Kept(store, ReleaseRow(store, row), held2)
<1> DEFINE n == Len(row)
           S == Slots(store.block)
           Used(k, i) == Cardinality(FirstUses(row, k, i))
           Left(k) == [i \in S |-> held[i] - Used(k, i)]
<1>1. n \in 1 .. 3 /\ \A c \in 1 .. n : row[c] \in S
  BY RowUses
<1>2. \A i : Used(0, i) = 0 /\ Used(n, i) = Uses({row}, i)
  BY RowUses
<1>3. \A k \in Nat : \A i : Used(k, i) \in Nat /\ Used(k + 1, i) = Used(k, i) + IF row[k + 1] = i THEN 1 ELSE 0
  BY FirstUsesStep
<1>4. PICK r : /\ r[0] = store /\ ReleaseRow(store, row) = r[n]
               /\ \A k \in Nat : k < n => r[k + 1] = value_store_release(r[k], row[k + 1])
  BY <1>1, ReleaseRowSteps
<1>5. held \in [S -> Nat]
  BY DEF Kept, StoreOK, StoreTyped
<1>6. \A k \in Nat : k <= n => \A i : Used(k, i) <= Used(n, i)
  <2> SUFFICES ASSUME NEW k \in Nat, k <= n, NEW i PROVE Used(k, i) <= Used(n, i)
    OBVIOUS
  <2>1. FirstUses(row, k, i) \in SUBSET FirstUses(row, n, i)
    <3>1. \A c \in 1 .. k : c \in 1 .. n
      BY <1>1
    <3> HIDE DEF n
    <3> QED
      BY <3>1 DEF FirstUses
  <2>2. IsFiniteSet(FirstUses(row, n, i))
    <3>1. n \in Nat
      BY <1>1
    <3>2. IsFiniteSet({row} \X (1 .. n))
      BY <3>1, IntervalSize, FS_Singleton, FS_Product
    <3>3. FirstUses(row, n, i) \in SUBSET ({row} \X (1 .. n))
      BY DEF FirstUses
    <3> QED
      BY <3>2, <3>3, FS_Subset
  <2> QED
    BY <2>1, <2>2, FS_Subset
<1>7. \A k \in Nat : k <= n => \A i \in S : held[i] - Used(k, i) \in Nat
  <2> SUFFICES ASSUME NEW k \in Nat, k <= n, NEW i \in S PROVE held[i] - Used(k, i) \in Nat
    OBVIOUS
  <2>1. PICK h \in Nat, u \in Nat, v \in Nat : h = held[i] /\ u = Used(k, i) /\ v = Used(n, i)
    <3>1. n \in Nat
      BY <1>1
    <3> HIDE DEF Used, n
    <3> QED
      BY <1>3, <1>5, <3>1
  <2>2. u <= v /\ h >= v
    BY <1>2, <1>6, <2>1
  <2>3. h - u \in Nat
    BY <2>2
  <2> QED
    BY <2>1, <2>3
<1> DEFINE N == {k \in Nat : k <= n => Kept(store, r[k], Left(k))}
<1>8. 0 \in N
  <2>1. Left(0) = held
    <3>1. \A i \in S : held[i] - Used(0, i) = held[i]
      <4> HIDE DEF Used
      <4> QED
        BY <1>2, <1>5
    <3>2. held = [i \in S |-> held[i]]
      BY <1>5
    <3> HIDE DEF Used, S
    <3> QED
      BY <3>1, <3>2
  <2> QED
    BY <1>4, <2>1
<1>9. ASSUME NEW k \in N, k \in Nat PROVE k + 1 \in N
  <2> SUFFICES ASSUME k + 1 <= n PROVE Kept(store, r[k + 1], Left(k + 1))
    BY <1>9
  <2>1. PICK surr \in S : surr = row[k + 1]
    <3>1. k + 1 \in 1 .. n
      BY <1>1, <1>9
    <3> QED
      BY <1>1, <3>1
  <2>2. Kept(store, r[k], Left(k)) /\ k < n /\ k <= n
    BY <1>1, <1>9
  <2>3. \A i \in S : Left(k)[i] = held[i] - Used(k, i) /\ Left(k)[i] \in Nat
    <3> HIDE DEF Used, S
    <3> QED
      BY <1>7, <1>9, <2>2
  <2>4. \A i \in S : Left(k + 1)[i] = held[i] - Used(k + 1, i) /\ Left(k + 1)[i] \in Nat
    <3> HIDE DEF Used, S
    <3> QED
      BY <1>7, <1>9
  <2>5. ASSUME NEW i \in S
        PROVE  Left(k + 1)[i] = Left(k)[i] - IF surr = i THEN 1 ELSE 0
    <3>1. PICK h \in Nat, u \in Nat : h = held[i] /\ u = Used(k, i)
      <4> HIDE DEF Used
      <4> QED
        BY <1>3, <1>5, <1>9
    <3>2. Used(k + 1, i) = u + IF surr = i THEN 1 ELSE 0
      <4> HIDE DEF Used
      <4> QED
        BY <1>3, <1>9, <2>1, <3>1
    <3> HIDE DEF Used, Left
    <3> QED
      BY <2>3, <2>4, <3>1, <3>2
  <2>6. Left(k)[surr] > 0
    <3>1. Left(k + 1)[surr] = Left(k)[surr] - 1 /\ Left(k + 1)[surr] \in Nat /\ Left(k)[surr] \in Nat
      <4> HIDE DEF Left
      <4> QED
        BY <2>3, <2>4, <2>5
    <3> HIDE DEF Left
    <3> QED
      BY <3>1
  <2>7. Left(k + 1) = [Left(k) EXCEPT ![surr] = @ - 1]
    <3>1. Left(k + 1) = [i \in S |-> Left(k + 1)[i]] /\ Left(k) = [i \in S |-> Left(k)[i]]
      OBVIOUS
    <3> HIDE DEF Left, S
    <3>2. \A i \in S : Left(k + 1)[i] = [Left(k) EXCEPT ![surr] = @ - 1][i]
      <4> TAKE i \in S
      <4>1. CASE i = surr
        BY <2>5, <3>1, <4>1
      <4>2. CASE i # surr
        <5>1. Left(k + 1)[i] = Left(k)[i] - 0 /\ Left(k)[i] \in Nat
          BY <2>3, <2>5, <4>2
        <5> QED
          BY <3>1, <4>2, <5>1
      <4> QED
        BY <4>1, <4>2
    <3> QED
      BY <3>1, <3>2
  <2>8. r[k + 1] = value_store_release(r[k], surr)
    BY <1>4, <1>9, <2>1, <2>2
  <2> HIDE DEF Left
  <2> QED
    BY <2>2, <2>6, <2>7, <2>8, ReleaseOne
<1>10. n \in N
  <2>1. Nat \subseteq N
    <3> HIDE DEF N
    <3> QED
      BY <1>8, <1>9, SetInduction
  <2> QED
    BY <1>1, <2>1
<1>11. Kept(store, r[n], Left(n))
  BY <1>1, <1>10
<1>12. Left(n) = held2
  <2> HIDE DEF Used, n
  <2> QED
    BY <1>2
<1> QED
  BY <1>4, <1>11, <1>12

\* So does the loop that releases the rows.
LEMMA ReleaseRowsSteps ==
  ASSUME NEW store, NEW deletes, Len(deletes) \in Nat
  PROVE  \E r : /\ r[0] = store /\ ReleaseRows(store, deletes) = r[Len(deletes)]
                /\ \A k \in Nat : k < Len(deletes) => r[k + 1] = ReleaseRow(r[k], deletes[k + 1])
<1> DEFINE Loop(r, n) == r = [k \in 0 .. n |-> IF k = 0 THEN store ELSE ReleaseRow(r[k - 1], deletes[k])]
           N == {n \in Nat : \E r : Loop(r, n)}
           loop == CHOOSE r : Loop(r, Len(deletes))
<1>1. 0 \in N
  <2>1. Loop([k \in 0 .. 0 |-> store], 0)
    OBVIOUS
  <2> HIDE DEF Loop
  <2> QED
    BY <2>1
<1>2. ASSUME NEW n \in N, n \in Nat PROVE n + 1 \in N
  <2>1. PICK r : Loop(r, n)
    BY <1>2
  <2> DEFINE q == [k \in 0 .. n + 1 |-> IF k = n + 1 THEN ReleaseRow(r[n], deletes[n + 1]) ELSE r[k]]
  <2>2. \A k \in 0 .. n : r[k] = IF k = 0 THEN store ELSE ReleaseRow(r[k - 1], deletes[k])
    BY <2>1
  <2>3. ASSUME NEW k \in 0 .. n + 1
        PROVE  q[k] = IF k = 0 THEN store ELSE ReleaseRow(q[k - 1], deletes[k])
    <3>1. CASE k = n + 1
      <4>1. k - 1 = n /\ k # 0 /\ n \in 0 .. n + 1 /\ n # n + 1
        BY <1>2, <3>1
      <4>2. q[k] = ReleaseRow(r[n], deletes[n + 1]) /\ q[n] = r[n]
        BY <3>1, <4>1
      <4> QED
        BY <3>1, <4>1, <4>2
    <3>2. CASE k # n + 1
      <4>1. k \in 0 .. n /\ q[k] = r[k]
        BY <1>2, <3>2
      <4>2. CASE k = 0
        BY <2>2, <4>1, <4>2
      <4>3. CASE k # 0
        <5>1. k - 1 \in 0 .. n + 1 /\ k - 1 # n + 1
          BY <1>2, <4>1, <4>3
        <5>2. q[k - 1] = r[k - 1]
          BY <5>1
        <5> QED
          BY <2>2, <4>1, <4>3, <5>2
      <4> QED
        BY <4>2, <4>3
    <3> QED
      BY <3>1, <3>2
  <2>4. Loop(q, n + 1)
    <3>1. q = [k \in 0 .. n + 1 |-> q[k]]
      OBVIOUS
    <3> HIDE DEF q
    <3> QED
      BY <2>3, <3>1
  <2> HIDE DEF Loop, q
  <2> QED
    BY <1>2, <2>4
<1>3. \E r : Loop(r, Len(deletes))
  <2>1. Nat \subseteq N
    <3> HIDE DEF N
    <3> QED
      BY <1>1, <1>2, SetInduction
  <2> QED
    BY <2>1
<1>4. ReleaseRows(store, deletes) = loop[Len(deletes)]
  BY DEF ReleaseRows
<1>5. Loop(loop, Len(deletes))
  <2> HIDE DEF Loop
  <2> QED
    BY <1>3
<1>6. \A k \in 0 .. Len(deletes) : loop[k] = IF k = 0 THEN store ELSE ReleaseRow(loop[k - 1], deletes[k])
  <2> HIDE DEF loop
  <2> QED
    BY <1>5
<1> HIDE DEF loop, Loop
<1>7. ASSUME NEW k \in Nat, k < Len(deletes) PROVE loop[k + 1] = ReleaseRow(loop[k], deletes[k + 1])
  <2>1. k + 1 \in 0 .. Len(deletes) /\ k + 1 # 0 /\ (k + 1) - 1 = k
    BY <1>7
  <2> QED
    BY <1>6, <2>1
<1> QED
  BY <1>4, <1>6, <1>7

\* Staged deletes once they are marked: rows of the table, none of them twice.
Deletable(deletes, S) ==
  /\ Len(deletes) \in Nat /\ DOMAIN deletes = 1 .. Len(deletes)
  /\ \A k \in DOMAIN deletes : deletes[k] = ERASED \/ RowLike(deletes[k], S)
  /\ \A j, k \in DOMAIN deletes : deletes[j] = deletes[k] /\ deletes[j] # ERASED => j = k

\* The rows among the first k deletes.
FirstRows(deletes, k) == {deletes[j] : j \in 1 .. k} \ {ERASED}

\* They are finitely many, and one more with each delete that is not erased.
LEMMA FirstRowsFacts ==
  ASSUME NEW S, NEW deletes, Deletable(deletes, S)
  PROVE  /\ FirstRows(deletes, 0) = {}
         /\ FirstRows(deletes, Len(deletes)) = Range(deletes) \ {ERASED}
         /\ IsFiniteSet(Range(deletes) \ {ERASED})
         /\ \A k \in Nat : k < Len(deletes) =>
              /\ FirstRows(deletes, k) \in SUBSET FirstRows(deletes, Len(deletes))
              /\ FirstRows(deletes, k + 1) \in SUBSET FirstRows(deletes, Len(deletes))
              /\ deletes[k + 1] = ERASED => FirstRows(deletes, k + 1) = FirstRows(deletes, k)
              /\ deletes[k + 1] # ERASED =>
                   /\ FirstRows(deletes, k + 1) = FirstRows(deletes, k) \cup {deletes[k + 1]}
                   /\ FirstRows(deletes, k) \cap {deletes[k + 1]} = {}
                   /\ RowLike(deletes[k + 1], S)
<1> DEFINE m == Len(deletes)
<1>1. /\ m \in Nat /\ DOMAIN deletes = 1 .. m
      /\ \A k \in 1 .. m : deletes[k] = ERASED \/ RowLike(deletes[k], S)
      /\ \A j, k \in 1 .. m : deletes[j] = deletes[k] /\ deletes[j] # ERASED => j = k
  BY DEF Deletable
<1>2. FirstRows(deletes, 0) = {}
  BY DEF FirstRows
<1>3. FirstRows(deletes, m) = Range(deletes) \ {ERASED}
  BY <1>1 DEF FirstRows, Range
<1>4. IsFiniteSet(Range(deletes) \ {ERASED})
  <2>1. [j \in 1 .. m |-> deletes[j]] \in Surjection(1 .. m, Range(deletes))
    BY <1>1 DEF Surjection, Range
  <2>2. IsFiniteSet(1 .. m)
    BY <1>1, IntervalSize
  <2>3. IsFiniteSet(Range(deletes))
    <3> HIDE DEF m
    <3> QED
      BY <2>1, <2>2, FS_Surjection
  <2> QED
    BY <2>3, FS_Subset
<1>5. ASSUME NEW k \in Nat, k < m
      PROVE  /\ FirstRows(deletes, k) \in SUBSET FirstRows(deletes, m)
             /\ FirstRows(deletes, k + 1) \in SUBSET FirstRows(deletes, m)
             /\ deletes[k + 1] = ERASED => FirstRows(deletes, k + 1) = FirstRows(deletes, k)
             /\ deletes[k + 1] # ERASED =>
                  /\ FirstRows(deletes, k + 1) = FirstRows(deletes, k) \cup {deletes[k + 1]}
                  /\ FirstRows(deletes, k) \cap {deletes[k + 1]} = {}
                  /\ RowLike(deletes[k + 1], S)
  <2>1. /\ \A j \in 1 .. k : j \in 1 .. m /\ j \in 1 .. k + 1 /\ j # k + 1
        /\ \A j \in 1 .. k + 1 : j \in 1 .. m /\ (j \in 1 .. k \/ j = k + 1)
        /\ k + 1 \in 1 .. m /\ k + 1 \in 1 .. k + 1
    BY <1>1, <1>5
  <2> HIDE DEF m
  <2>2. FirstRows(deletes, k) \in SUBSET FirstRows(deletes, m) /\ FirstRows(deletes, k + 1) \in SUBSET FirstRows(deletes, m)
    BY <2>1 DEF FirstRows
  <2>3. deletes[k + 1] = ERASED => FirstRows(deletes, k + 1) = FirstRows(deletes, k)
    BY <2>1 DEF FirstRows
  <2>4. ASSUME deletes[k + 1] # ERASED
        PROVE  FirstRows(deletes, k + 1) = FirstRows(deletes, k) \cup {deletes[k + 1]}
    BY <2>1, <2>4 DEF FirstRows
  <2>5. ASSUME deletes[k + 1] # ERASED
        PROVE  FirstRows(deletes, k) \cap {deletes[k + 1]} = {}
    <3> SUFFICES ASSUME NEW j \in 1 .. k, deletes[j] = deletes[k + 1] PROVE FALSE
      BY DEF FirstRows
    <3> QED
      BY <1>1, <2>1, <2>5
  <2> QED
    BY <1>1, <2>1, <2>2, <2>3, <2>4, <2>5
<1> QED
  BY <1>2, <1>3, <1>4, <1>5

\* An erased delete releases nothing.
LEMMA ReleaseErased ==
  ASSUME NEW store
  PROVE  ReleaseRow(store, ERASED) = store
<1> DEFINE row == ERASED
<1>1. Len(row) = 0
  BY DEF ERASED
<1> HIDE DEF row
<1>2. \E r : r[0] = store /\ ReleaseRow(store, row) = r[Len(row)]
  BY <1>1, ReleaseRowSteps
<1> QED
  BY <1>1, <1>2 DEF row

\* Releasing the deletes releases each reference of their rows, once.
LEMMA ReleaseRowsKeeps ==
  ASSUME NEW store, NEW held, Kept(store, store, held),
         NEW deletes, Deletable(deletes, Slots(store.block)),
         \A i \in Slots(store.block) : held[i] >= Uses(Range(deletes) \ {ERASED}, i),
         NEW held2,
         held2 = [i \in Slots(store.block) |-> held[i] - Uses(Range(deletes) \ {ERASED}, i)]
  PROVE  Kept(store, ReleaseRows(store, deletes), held2)
<1> DEFINE m == Len(deletes)
           S == Slots(store.block)
           D == Range(deletes) \ {ERASED}
           Used(k, i) == Uses(FirstRows(deletes, k), i)
           Left(k) == [i \in S |-> held[i] - Used(k, i)]
<1>1. m \in Nat
  BY DEF Deletable
<1>2. PICK r : /\ r[0] = store /\ ReleaseRows(store, deletes) = r[m]
               /\ \A k \in Nat : k < m => r[k + 1] = ReleaseRow(r[k], deletes[k + 1])
  BY <1>1, ReleaseRowsSteps
<1>3. held \in [S -> Nat]
  BY DEF Kept, StoreOK, StoreTyped
<1>4. FirstRows(deletes, m) = D /\ IsFiniteSet(D) /\ FirstRows(deletes, 0) = {}
  BY FirstRowsFacts
<1>5. ASSUME NEW k \in Nat, k <= m
      PROVE  /\ IsFiniteSet(FirstRows(deletes, k))
             /\ \A i : Used(k, i) \in Nat
             /\ \A i \in S : held[i] - Used(k, i) \in Nat
  <2>1. FirstRows(deletes, k) \in SUBSET D
    <3>1. CASE k = m
      BY <1>4, <3>1
    <3>2. CASE k < m
      <4> HIDE DEF m
      <4> QED
        BY <1>4, <3>2, FirstRowsFacts DEF m
    <3> QED
      BY <1>1, <1>5, <3>1, <3>2
  <2>2. IsFiniteSet(FirstRows(deletes, k))
    BY <1>4, <2>1, FS_Subset
  <2>3. \A i : Used(k, i) \in Nat
    BY <2>2, UsesNat
  <2>4. ASSUME NEW i \in S PROVE held[i] - Used(k, i) \in Nat
    <3>1. Used(k, i) <= Uses(D, i) /\ Uses(D, i) \in Nat
      BY <1>4, <2>1, UsesSubset, UsesNat
    <3>2. PICK h \in Nat, u \in Nat, v \in Nat : h = held[i] /\ u = Used(k, i) /\ v = Uses(D, i)
      <4> HIDE DEF Used, D
      <4> QED
        BY <1>3, <2>3, <3>1
    <3>3. u <= v /\ h >= v
      BY <3>1, <3>2
    <3>4. h - u \in Nat
      BY <3>3
    <3> QED
      BY <3>2, <3>4
  <2> QED
    BY <2>2, <2>3, <2>4
<1> DEFINE N == {k \in Nat : k <= m => Kept(store, r[k], Left(k))}
<1>6. 0 \in N
  <2>1. \A i : Used(0, i) = 0
    BY <1>4, UsesNone
  <2>2. Left(0) = held
    <3>1. \A i \in S : held[i] - Used(0, i) = held[i]
      <4> HIDE DEF Used
      <4> QED
        BY <2>1, <1>3
    <3>2. held = [i \in S |-> held[i]]
      BY <1>3
    <3> HIDE DEF Used, S
    <3> QED
      BY <3>1, <3>2
  <2> QED
    BY <1>2, <2>2
<1>7. ASSUME NEW k \in N, k \in Nat PROVE k + 1 \in N
  <2> SUFFICES ASSUME k + 1 <= m PROVE Kept(store, r[k + 1], Left(k + 1))
    BY <1>7
  <2>1. Kept(store, r[k], Left(k)) /\ k < m /\ k <= m /\ k + 1 <= m
    BY <1>1, <1>7
  <2>2. PICK row : row = deletes[k + 1]
    OBVIOUS
  <2>3. r[k + 1] = ReleaseRow(r[k], row)
    BY <1>2, <1>7, <2>1, <2>2
  <2>4. CASE row = ERASED
    <3>1. FirstRows(deletes, k + 1) = FirstRows(deletes, k)
      BY <1>7, <2>1, <2>2, <2>4, FirstRowsFacts
    <3>2. r[k + 1] = r[k]
      BY <2>3, <2>4, ReleaseErased
    <3> QED
      BY <2>1, <3>1, <3>2
  <2>5. CASE row # ERASED
    <3>1. /\ FirstRows(deletes, k + 1) = FirstRows(deletes, k) \cup {row}
          /\ FirstRows(deletes, k) \cap {row} = {}
          /\ RowLike(row, S)
      BY <1>7, <2>1, <2>2, <2>5, FirstRowsFacts
    <3>2. \A i : Used(k + 1, i) = Used(k, i) + Uses({row}, i) /\ Uses({row}, i) \in Nat
      <4>1. IsFiniteSet({row}) /\ IsFiniteSet(FirstRows(deletes, k))
        BY <1>5, <1>7, <2>1, FS_Singleton
      <4> QED
        BY <3>1, <4>1, UsesUnion, UsesNat
    <3>3. \A i \in S : /\ Left(k)[i] = held[i] - Used(k, i) /\ Left(k)[i] \in Nat
                       /\ Left(k + 1)[i] = held[i] - Used(k + 1, i) /\ Left(k + 1)[i] \in Nat
      <4> HIDE DEF Used, S
      <4> QED
        BY <1>5, <1>7, <2>1
    <3>4. ASSUME NEW i \in S
          PROVE  Left(k)[i] >= Uses({row}, i) /\ Left(k + 1)[i] = Left(k)[i] - Uses({row}, i)
      <4>1. PICK h \in Nat, u \in Nat, x \in Nat : h = held[i] /\ u = Used(k, i) /\ x = Uses({row}, i)
        <5> HIDE DEF Used
        <5> QED
          BY <1>3, <1>5, <1>7, <2>1, <3>2
      <4>2. Used(k + 1, i) = u + x
        <5> HIDE DEF Used
        <5> QED
          BY <3>2, <4>1
      <4> HIDE DEF Used, Left
      <4>3. Left(k)[i] = h - u /\ Left(k + 1)[i] = h - (u + x) /\ h - (u + x) \in Nat
        BY <3>3, <4>1, <4>2
      <4>4. PICK y \in Nat : y = Uses({row}, i)
        BY <4>1
      <4>5. PICK a \in Nat, b \in Nat : Left(k)[i] = a - b /\ Left(k + 1)[i] = a - (b + y) /\ a - (b + y) \in Nat
        BY <4>1, <4>3, <4>4
      <4>6. a - b >= y /\ a - (b + y) = (a - b) - y
        BY <4>4, <4>5
      <4> QED
        BY <4>4, <4>5, <4>6
    <3>5. Left(k + 1) = [i \in S |-> Left(k)[i] - Uses({row}, i)]
      <4>1. Left(k + 1) = [i \in S |-> Left(k + 1)[i]]
        OBVIOUS
      <4> HIDE DEF Left, S
      <4> QED
        BY <3>4, <4>1
    <3>6. Slots(r[k].block) = S
      BY <2>1 DEF Kept, Slots
    <3>7. Kept(r[k], r[k], Left(k))
      <4> HIDE DEF Left, S
      <4> QED
        BY <2>1 DEF Kept
    <3>8. Kept(r[k], r[k + 1], Left(k + 1))
      <4>1. PICK s, before, after : s = r[k] /\ before = Left(k) /\ after = Left(k + 1)
        OBVIOUS
      <4> HIDE DEF Left, S
      <4>2. Slots(s.block) = S /\ Kept(s, s, before)
        BY <3>6, <3>7, <4>1
      <4>3. RowLike(row, Slots(s.block))
        BY <3>1, <4>2
      <4>4. /\ \A i \in Slots(s.block) : before[i] >= Uses({row}, i)
            /\ after = [i \in Slots(s.block) |-> before[i] - Uses({row}, i)]
        BY <3>4, <3>5, <4>1, <4>2
      <4>5. Kept(s, ReleaseRow(s, row), after)
        BY <4>2, <4>3, <4>4, ReleaseRowKeeps
      <4> QED
        BY <2>3, <4>1, <4>5
    <3>9. \A i \in S : Left(k + 1)[i] > 0 => Left(k)[i] > 0
      <4> SUFFICES ASSUME NEW i \in S, Left(k + 1)[i] > 0 PROVE Left(k)[i] > 0
        OBVIOUS
      <4>1. PICK x \in Nat, y \in Nat : x = Uses({row}, i) /\ y = Left(k)[i]
        <5> HIDE DEF Left
        <5> QED
          BY <3>2, <3>3
      <4> HIDE DEF Left
      <4>2. y - x > 0
        BY <3>4, <4>1
      <4> QED
        BY <4>1, <4>2
    <3> HIDE DEF Left
    <3> QED
      BY <2>1, <3>8, <3>9, KeptTwice
  <2> QED
    BY <2>4, <2>5
<1>8. m \in N
  <2>1. Nat \subseteq N
    <3> HIDE DEF N
    <3> QED
      BY <1>6, <1>7, SetInduction
  <2> QED
    BY <1>1, <2>1
<1>9. Kept(store, r[m], Left(m))
  BY <1>1, <1>8
<1>10. Left(m) = held2
  BY <1>4
<1> QED
  BY <1>2, <1>9, <1>10

-----------------------------------------------------------------------------
(***************************************************************************)
(* Rows in order.                                                          *)
(***************************************************************************)

\* The order of rows, spelled out for rows of up to three columns.
SpelledOut(n, x, y) ==
  \/ x[1] < y[1]
  \/ n >= 2 /\ x[1] = y[1] /\ x[2] < y[2]
  \/ n = 3 /\ x[1] = y[1] /\ x[2] = y[2] /\ x[3] < y[3]

\* That is what it is.
LEMMA BeforeIs ==
  ASSUME NEW n \in 1 .. 3, NEW x \in [1 .. n -> Nat], NEW y \in [1 .. n -> Nat]
  PROVE  Before(x, y) <=> SpelledOut(n, x, y)
<1> USE DEF SpelledOut
<1>1. DOMAIN x = 1 .. n
  OBVIOUS
<1>2. /\ \A j \in 1 .. 1 - 1 : FALSE
      /\ \A j \in 1 .. 2 - 1 : j = 1
      /\ \A j \in 1 .. 3 - 1 : j = 1 \/ j = 2
      /\ 1 \in 1 .. 2 - 1 /\ 1 \in 1 .. 3 - 1 /\ 2 \in 1 .. 3 - 1
  OBVIOUS
<1> DEFINE At(i) == x[i] < y[i] /\ \A j \in 1 .. i - 1 : x[j] = y[j]
<1>3. At(1) <=> x[1] < y[1]
  BY <1>2
<1>4. At(2) <=> x[1] = y[1] /\ x[2] < y[2]
  BY <1>2
<1>5. At(3) <=> x[1] = y[1] /\ x[2] = y[2] /\ x[3] < y[3]
  BY <1>2
<1>6. Before(x, y) <=> \E i \in 1 .. n : At(i)
  BY <1>1 DEF Before
<1> HIDE DEF At
<1>7. CASE n = 1
  <2>1. \A i : i \in 1 .. n <=> i = 1
    BY <1>7
  <2> QED
    BY <1>3, <1>6, <1>7, <2>1
<1>8. CASE n = 2
  <2>1. \A i : i \in 1 .. n <=> i = 1 \/ i = 2
    BY <1>8
  <2> QED
    BY <1>3, <1>4, <1>6, <1>8, <2>1
<1>9. CASE n = 3
  <2>1. \A i : i \in 1 .. n <=> i = 1 \/ i = 2 \/ i = 3
    BY <1>9
  <2> QED
    BY <1>3, <1>4, <1>5, <1>6, <1>9, <2>1
<1> QED
  BY <1>7, <1>8, <1>9

\* It is a strict total order.
LEMMA BeforeOrder ==
  ASSUME NEW n \in 1 .. 3
  PROVE  /\ \A x \in [1 .. n -> Nat] : ~ Before(x, x)
         /\ \A x, y \in [1 .. n -> Nat] : x = y \/ Before(x, y) \/ Before(y, x)
         /\ \A x, y, z \in [1 .. n -> Nat] : Before(x, y) /\ Before(y, z) => Before(x, z)
<1> DEFINE R == [1 .. n -> Nat]
<1>1. ASSUME NEW x \in R
      PROVE  x[1] \in Nat /\ (n >= 2 => x[2] \in Nat) /\ (n = 3 => x[3] \in Nat)
  OBVIOUS
<1>2. ASSUME NEW x \in R PROVE ~ Before(x, x)
  <2>1. PICK x1, x2, x3 : x1 = x[1] /\ x2 = x[2] /\ x3 = x[3]
    OBVIOUS
  <2>2. Before(x, x) <=> x1 < x1 \/ (n >= 2 /\ x2 < x2) \/ (n = 3 /\ x3 < x3)
    BY <2>1, BeforeIs DEF SpelledOut
  <2>3. x1 \in Nat /\ (n >= 2 => x2 \in Nat) /\ (n = 3 => x3 \in Nat)
    BY <1>1, <2>1
  <2> QED
    BY <2>2, <2>3
<1>3. ASSUME NEW x \in R, NEW y \in R PROVE x = y \/ Before(x, y) \/ Before(y, x)
  <2>1. \/ \A i \in 1 .. n : x[i] = y[i]
        \/ Before(x, y) \/ Before(y, x)
    <3>1. CASE n = 1
      BY <1>1, <3>1, BeforeIs DEF SpelledOut
    <3>2. CASE n = 2
      BY <1>1, <3>2, BeforeIs DEF SpelledOut
    <3>3. CASE n = 3
      BY <1>1, <3>3, BeforeIs DEF SpelledOut
    <3> QED
      BY <3>1, <3>2, <3>3
  <2> QED
    BY <2>1
<1>4. ASSUME NEW x \in R, NEW y \in R, NEW z \in R, Before(x, y), Before(y, z) PROVE Before(x, z)
  <2>1. PICK x1, x2, x3 : x1 = x[1] /\ x2 = x[2] /\ x3 = x[3]
    OBVIOUS
  <2>2. PICK y1, y2, y3 : y1 = y[1] /\ y2 = y[2] /\ y3 = y[3]
    OBVIOUS
  <2>3. PICK z1, z2, z3 : z1 = z[1] /\ z2 = z[2] /\ z3 = z[3]
    OBVIOUS
  <2>4. \/ x1 < y1
        \/ n >= 2 /\ x1 = y1 /\ x2 < y2
        \/ n = 3 /\ x1 = y1 /\ x2 = y2 /\ x3 < y3
    <3>1. SpelledOut(n, x, y)
      BY <1>4, BeforeIs
    <3> QED
      BY <2>1, <2>2, <3>1 DEF SpelledOut
  <2>5. \/ y1 < z1
        \/ n >= 2 /\ y1 = z1 /\ y2 < z2
        \/ n = 3 /\ y1 = z1 /\ y2 = z2 /\ y3 < z3
    <3>1. SpelledOut(n, y, z)
      BY <1>4, BeforeIs
    <3> QED
      BY <2>2, <2>3, <3>1 DEF SpelledOut
  <2>6. \/ x1 < z1
        \/ n >= 2 /\ x1 = z1 /\ x2 < z2
        \/ n = 3 /\ x1 = z1 /\ x2 = z2 /\ x3 < z3
    <3>1. /\ x1 \in Nat /\ y1 \in Nat /\ z1 \in Nat
          /\ n >= 2 => x2 \in Nat /\ y2 \in Nat /\ z2 \in Nat
          /\ n = 3 => x3 \in Nat /\ y3 \in Nat /\ z3 \in Nat
      BY <1>1, <2>1, <2>2, <2>3
    <3> QED
      BY <2>4, <2>5, <3>1
  <2>7. Before(x, z) <=>
          \/ x1 < z1
          \/ n >= 2 /\ x1 = z1 /\ x2 < z2
          \/ n = 3 /\ x1 = z1 /\ x2 = z2 /\ x3 < z3
    <3>1. Before(x, z) <=> SpelledOut(n, x, z)
      BY BeforeIs
    <3> QED
      BY <2>1, <2>3, <3>1 DEF SpelledOut
  <2> QED
    BY <2>6, <2>7
<1> QED
  BY <1>2, <1>3, <1>4

\* The rows of a set that are before a row, and how many they are.
Predecessors(rows, row) == {other \in rows : Before(other, row)}

\* The rows of a set are in order: each has a place of its own.
LEMMA InOrderFacts ==
  ASSUME NEW n \in 1 .. 3, NEW rows \in SUBSET [1 .. n -> Nat], IsFiniteSet(rows)
  PROVE  /\ DOMAIN InOrder(rows) = 1 .. Cardinality(rows) /\ Cardinality(rows) \in Nat
         /\ InOrder(rows) \in Seq(rows) /\ Len(InOrder(rows)) = Cardinality(rows)
         /\ Range(InOrder(rows)) = rows
         /\ \A j, k \in 1 .. Cardinality(rows) : InOrder(rows)[j] = InOrder(rows)[k] => j = k
<1> DEFINE m == Cardinality(rows)
           rank == [row \in rows |-> Cardinality(Predecessors(rows, row))]
<1>1. m \in Nat
  BY FS_CardinalityType
<1>2. ASSUME NEW row \in rows
      PROVE  IsFiniteSet(Predecessors(rows, row)) /\ rank[row] \in 0 .. m - 1
  <2>1. Predecessors(rows, row) \in SUBSET (rows \ {row})
    BY BeforeOrder DEF Predecessors
  <2>2. IsFiniteSet(rows \ {row}) /\ Cardinality(rows \ {row}) = m - 1
    BY FS_RemoveElement
  <2>3. /\ IsFiniteSet(Predecessors(rows, row))
        /\ Cardinality(Predecessors(rows, row)) <= Cardinality(rows \ {row})
    BY <2>1, <2>2, FS_Subset
  <2>4. Cardinality(Predecessors(rows, row)) \in Nat
    BY <2>3, FS_CardinalityType
  <2> QED
    BY <1>1, <2>2, <2>3, <2>4
<1>3. ASSUME NEW x \in rows, NEW y \in rows, Before(x, y) PROVE rank[x] < rank[y]
  <2>1. Predecessors(rows, x) \in SUBSET Predecessors(rows, y)
    BY <1>3, BeforeOrder DEF Predecessors
  <2>2. x \in Predecessors(rows, y) /\ x \notin Predecessors(rows, x)
    BY <1>3, BeforeOrder DEF Predecessors
  <2>3. IsFiniteSet(Predecessors(rows, y)) /\ IsFiniteSet(Predecessors(rows, x))
    BY <1>2
  <2>4. /\ Cardinality(Predecessors(rows, x)) <= Cardinality(Predecessors(rows, y))
        /\ Cardinality(Predecessors(rows, x)) # Cardinality(Predecessors(rows, y))
    BY <2>1, <2>2, <2>3, FS_Subset
  <2>5. Cardinality(Predecessors(rows, x)) \in Nat /\ Cardinality(Predecessors(rows, y)) \in Nat
    BY <2>3, FS_CardinalityType
  <2> QED
    BY <2>4, <2>5
<1>4. \A x, y \in rows : rank[x] = rank[y] => x = y
  <2> SUFFICES ASSUME NEW x \in rows, NEW y \in rows, rank[x] = rank[y], x # y PROVE FALSE
    OBVIOUS
  <2>1. Before(x, y) \/ Before(y, x)
    BY BeforeOrder
  <2>2. PICK i \in 0 .. m - 1, j \in 0 .. m - 1 : i = rank[x] /\ j = rank[y]
    <3> HIDE DEF rank
    <3> QED
      BY <1>2
  <2>3. i < j \/ j < i
    <3> HIDE DEF rank
    <3> QED
      BY <1>3, <2>1, <2>2
  <2> HIDE DEF rank
  <2> QED
    BY <1>1, <2>2, <2>3
<1>5. \A k \in 1 .. m : \E row \in rows : rank[row] = k - 1
  <2>1. rank \in [rows -> 0 .. m - 1]
    BY <1>2
  <2>2. rank \in Injection(rows, 0 .. m - 1)
    <3> HIDE DEF rank, m
    <3> QED
      BY <1>4, <2>1 DEF Injection, IsInjective
  <2>3. IsFiniteSet(0 .. m - 1) /\ Cardinality(0 .. m - 1) = m
    BY <1>1, IntervalSize
  <2>4. rank \in Surjection(rows, 0 .. m - 1)
    <3> HIDE DEF rank
    <3> QED
      BY <2>2, <2>3, FS_Injection
  <2>5. \A k \in 1 .. m : k - 1 \in 0 .. m - 1
    BY <1>1
  <2> HIDE DEF rank, m
  <2> QED
    BY <2>4, <2>5 DEF Surjection
<1> DEFINE s == InOrder(rows)
<1>6. s = [k \in 1 .. m |-> CHOOSE row \in rows : rank[row] = k - 1]
  <2>1. \A k : (CHOOSE row \in rows : rank[row] = k - 1) =
               CHOOSE row \in rows : Cardinality({other \in rows : Before(other, row)}) = k - 1
    BY DEF Predecessors
  <2>2. InOrder(rows) = [k \in 1 .. m |-> CHOOSE row \in rows :
                           Cardinality({other \in rows : Before(other, row)}) = k - 1]
    BY DEF InOrder
  <2>3. \A k, row : row \in rows => (rank[row] = k - 1 <=> Cardinality({other \in rows : Before(other, row)}) = k - 1)
    BY DEF Predecessors
  <2> HIDE DEF m, rank
  <2> QED
    BY <2>1, <2>2
<1>7. ASSUME NEW k \in 1 .. m PROVE s[k] \in rows /\ rank[s[k]] = k - 1
  <2> HIDE DEF rank, m
  <2>1. PICK row : row = CHOOSE x \in rows : rank[x] = k - 1
    OBVIOUS
  <2>2. row \in rows /\ rank[row] = k - 1
    BY <1>5, <2>1
  <2>3. s[k] = row
    BY <1>6, <2>1
  <2> QED
    BY <2>2, <2>3
<1>8. DOMAIN s = 1 .. m
  <2> HIDE DEF m, rank
  <2> QED
    BY <1>6
<1>9. s \in Seq(rows) /\ Len(s) = m
  <2>1. s = [k \in 1 .. m |-> s[k]]
    <3> HIDE DEF m, rank
    <3> QED
      BY <1>6
  <2>2. s \in [1 .. m -> rows]
    <3> HIDE DEF m, rank, s
    <3> QED
      BY <1>7, <2>1
  <2>3. s \in Seq(rows)
    <3> HIDE DEF m, s
    <3> QED
      BY <1>1, <2>2, SeqDef
  <2> HIDE DEF m, s
  <2> QED
    BY <1>1, <1>8, <2>3, LenProperties
<1>10. Range(s) = rows
  <2>1. ASSUME NEW row \in rows PROVE \E k \in 1 .. m : s[k] = row
    <3>1. PICK k \in 1 .. m : k - 1 = rank[row]
      <4>1. PICK i \in 0 .. m - 1 : i = rank[row]
        <5> HIDE DEF rank
        <5> QED
          BY <1>2
      <4>2. i + 1 \in 1 .. m /\ (i + 1) - 1 = i
        BY <1>1
      <4> HIDE DEF rank, m
      <4> QED
        BY <4>1, <4>2
    <3> HIDE DEF rank, s, m
    <3> QED
      BY <1>4, <1>7, <3>1
  <2> HIDE DEF s, m, rank
  <2> QED
    BY <1>7, <1>8, <2>1 DEF Range
<1>11. ASSUME NEW j \in 1 .. m, NEW k \in 1 .. m, s[j] = s[k] PROVE j = k
  <2>1. j - 1 = k - 1
    <3> HIDE DEF rank, s, m
    <3> QED
      BY <1>7, <1>11
  <2> QED
    BY <2>1
<1> QED
  BY <1>1, <1>8, <1>9, <1>10, <1>11

\* Sorting the inserts of an update loses none of them.
LEMMA SortedFacts ==
  ASSUME NEW n \in 1 .. 3, NEW xs, xs \in Seq([1 .. n -> Nat])
  PROVE  /\ IsFiniteSet(Range(xs)) /\ Range(xs) \in SUBSET [1 .. n -> Nat]
         /\ sort_unique(xs) \in Seq(Range(xs)) /\ Range(sort_unique(xs)) = Range(xs)
         /\ \A j, k \in DOMAIN sort_unique(xs) : sort_unique(xs)[j] = sort_unique(xs)[k] => j = k
<1>1. Len(xs) \in Nat /\ DOMAIN xs = 1 .. Len(xs) /\ \A k \in 1 .. Len(xs) : xs[k] \in [1 .. n -> Nat]
  BY LenProperties
<1>2. [k \in 1 .. Len(xs) |-> xs[k]] \in Surjection(1 .. Len(xs), Range(xs))
  BY <1>1 DEF Surjection, Range
<1>3. IsFiniteSet(1 .. Len(xs))
  BY <1>1, IntervalSize
<1>4. IsFiniteSet(Range(xs))
  BY <1>2, <1>3, FS_Surjection
<1>5. Range(xs) \in SUBSET [1 .. n -> Nat]
  BY <1>1 DEF Range
<1> QED
  BY <1>4, <1>5, InOrderFacts DEF sort_unique

-----------------------------------------------------------------------------
(***************************************************************************)
(* Surrogates, stored or staged, and the values they stand for.            *)
(***************************************************************************)

\* A store and the updates staged for it are right.
Sound(store, held, freeList, updates) ==
  /\ StoreOK(store, held, freeList) /\ StagedOK(store, updates, freeList)
  /\ StoreKeyed(store) /\ StagedKeyed(store, updates)

\* The surrogates that have been handed out.
Known(store, updates) ==
  Occupied(store.block) \cup {updates.surrs[k] : k \in 1 .. updates.count}

\* A staged surrogate is promised to one value, and to no stored one.
LEMMA StagedFacts ==
  ASSUME NEW store, NEW held, NEW freeList, NEW updates, Sound(store, held, freeList, updates)
  PROVE  /\ updates.count \in Nat /\ store.block.capacity \in Nat
         /\ \A j, k \in 1 .. updates.count : updates.surrs[j] = updates.surrs[k] => j = k
         /\ \A k \in 1 .. updates.count :
              /\ updates.surrs[k] \in Nat /\ updates.surrs[k] < store.block.capacity + updates.count
              /\ updates.surrs[k] \notin Occupied(store.block)
              /\ k - 1 \in Occupied(updates.block)
              /\ updates.block.slots[k - 1] \in Value
              /\ Denotes(store, updates, updates.surrs[k]) = updates.block.slots[k - 1]
<1> DEFINE t == updates.count
           c == store.block.capacity
           L == Len(freeList)
<1>1. t \in Nat /\ c \in Nat /\ L \in Nat
  <2>1. updates.count \in 0 .. updates.block.capacity /\ c \in Nat /\ updates.block.capacity \in Nat
    BY HashTypes DEF Sound
  <2> QED
    BY <2>1, ChainFacts DEF Sound
<1>2. \A k \in 1 .. t : k \in Pos
  BY <1>1 DEF Pos
<1>3. \A k \in 1 .. t : updates.surrs[k] = FreeAt(store, freeList, k) /\ updates.block.slots[k - 1] \in Value
  BY DEF Sound, StagedOK, Promised
<1>4. /\ \A k \in Pos : FreeAt(store, freeList, k) \in Nat
      /\ \A k \in Pos : FreeAt(store, freeList, k) < c <=> k <= L
      /\ \A k \in Pos : k <= L => IsBlank(store.block, FreeAt(store, freeList, k))
      /\ \A j, k \in Pos : FreeAt(store, freeList, j) = FreeAt(store, freeList, k) => j = k
  BY ChainFacts DEF Sound
<1>5. \A j, k \in 1 .. t : updates.surrs[j] = updates.surrs[k] => j = k
  <2> HIDE DEF t
  <2> QED
    BY <1>2, <1>3, <1>4
<1>6. ASSUME NEW k \in 1 .. t
      PROVE  /\ updates.surrs[k] \in Nat /\ updates.surrs[k] < c + t
             /\ updates.surrs[k] \notin Occupied(store.block)
             /\ k - 1 \in Occupied(updates.block)
             /\ updates.block.slots[k - 1] \in Value
             /\ Denotes(store, updates, updates.surrs[k]) = updates.block.slots[k - 1]
  <2>1. k \in Pos /\ updates.surrs[k] = FreeAt(store, freeList, k) /\ updates.surrs[k] \in Nat
    <3> HIDE DEF t
    <3> QED
      BY <1>2, <1>3, <1>4
  <2>2. updates.surrs[k] \notin Occupied(store.block)
    <3>1. updates.surrs[k] < c => IsBlank(store.block, updates.surrs[k])
      <4> HIDE DEF c, t, L
      <4> QED
        BY <1>4, <2>1
    <3>2. Occupied(store.block) = {i \in 0 .. c - 1 : ~ IsBlank(store.block, i)}
      BY DEF Occupied, Slots
    <3>3. updates.surrs[k] \in 0 .. c - 1 => updates.surrs[k] < c
      BY <1>1
    <3> HIDE DEF c, t, L
    <3> QED
      BY <3>1, <3>2, <3>3
  <2>3. updates.surrs[k] < c + t
    <3>1. CASE k <= L
      BY <1>1, <1>4, <2>1, <3>1
    <3>2. CASE ~ (k <= L)
      <4>1. FreeAt(store, freeList, k) = c + (k - L - 1)
        BY <3>2 DEF FreeAt
      <4>2. c + (k - L - 1) < c + t
        BY <1>1, <3>2
      <4> QED
        BY <2>1, <4>1, <4>2
    <3> QED
      BY <3>1, <3>2
  <2>4. k - 1 \in Occupied(updates.block)
    <3>1. k - 1 \in 0 .. t - 1
      BY <1>1
    <3> QED
      BY <3>1 DEF Sound, StagedKeyed
  <2>5. (CHOOSE i \in 1 .. t : updates.surrs[i] = updates.surrs[k]) = k
    <3> HIDE DEF t
    <3> QED
      BY <1>5
  <2>6. Denotes(store, updates, updates.surrs[k]) = updates.block.slots[k - 1]
    BY <2>2, <2>5 DEF Denotes
  <2> QED
    BY <1>3, <2>1, <2>2, <2>3, <2>4, <2>6
<1> QED
  BY <1>1, <1>5, <1>6

\* A surrogate stands for a value, and no two for the same.
LEMMA DenotesFacts ==
  ASSUME NEW store, NEW held, NEW freeList, NEW updates, Sound(store, held, freeList, updates)
  PROVE  /\ \A s \in Known(store, updates) : Denotes(store, updates, s) \in Value
         /\ \A s1, s2 \in Known(store, updates) :
              Denotes(store, updates, s1) = Denotes(store, updates, s2) => s1 = s2
         /\ \A s \in Occupied(store.block) : Denotes(store, updates, s) = store.block.slots[s]
<1>1. \A s \in Occupied(store.block) :
        Denotes(store, updates, s) = store.block.slots[s] /\ store.block.slots[s] \in Value
  BY DEF Denotes, Occupied, IsBlank
<1> DEFINE Staged(s, k) == /\ k \in 1 .. updates.count /\ s = updates.surrs[k]
                           /\ k - 1 \in Occupied(updates.block)
                           /\ updates.block.slots[k - 1] \in Value
                           /\ Denotes(store, updates, s) = updates.block.slots[k - 1]
<1>2. \A s \in Known(store, updates) : s \in Occupied(store.block) \/ \E k : Staged(s, k)
  BY StagedFacts DEF Known
<1>3. \A s \in Known(store, updates) : Denotes(store, updates, s) \in Value
  BY <1>1, <1>2
<1>4. ASSUME NEW s1 \in Known(store, updates), NEW s2 \in Known(store, updates),
             Denotes(store, updates, s1) = Denotes(store, updates, s2)
      PROVE  s1 = s2
  <2>1. CASE s1 \in Occupied(store.block) /\ s2 \in Occupied(store.block)
    BY <1>1, <1>4, <2>1 DEF Sound, StoreKeyed, Keyed
  <2>2. \A s \in Occupied(store.block) : \A s3, k : Staged(s3, k) => Denotes(store, updates, s) # Denotes(store, updates, s3)
    BY <1>1 DEF Sound, StagedKeyed
  <2>3. ASSUME NEW j, NEW k, Staged(s1, j), Staged(s2, k) PROVE s1 = s2
    <3>1. j - 1 = k - 1 /\ j \in Int /\ k \in Int
      BY <1>4, <2>3 DEF Sound, StagedKeyed, Keyed
    <3>2. j = k
      BY <3>1
    <3> QED
      BY <2>3, <3>2
  <2> HIDE DEF Staged
  <2> QED
    BY <1>2, <1>4, <2>1, <2>2, <2>3
<1> QED
  BY <1>1, <1>3, <1>4

\* What is known before is known after, and stands for the same.
Extends(store, updates, updates2) ==
  /\ Known(store, updates) \subseteq Known(store, updates2)
  /\ \A s \in Known(store, updates) : Denotes(store, updates2, s) = Denotes(store, updates, s)

\* Interning a value leaves it known, under the surrogate returned.
LEMMA InternKeeps ==
  ASSUME NEW store, NEW held, NEW freeList, NEW updates, Sound(store, held, freeList, updates),
         NEW value \in Value, NEW in, in = Intern(store, updates, value)
  PROVE  /\ Sound(store, held, freeList, in.updates)
         /\ in.surr \in Known(store, in.updates)
         /\ Denotes(store, in.updates, in.surr) = value
         /\ Extends(store, updates, in.updates)
<1> DEFINE surr == lookup_value_ex(store, updates, value)
<1>1. CASE surr # -1
  <2>1. in.updates = updates /\ in.surr = surr
    BY <1>1 DEF Intern
  <2>2. Extends(store, updates, updates)
    BY DEF Extends
  <2>3. CASE lookup_value(store, value) # -1
    <3>1. surr = lookup_value(store, value)
      BY <2>3 DEF lookup_value_ex
    <3>2. surr \in Occupied(store.block) /\ store.block.slots[surr] = value
      <4> HIDE DEF surr
      <4> QED
        BY <1>1, <3>1, LookupValue DEF Sound
    <3> QED
      BY <2>1, <2>2, <3>2, DenotesFacts DEF Known
  <2>4. CASE lookup_value(store, value) = -1
    <3> DEFINE index == hashtable_lookup(updates.block, value)
               n == updates.block.capacity
    <3>1. n > 0 /\ index >= 0 /\ surr = updates.surrs[index + 1]
      BY <1>1, <2>4 DEF lookup_value_ex
    <3>2. n \in Nat /\ updates.block \in Block(n) /\ updates.count \in 0 .. n
      BY HashTypes DEF Sound
    <3>3. \/ index \in Occupied(updates.block) /\ updates.block.slots[index] = value
          \/ index = -1
      <4>1. Keyed(updates.block)
        BY DEF Sound, StagedKeyed
      <4>2. n \in Nat \ {0}
        BY <3>1, <3>2
      <4> QED
        BY <3>2, <4>1, <4>2, LookupKeyed
    <3> HIDE DEF index, n, surr
    <3>4. index \in Occupied(updates.block) /\ updates.block.slots[index] = value
      BY <3>1, <3>3
    <3>5. PICK k \in 1 .. updates.count : k - 1 = index /\ index + 1 = k
      <4>1. index \in 0 .. updates.count - 1 /\ updates.count \in Nat
        BY <3>2, <3>4 DEF Sound, StagedKeyed
      <4>2. index + 1 \in 1 .. updates.count /\ (index + 1) - 1 = index
        BY <4>1
      <4> QED
        BY <4>2
    <3>6. surr = updates.surrs[k] /\ updates.block.slots[k - 1] = value
      BY <3>1, <3>4, <3>5
    <3>7. Denotes(store, updates, surr) = value
      BY <3>6, StagedFacts
    <3>8. surr \in Known(store, updates)
      BY <3>6 DEF Known
    <3> QED
      BY <2>1, <2>2, <3>7, <3>8
  <2> QED
    BY <2>3, <2>4
<1>2. CASE surr = -1
  <2>1. in.updates = value_store_insert(store, updates, value) /\ in.surr = NextSurr(store, updates)
    BY <1>2 DEF Intern
  <2>2. PICK u2, s2 : u2 = in.updates /\ s2 = in.surr
    OBVIOUS
  <2>3. /\ StagedOK(store, u2, freeList)
        /\ u2.count = updates.count + 1
        /\ u2.surrs = Append(updates.surrs, s2)
        /\ u2.block.slots[updates.count] = value
        /\ \A i \in 0 .. updates.count - 1 : u2.block.slots[i] = updates.block.slots[i]
    <3>1. u2 = value_store_insert(store, updates, value) /\ s2 = NextSurr(store, updates)
      BY <2>1, <2>2
    <3>2. StoreOK(store, held, freeList) /\ StagedOK(store, updates, freeList)
      BY DEF Sound
    <3>3. /\ StagedOK(store, u2, freeList)
          /\ u2.count = updates.count + 1
          /\ u2.surrs = Append(updates.surrs, NextSurr(store, updates))
          /\ StagedLast(updates, u2, value)
      BY <3>1, <3>2, InsertKeeps
    <3> QED
      BY <3>1, <3>3 DEF StagedLast
  <2>4. StagedKeyed(store, u2)
    <3> HIDE DEF surr
    <3> QED
      BY <1>2, <2>1, <2>2, InsertKeyed DEF Sound, surr
  <2>5. Sound(store, held, freeList, u2)
    BY <2>3, <2>4 DEF Sound
  <2>6. /\ updates.count \in Nat /\ updates.surrs \in Seq(Nat) /\ Len(updates.surrs) = updates.count
        /\ s2 \in Nat
    <3>1. /\ updates.block.capacity \in Nat /\ updates \in Updates(updates.block.capacity)
          /\ Len(updates.surrs) = updates.count
      BY HashTypes DEF Sound
    <3>2. updates.surrs \in Seq(Nat)
      BY <3>1 DEF Updates
    <3> QED
      BY <2>1, <2>2, <3>1, <3>2, StagedFacts, StagedSurrogate DEF Sound
  <2>7. /\ \A k \in 1 .. updates.count : u2.surrs[k] = updates.surrs[k] /\ k \in 1 .. u2.count
        /\ u2.surrs[u2.count] = s2 /\ u2.count \in 1 .. u2.count /\ u2.count - 1 = updates.count
    <3>1. \A k \in 1 .. updates.count : u2.surrs[k] = updates.surrs[k]
      BY <2>3, <2>6, AppendProperties
    <3>2. u2.surrs[updates.count + 1] = s2
      BY <2>3, <2>6, AppendProperties
    <3> QED
      BY <2>3, <2>6, <3>1, <3>2
  <2>8. s2 \in Known(store, u2)
    BY <2>7 DEF Known
  <2>9. Denotes(store, u2, s2) = value
    <3>1. Denotes(store, u2, u2.surrs[u2.count]) = u2.block.slots[u2.count - 1]
      BY <2>5, <2>7, StagedFacts
    <3> QED
      BY <2>3, <2>7, <3>1
  <2>10. Known(store, updates) \subseteq Known(store, u2)
    BY <2>7 DEF Known
  <2>11. ASSUME NEW s \in Known(store, updates)
         PROVE  Denotes(store, u2, s) = Denotes(store, updates, s)
    <3>1. CASE s \in Occupied(store.block)
      BY <3>1 DEF Denotes
    <3>2. CASE s \notin Occupied(store.block)
      <4>1. PICK k \in 1 .. updates.count : s = updates.surrs[k]
        BY <3>2 DEF Known
      <4>2. Denotes(store, updates, s) = updates.block.slots[k - 1]
        BY <4>1, StagedFacts
      <4>3. Denotes(store, u2, s) = u2.block.slots[k - 1]
        BY <2>5, <2>7, <4>1, StagedFacts
      <4>4. k - 1 \in 0 .. updates.count - 1
        BY <2>6
      <4> QED
        BY <2>3, <4>2, <4>3, <4>4
    <3> QED
      BY <3>1, <3>2
  <2> QED
    BY <2>2, <2>5, <2>8, <2>9, <2>10, <2>11 DEF Extends
<1> QED
  BY <1>1, <1>2

\* One turn of the loop that interns the values of a row, and its start.
Interning(store, in, value) ==
  [updates |-> Intern(store, in.updates, value).updates,
   row |-> Append(in.row, Intern(store, in.updates, value).surr)]
NotInterned(updates) == [updates |-> updates, row |-> << >>]

\* The loop that interns a row exists.
LEMMA InternRowSteps ==
  ASSUME NEW store, NEW updates, NEW values, Len(values) \in Nat
  PROVE  \E r : /\ r[0] = NotInterned(updates) /\ InternRow(store, updates, values) = r[Len(values)]
                /\ \A k \in Nat : k < Len(values) => r[k + 1] = Interning(store, r[k], values[k + 1])
<1> DEFINE Loop(r, n) == r = [k \in 0 .. n |-> IF k = 0 THEN NotInterned(updates) ELSE Interning(store, r[k - 1], values[k])]
           N == {n \in Nat : \E r : Loop(r, n)}
           loop == CHOOSE r : Loop(r, Len(values))
<1>1. 0 \in N
  <2>1. Loop([k \in 0 .. 0 |-> NotInterned(updates)], 0)
    OBVIOUS
  <2> HIDE DEF Loop
  <2> QED
    BY <2>1
<1>2. ASSUME NEW n \in N, n \in Nat PROVE n + 1 \in N
  <2>1. PICK r : Loop(r, n)
    BY <1>2
  <2> DEFINE q == [k \in 0 .. n + 1 |-> IF k = n + 1 THEN Interning(store, r[n], values[n + 1]) ELSE r[k]]
  <2>2. \A k \in 0 .. n : r[k] = IF k = 0 THEN NotInterned(updates) ELSE Interning(store, r[k - 1], values[k])
    BY <2>1
  <2>3. ASSUME NEW k \in 0 .. n + 1
        PROVE  q[k] = IF k = 0 THEN NotInterned(updates) ELSE Interning(store, q[k - 1], values[k])
    <3>1. CASE k = n + 1
      <4>1. k - 1 = n /\ k # 0 /\ n \in 0 .. n + 1 /\ n # n + 1
        BY <1>2, <3>1
      <4>2. q[k] = Interning(store, r[n], values[n + 1]) /\ q[n] = r[n]
        BY <3>1, <4>1
      <4> QED
        BY <3>1, <4>1, <4>2
    <3>2. CASE k # n + 1
      <4>1. k \in 0 .. n /\ q[k] = r[k]
        BY <1>2, <3>2
      <4>2. CASE k = 0
        BY <2>2, <4>1, <4>2
      <4>3. CASE k # 0
        <5>1. k - 1 \in 0 .. n + 1 /\ k - 1 # n + 1
          BY <1>2, <4>1, <4>3
        <5>2. q[k - 1] = r[k - 1]
          BY <5>1
        <5> QED
          BY <2>2, <4>1, <4>3, <5>2
      <4> QED
        BY <4>2, <4>3
    <3> QED
      BY <3>1, <3>2
  <2>4. Loop(q, n + 1)
    <3>1. q = [k \in 0 .. n + 1 |-> q[k]]
      OBVIOUS
    <3> HIDE DEF q
    <3> QED
      BY <2>3, <3>1
  <2> HIDE DEF Loop, q
  <2> QED
    BY <1>2, <2>4
<1>3. \E r : Loop(r, Len(values))
  <2>1. Nat \subseteq N
    <3> HIDE DEF N
    <3> QED
      BY <1>1, <1>2, SetInduction
  <2> QED
    BY <2>1
<1>4. InternRow(store, updates, values) = loop[Len(values)]
  BY DEF InternRow, Interning, NotInterned
<1>5. Loop(loop, Len(values))
  <2> HIDE DEF Loop
  <2> QED
    BY <1>3
<1>6. \A k \in 0 .. Len(values) : loop[k] = IF k = 0 THEN NotInterned(updates) ELSE Interning(store, loop[k - 1], values[k])
  <2> HIDE DEF loop
  <2> QED
    BY <1>5
<1> HIDE DEF loop, Loop
<1>7. ASSUME NEW k \in Nat, k < Len(values) PROVE loop[k + 1] = Interning(store, loop[k], values[k + 1])
  <2>1. k + 1 \in 0 .. Len(values) /\ k + 1 # 0 /\ (k + 1) - 1 = k
    BY <1>7
  <2> QED
    BY <1>6, <2>1
<1> QED
  BY <1>4, <1>6, <1>7

\* The first k values of a row have been interned.
Interned(store, held, freeList, updates, values, in, k) ==
  /\ Sound(store, held, freeList, in.updates) /\ Extends(store, updates, in.updates)
  /\ in.row \in Seq(Known(store, in.updates)) /\ Len(in.row) = k
  /\ \A i \in 1 .. k : Denotes(store, in.updates, in.row[i]) = values[i]

\* Then the next one is.
LEMMA InternStep ==
  ASSUME NEW store, NEW held, NEW freeList, NEW updates, NEW values, NEW in, NEW k \in Nat,
         Interned(store, held, freeList, updates, values, in, k),
         values[k + 1] \in Value,
         NEW in2, in2 = Interning(store, in, values[k + 1])
  PROVE  Interned(store, held, freeList, updates, values, in2, k + 1)
<1>1. PICK one : one = Intern(store, in.updates, values[k + 1])
  OBVIOUS
<1>2. PICK u, row, u2, surr : u = in.updates /\ row = in.row /\ u2 = one.updates /\ surr = one.surr
  OBVIOUS
<1>3. in2.updates = u2 /\ in2.row = Append(row, surr)
  BY <1>1, <1>2 DEF Interning
<1>4. /\ Sound(store, held, freeList, u) /\ Extends(store, updates, u)
      /\ row \in Seq(Known(store, u)) /\ Len(row) = k
      /\ \A i \in 1 .. k : Denotes(store, u, row[i]) = values[i]
  BY <1>2 DEF Interned
<1>5. /\ Sound(store, held, freeList, u2)
      /\ surr \in Known(store, u2)
      /\ Denotes(store, u2, surr) = values[k + 1]
      /\ Extends(store, u, u2)
  <2>1. one = Intern(store, u, values[k + 1])
    BY <1>1, <1>2
  <2> QED
    BY <1>2, <1>4, <2>1, InternKeeps
<1>6. Extends(store, updates, u2)
  BY <1>4, <1>5 DEF Extends
<1>7. row \in Seq(Known(store, u2))
  <2>1. Known(store, u) \subseteq Known(store, u2)
    BY <1>5 DEF Extends
  <2> QED
    BY <1>4, <2>1, SeqMonotonic
<1>8. /\ Append(row, surr) \in Seq(Known(store, u2)) /\ Len(Append(row, surr)) = k + 1
      /\ \A i \in 1 .. k : Append(row, surr)[i] = row[i]
      /\ Append(row, surr)[k + 1] = surr
  BY <1>4, <1>5, <1>7, AppendProperties
<1>9. ASSUME NEW i \in 1 .. k + 1 PROVE Denotes(store, u2, Append(row, surr)[i]) = values[i]
  <2>1. CASE i = k + 1
    BY <1>5, <1>8, <2>1
  <2>2. CASE i # k + 1
    <3>1. i \in 1 .. k
      BY <2>2
    <3>2. row[i] \in Known(store, u)
      BY <1>4, <3>1, ElementOfSeq
    <3>3. Denotes(store, u2, row[i]) = Denotes(store, u, row[i])
      BY <1>5, <3>2 DEF Extends
    <3> QED
      BY <1>4, <1>8, <3>1, <3>3
  <2> QED
    BY <2>1, <2>2
<1> QED
  BY <1>3, <1>5, <1>6, <1>8, <1>9 DEF Interned

\* A row of values becomes one of surrogates that are known and stand for them.
LEMMA InternRowKeeps ==
  ASSUME NEW store, NEW held, NEW freeList, NEW updates, Sound(store, held, freeList, updates),
         NEW n \in Nat, NEW values \in [1 .. n -> Value],
         NEW in, in = InternRow(store, updates, values)
  PROVE  /\ Sound(store, held, freeList, in.updates) /\ Extends(store, updates, in.updates)
         /\ in.row \in [1 .. n -> Known(store, in.updates)]
         /\ \A i \in 1 .. n : Denotes(store, in.updates, in.row[i]) = values[i]
<1>1. Len(values) = n
  <2>1. values \in Seq(Value) /\ DOMAIN values = 1 .. n
    BY SeqDef
  <2> QED
    BY <2>1, LenProperties
<1>2. PICK r : /\ r[0] = NotInterned(updates) /\ in = r[n]
               /\ \A k \in Nat : k < n => r[k + 1] = Interning(store, r[k], values[k + 1])
  BY <1>1, InternRowSteps
<1> DEFINE N == {k \in Nat : k <= n => Interned(store, held, freeList, updates, values, r[k], k)}
<1>3. 0 \in N
  <2>1. Extends(store, updates, updates)
    BY DEF Extends
  <2>2. << >> \in Seq(Known(store, updates)) /\ Len(<< >>) = 0 /\ \A i \in 1 .. 0 : FALSE
    BY EmptySeq
  <2>3. Interned(store, held, freeList, updates, values, NotInterned(updates), 0)
    BY <2>1, <2>2 DEF Interned, NotInterned
  <2> QED
    BY <1>2, <2>3
<1>4. ASSUME NEW k \in N, k \in Nat PROVE k + 1 \in N
  <2> SUFFICES ASSUME k + 1 <= n
               PROVE  Interned(store, held, freeList, updates, values, r[k + 1], k + 1)
    BY <1>4
  <2>1. Interned(store, held, freeList, updates, values, r[k], k) /\ k < n /\ k + 1 \in 1 .. n
    BY <1>4
  <2>2. PICK in1, in2 : in1 = r[k] /\ in2 = r[k + 1]
    OBVIOUS
  <2>3. values[k + 1] \in Value
    BY <2>1
  <2>4. in2 = Interning(store, in1, values[k + 1]) /\ Interned(store, held, freeList, updates, values, in1, k)
    BY <1>2, <1>4, <2>1, <2>2
  <2> HIDE DEF N
  <2>5. Interned(store, held, freeList, updates, values, in2, k + 1)
    BY <1>4, <2>3, <2>4, InternStep
  <2> QED
    BY <2>2, <2>5
<1>5. n \in N
  <2>1. Nat \subseteq N
    <3> HIDE DEF N
    <3> QED
      BY <1>3, <1>4, SetInduction
  <2> QED
    BY <2>1
<1>6. Interned(store, held, freeList, updates, values, in, n)
  BY <1>2, <1>5
<1>7. in.row \in [1 .. n -> Known(store, in.updates)]
  BY <1>6, LenProperties DEF Interned
<1> QED
  BY <1>6, <1>7 DEF Interned

-----------------------------------------------------------------------------
(***************************************************************************)
(* The buffer of a unary table's updates.                                  *)
(***************************************************************************)

\* The deletes fit at its front and the inserts at its back.
BufferOK(u) ==
  /\ u \in [capacity : Nat, deletes_count : Nat, inserts_count : Nat, buffer : Seq(Int)]
  /\ Len(u.buffer) = u.capacity
  /\ u.deletes_count + u.inserts_count <= u.capacity

\* Where they are.
LEMMA BufferFacts ==
  ASSUME NEW u, BufferOK(u)
  PROVE  /\ UnaryDeletes(u) \in Seq(Int) /\ Len(UnaryDeletes(u)) = u.deletes_count
         /\ \A k \in 1 .. u.deletes_count : UnaryDeletes(u)[k] = u.buffer[k]
         /\ UnaryInserts(u) \in Seq(Int) /\ Len(UnaryInserts(u)) = u.inserts_count
         /\ \A k \in 1 .. u.inserts_count :
              UnaryInserts(u)[k] = u.buffer[u.capacity - u.inserts_count + k]
<1>1. PICK c \in Nat, d \in Nat, m \in Nat, b \in Seq(Int) :
        /\ c = u.capacity /\ d = u.deletes_count /\ m = u.inserts_count /\ b = u.buffer
        /\ Len(b) = c /\ d + m <= c
  BY DEF BufferOK
<1>2. \A i \in 1 .. c : b[i] \in Int
  BY <1>1, ElementOfSeq
<1>3. /\ SubSeq(b, 1, d) \in Seq(Int) /\ Len(SubSeq(b, 1, d)) = d
      /\ \A k \in 1 .. d : SubSeq(b, 1, d)[k] = b[k]
  <2>1. \A i \in 1 .. d : b[i] \in Int
    BY <1>1, <1>2
  <2>2. /\ SubSeq(b, 1, d) \in Seq(Int) /\ Len(SubSeq(b, 1, d)) = IF 1 <= d THEN d - 1 + 1 ELSE 0
        /\ \A i \in 1 .. d - 1 + 1 : SubSeq(b, 1, d)[i] = b[1 + i - 1]
    BY <2>1, SubSeqProperties
  <2>3. (IF 1 <= d THEN d - 1 + 1 ELSE 0) = d /\ d - 1 + 1 = d /\ \A i \in 1 .. d : 1 + i - 1 = i
    OBVIOUS
  <2> QED
    BY <2>2, <2>3
<1>4. /\ SubSeq(b, c - m + 1, c) \in Seq(Int) /\ Len(SubSeq(b, c - m + 1, c)) = m
      /\ \A k \in 1 .. m : SubSeq(b, c - m + 1, c)[k] = b[c - m + k]
  <2> DEFINE f == c - m + 1
  <2>1. f \in Nat /\ \A i \in f .. c : i \in 1 .. c
    BY <1>1
  <2>2. \A i \in f .. c : b[i] \in Int
    <3> HIDE DEF f
    <3> QED
      BY <1>2, <2>1
  <2>3. /\ SubSeq(b, f, c) \in Seq(Int) /\ Len(SubSeq(b, f, c)) = IF f <= c THEN c - f + 1 ELSE 0
        /\ \A i \in 1 .. c - f + 1 : SubSeq(b, f, c)[i] = b[f + i - 1]
    <3>1. f \in Int /\ c \in Int
      BY <2>1
    <3> HIDE DEF f
    <3> QED
      BY <2>2, <3>1, SubSeqProperties
  <2>4. (IF f <= c THEN c - f + 1 ELSE 0) = m /\ c - f + 1 = m /\ \A i \in 1 .. m : f + i - 1 = c - m + i
    BY <1>1
  <2>5. Len(SubSeq(b, f, c)) = m /\ \A k \in 1 .. m : SubSeq(b, f, c)[k] = b[c - m + k]
    <3> HIDE DEF f
    <3> QED
      BY <2>3, <2>4
  <2> QED
    BY <2>3, <2>5
<1> QED
  BY <1>1, <1>3, <1>4 DEF UnaryDeletes, UnaryInserts

\* There is room for one more, and what was staged still is.
LEMMA RoomFacts ==
  ASSUME NEW u, BufferOK(u), NEW u2, u2 = WithRoom(u)
  PROVE  /\ BufferOK(u2)
         /\ u2.deletes_count = u.deletes_count /\ u2.inserts_count = u.inserts_count
         /\ u2.deletes_count + u2.inserts_count < u2.capacity
         /\ UnaryDeletes(u2) = UnaryDeletes(u) /\ UnaryInserts(u2) = UnaryInserts(u)
<1> DEFINE full == u.deletes_count + u.inserts_count >= u.capacity
<1>1. CASE ~ full
  <2>1. u2 = u
    BY <1>1 DEF WithRoom
  <2> QED
    BY <1>1, <2>1 DEF BufferOK
<1>2. CASE full
  <2>1. PICK c \in Nat, d \in Nat, m \in Nat :
          /\ c = u.capacity /\ d = u.deletes_count /\ m = u.inserts_count
          /\ d + m = c
    BY <1>2 DEF BufferOK
  <2>2. PICK c2 \in Nat : c2 = (IF c > 0 THEN 2 * c ELSE UNARY_BUFFER_SIZE) /\ c2 > c
    BY UnaryAssumption
  <2>3. PICK dels, inss : dels = UnaryDeletes(u) /\ inss = UnaryInserts(u)
    OBVIOUS
  <2>4. dels \in Seq(Int) /\ Len(dels) = d /\ inss \in Seq(Int) /\ Len(inss) = m
    BY <2>1, <2>3, BufferFacts
  <2>5. PICK gap : gap = [i \in 1 .. c2 - d - m |-> -1]
    OBVIOUS
  <2>6. gap \in Seq(Int) /\ Len(gap) = c2 - d - m
    <3>1. c2 - d - m \in Nat
      BY <2>1, <2>2
    <3>2. PICK g \in Nat : g = c2 - d - m
      BY <3>1
    <3>3. gap \in [1 .. g -> Int] /\ DOMAIN gap = 1 .. g
      BY <2>5, <3>2
    <3>4. gap \in Seq(Int)
      BY <3>3, SeqDef
    <3> QED
      BY <3>2, <3>3, <3>4, LenProperties
  <2>7. PICK buffer : buffer = dels \o gap \o inss
    OBVIOUS
  <2>8. /\ u2 = [u EXCEPT !.capacity = c2, !.buffer = buffer]
    BY <1>2, <2>1, <2>2, <2>3, <2>5, <2>7 DEF WithRoom, unary_table_updates_resize
  <2>9. /\ dels \o gap \in Seq(Int) /\ Len(dels \o gap) = c2 - m
        /\ \A i \in 1 .. d : (dels \o gap)[i] = dels[i]
    <3>1. /\ dels \o gap \in Seq(Int) /\ Len(dels \o gap) = Len(dels) + Len(gap)
          /\ \A i \in 1 .. Len(dels) + Len(gap) :
               (dels \o gap)[i] = IF i <= Len(dels) THEN dels[i] ELSE gap[i - Len(dels)]
      BY <2>4, <2>6, ConcatProperties
    <3>2. d + (c2 - d - m) = c2 - m /\ \A i \in 1 .. d : i <= d /\ i \in 1 .. d + (c2 - d - m)
      BY <2>1, <2>2
    <3> QED
      BY <2>4, <2>6, <3>1, <3>2
  <2>10. /\ buffer \in Seq(Int) /\ Len(buffer) = c2
         /\ \A i \in 1 .. d : buffer[i] = dels[i]
         /\ \A i \in 1 .. m : buffer[c2 - m + i] = inss[i]
    <3>1. /\ buffer \in Seq(Int) /\ Len(buffer) = (c2 - m) + m
          /\ \A i \in 1 .. (c2 - m) + m :
               buffer[i] = IF i <= c2 - m THEN (dels \o gap)[i] ELSE inss[i - (c2 - m)]
      <4>1. PICK front : front = dels \o gap
        OBVIOUS
      <4>2. front \in Seq(Int) /\ Len(front) = c2 - m /\ buffer = front \o inss
        BY <2>7, <2>9, <4>1
      <4>3. /\ buffer \in Seq(Int) /\ Len(buffer) = Len(front) + Len(inss)
            /\ \A i \in 1 .. Len(front) + Len(inss) :
                 buffer[i] = IF i <= Len(front) THEN front[i] ELSE inss[i - Len(front)]
        BY <2>4, <4>2, ConcatProperties
      <4>4. Len(front) = c2 - m /\ Len(inss) = m
        BY <2>4, <4>2
      <4> QED
        BY <4>1, <4>3, <4>4
    <3>2. /\ (c2 - m) + m = c2 /\ \A i \in 1 .. d : i <= c2 - m /\ i \in 1 .. (c2 - m) + m
          /\ \A i \in 1 .. m : /\ c2 - m + i \in 1 .. (c2 - m) + m /\ ~ (c2 - m + i <= c2 - m)
                               /\ (c2 - m + i) - (c2 - m) = i
      BY <2>1, <2>2
    <3>3. \A i \in 1 .. m : buffer[c2 - m + i] = inss[i]
      BY <3>1, <3>2
    <3> QED
      BY <2>9, <3>1, <3>2, <3>3
  <2>11. /\ u2.capacity = c2 /\ u2.buffer = buffer /\ u2.deletes_count = d /\ u2.inserts_count = m
         /\ BufferOK(u2)
    <3>1. u \in [capacity : Nat, deletes_count : Nat, inserts_count : Nat, buffer : Seq(Int)]
      BY DEF BufferOK
    <3>2. /\ u2.capacity = c2 /\ u2.buffer = buffer
          /\ u2.deletes_count = u.deletes_count /\ u2.inserts_count = u.inserts_count
          /\ u2 \in [capacity : Nat, deletes_count : Nat, inserts_count : Nat, buffer : Seq(Int)]
      BY <2>8, <2>10, <3>1
    <3>3. d + m <= c2
      <4>1. d + m = c /\ c2 > c
        BY <2>1, <2>2
      <4> QED
        BY <4>1
    <3> QED
      BY <2>1, <2>10, <3>2, <3>3 DEF BufferOK
  <2>12. /\ UnaryDeletes(u2) \in Seq(Int) /\ Len(UnaryDeletes(u2)) = d
         /\ \A k \in 1 .. d : UnaryDeletes(u2)[k] = buffer[k]
         /\ UnaryInserts(u2) \in Seq(Int) /\ Len(UnaryInserts(u2)) = m
         /\ \A k \in 1 .. m : UnaryInserts(u2)[k] = buffer[c2 - m + k]
    BY <2>11, BufferFacts
  <2>13. UnaryDeletes(u2) = dels /\ UnaryInserts(u2) = inss
    BY <2>4, <2>10, <2>12, SeqEqual
  <2> QED
    BY <2>1, <2>2, <2>3, <2>11, <2>13
<1> QED
  BY <1>1, <1>2

\* Staging a delete adds it to the deletes.
LEMMA UnaryDeleteFacts ==
  ASSUME NEW u, BufferOK(u), NEW value \in Int, NEW u2, u2 = unary_table_delete(u, value)
  PROVE  /\ BufferOK(u2) /\ UnaryDeletes(u2) = Append(UnaryDeletes(u), value)
         /\ UnaryInserts(u2) = UnaryInserts(u)
<1>1. PICK v : v = WithRoom(u)
  OBVIOUS
<1>2. /\ BufferOK(v) /\ v.deletes_count + v.inserts_count < v.capacity
      /\ UnaryDeletes(v) = UnaryDeletes(u) /\ UnaryInserts(v) = UnaryInserts(u)
  BY <1>1, RoomFacts
<1>3. PICK c \in Nat, d \in Nat, m \in Nat, b \in Seq(Int) :
        /\ c = v.capacity /\ d = v.deletes_count /\ m = v.inserts_count /\ b = v.buffer
        /\ Len(b) = c /\ d + m < c
  BY <1>2 DEF BufferOK
<1>31. d + m < c
  BY <1>3
<1>4. u2 = [v EXCEPT !.buffer[d + 1] = value, !.deletes_count = @ + 1]
  BY <1>1, <1>3 DEF unary_table_delete
<1>5. PICK b2 : b2 = [b EXCEPT ![d + 1] = value]
  OBVIOUS
<1>6. /\ b2 \in Seq(Int) /\ Len(b2) = c
      /\ \A j \in 1 .. c : b2[j] = IF j = d + 1 THEN value ELSE b[j]
  <2>1. d + 1 \in 1 .. Len(b)
    BY <1>3
  <2> QED
    BY <1>3, <1>5, <2>1, ExceptSeq
<1>7. u2.capacity = c /\ u2.deletes_count = d + 1 /\ u2.inserts_count = m /\ u2.buffer = b2 /\ BufferOK(u2)
  <2>1. v \in [capacity : Nat, deletes_count : Nat, inserts_count : Nat, buffer : Seq(Int)]
    BY <1>2 DEF BufferOK
  <2>2. /\ u2.capacity = v.capacity /\ u2.buffer = b2
        /\ u2.deletes_count = v.deletes_count + 1 /\ u2.inserts_count = v.inserts_count
        /\ u2 \in [capacity : Nat, deletes_count : Nat, inserts_count : Nat, buffer : Seq(Int)]
    <3>1. u2 = [v EXCEPT !.buffer = b2, !.deletes_count = v.deletes_count + 1]
      BY <1>3, <1>4, <1>5
    <3>2. b2 \in Seq(Int) /\ v.deletes_count + 1 \in Nat
      BY <1>6, <2>1
    <3> QED
      BY <2>1, <3>1, <3>2
  <2>3. d + 1 + m <= c
    BY <1>31
  <2> QED
    BY <1>3, <1>6, <2>2, <2>3 DEF BufferOK
<1>8. /\ UnaryDeletes(v) \in Seq(Int) /\ Len(UnaryDeletes(v)) = d
      /\ \A k \in 1 .. d : UnaryDeletes(v)[k] = b[k]
      /\ UnaryInserts(v) \in Seq(Int) /\ Len(UnaryInserts(v)) = m
      /\ \A k \in 1 .. m : UnaryInserts(v)[k] = b[c - m + k]
  BY <1>2, <1>3, BufferFacts
<1>9. /\ UnaryDeletes(u2) \in Seq(Int) /\ Len(UnaryDeletes(u2)) = d + 1
      /\ \A k \in 1 .. d + 1 : UnaryDeletes(u2)[k] = b2[k]
      /\ UnaryInserts(u2) \in Seq(Int) /\ Len(UnaryInserts(u2)) = m
      /\ \A k \in 1 .. m : UnaryInserts(u2)[k] = b2[c - m + k]
  BY <1>7, BufferFacts
<1>10. UnaryInserts(u2) = UnaryInserts(v)
  <2>1. \A k \in 1 .. m : c - m + k \in 1 .. c /\ c - m + k # d + 1
    BY <1>31
  <2>2. \A k \in 1 .. m : UnaryInserts(u2)[k] = UnaryInserts(v)[k]
    BY <1>6, <1>8, <1>9, <2>1
  <2> QED
    BY <1>8, <1>9, <2>2, SeqEqual
<1>11. UnaryDeletes(u2) = Append(UnaryDeletes(v), value)
  <2>1. /\ Append(UnaryDeletes(v), value) \in Seq(Int) /\ Len(Append(UnaryDeletes(v), value)) = d + 1
        /\ \A k \in 1 .. d : Append(UnaryDeletes(v), value)[k] = UnaryDeletes(v)[k]
        /\ Append(UnaryDeletes(v), value)[d + 1] = value
    BY <1>8, AppendProperties
  <2>2. \A k \in 1 .. d + 1 : k \in 1 .. c /\ (k = d + 1 \/ k \in 1 .. d)
    BY <1>31
  <2>3. ASSUME NEW k \in 1 .. d + 1 PROVE UnaryDeletes(u2)[k] = Append(UnaryDeletes(v), value)[k]
    BY <1>6, <1>8, <1>9, <2>1, <2>2
  <2> QED
    BY <1>9, <2>1, <2>3, SeqEqual
<1> QED
  BY <1>2, <1>7, <1>10, <1>11

\* And an insert to the inserts.
LEMMA UnaryInsertFacts ==
  ASSUME NEW u, BufferOK(u), NEW value \in Int, NEW u2, u2 = unary_table_insert(u, value)
  PROVE  /\ BufferOK(u2) /\ UnaryDeletes(u2) = UnaryDeletes(u)
         /\ Range(UnaryInserts(u2)) = Range(UnaryInserts(u)) \cup {value}
<1>1. PICK v : v = WithRoom(u)
  OBVIOUS
<1>2. /\ BufferOK(v) /\ v.deletes_count + v.inserts_count < v.capacity
      /\ UnaryDeletes(v) = UnaryDeletes(u) /\ UnaryInserts(v) = UnaryInserts(u)
  BY <1>1, RoomFacts
<1>3. PICK c \in Nat, d \in Nat, m \in Nat, b \in Seq(Int) :
        /\ c = v.capacity /\ d = v.deletes_count /\ m = v.inserts_count /\ b = v.buffer
        /\ Len(b) = c /\ d + m < c
  BY <1>2 DEF BufferOK
<1>31. d + m < c
  BY <1>3
<1>4. u2 = [v EXCEPT !.buffer[c - m] = value, !.inserts_count = @ + 1]
  BY <1>1, <1>3 DEF unary_table_insert
<1>5. PICK b2 : b2 = [b EXCEPT ![c - m] = value]
  OBVIOUS
<1>6. /\ b2 \in Seq(Int) /\ Len(b2) = c
      /\ \A j \in 1 .. c : b2[j] = IF j = c - m THEN value ELSE b[j]
  <2>1. c - m \in 1 .. Len(b)
    BY <1>3
  <2> QED
    BY <1>3, <1>5, <2>1, ExceptSeq
<1>7. u2.capacity = c /\ u2.deletes_count = d /\ u2.inserts_count = m + 1 /\ u2.buffer = b2 /\ BufferOK(u2)
  <2>1. v \in [capacity : Nat, deletes_count : Nat, inserts_count : Nat, buffer : Seq(Int)]
    BY <1>2 DEF BufferOK
  <2>2. /\ u2.capacity = v.capacity /\ u2.buffer = b2
        /\ u2.deletes_count = v.deletes_count /\ u2.inserts_count = v.inserts_count + 1
        /\ u2 \in [capacity : Nat, deletes_count : Nat, inserts_count : Nat, buffer : Seq(Int)]
    <3>1. u2 = [v EXCEPT !.buffer = b2, !.inserts_count = v.inserts_count + 1]
      BY <1>3, <1>4, <1>5
    <3>2. b2 \in Seq(Int) /\ v.inserts_count + 1 \in Nat
      BY <1>6, <2>1
    <3> QED
      BY <2>1, <3>1, <3>2
  <2>3. d + (m + 1) <= c
    BY <1>31
  <2> QED
    BY <1>3, <1>6, <2>2, <2>3 DEF BufferOK
<1>8. /\ UnaryDeletes(v) \in Seq(Int) /\ Len(UnaryDeletes(v)) = d
      /\ \A k \in 1 .. d : UnaryDeletes(v)[k] = b[k]
      /\ UnaryInserts(v) \in Seq(Int) /\ Len(UnaryInserts(v)) = m
      /\ \A k \in 1 .. m : UnaryInserts(v)[k] = b[c - m + k]
  BY <1>2, <1>3, BufferFacts
<1>9. /\ UnaryDeletes(u2) \in Seq(Int) /\ Len(UnaryDeletes(u2)) = d
      /\ \A k \in 1 .. d : UnaryDeletes(u2)[k] = b2[k]
      /\ UnaryInserts(u2) \in Seq(Int) /\ Len(UnaryInserts(u2)) = m + 1
      /\ \A k \in 1 .. m + 1 : UnaryInserts(u2)[k] = b2[c - (m + 1) + k]
  <2>1. PICK m1 \in Nat : m1 = m + 1
    OBVIOUS
  <2>2. u2.capacity = c /\ u2.deletes_count = d /\ u2.inserts_count = m1 /\ u2.buffer = b2 /\ BufferOK(u2)
    BY <1>7, <2>1
  <2>3. /\ UnaryDeletes(u2) \in Seq(Int) /\ Len(UnaryDeletes(u2)) = d
        /\ \A k \in 1 .. d : UnaryDeletes(u2)[k] = b2[k]
        /\ UnaryInserts(u2) \in Seq(Int) /\ Len(UnaryInserts(u2)) = m1
        /\ \A k \in 1 .. m1 : UnaryInserts(u2)[k] = b2[c - m1 + k]
    BY <2>2, BufferFacts
  <2> QED
    BY <2>1, <2>3
<1>10. UnaryDeletes(u2) = UnaryDeletes(v)
  <2>1. \A k \in 1 .. d : k \in 1 .. c /\ k # c - m
    BY <1>31
  <2>2. \A k \in 1 .. d : UnaryDeletes(u2)[k] = UnaryDeletes(v)[k]
    BY <1>6, <1>8, <1>9, <2>1
  <2> QED
    BY <1>8, <1>9, <2>2, SeqEqual
<1>11. Range(UnaryInserts(u2)) = Range(UnaryInserts(v)) \cup {value}
  <2>1. UnaryInserts(u2)[1] = value
    <3>1. 1 \in 1 .. m + 1 /\ c - (m + 1) + 1 = c - m /\ c - m \in 1 .. c
      BY <1>31
    <3> QED
      BY <1>6, <1>9, <3>1
  <2>2. \A k \in 1 .. m : UnaryInserts(u2)[k + 1] = UnaryInserts(v)[k]
    <3>1. \A k \in 1 .. m : /\ k + 1 \in 1 .. m + 1 /\ c - (m + 1) + (k + 1) = c - m + k
                            /\ c - m + k \in 1 .. c /\ c - m + k # c - m
      BY <1>31
    <3> TAKE k \in 1 .. m
    <3>2. UnaryInserts(u2)[k + 1] = b2[c - (m + 1) + (k + 1)]
      BY <1>9, <3>1
    <3>3. UnaryInserts(u2)[k + 1] = b2[c - m + k]
      BY <3>1, <3>2
    <3>4. b2[c - m + k] = b[c - m + k]
      BY <1>6, <3>1
    <3> QED
      BY <1>8, <3>3, <3>4
  <2>3. DOMAIN UnaryInserts(u2) = 1 .. m + 1 /\ DOMAIN UnaryInserts(v) = 1 .. m
    BY <1>8, <1>9, LenProperties
  <2>4. \A k \in 1 .. m + 1 : k = 1 \/ \E j \in 1 .. m : k = j + 1
    <3>1. \A k \in 1 .. m + 1 : k = 1 \/ (k - 1 \in 1 .. m /\ k = (k - 1) + 1)
      OBVIOUS
    <3> QED
      BY <3>1
  <2>5. 1 \in 1 .. m + 1 /\ \A k \in 1 .. m : k + 1 \in 1 .. m + 1
    OBVIOUS
  <2>6. PICK old, new : old = UnaryInserts(v) /\ new = UnaryInserts(u2)
    OBVIOUS
  <2>7. Range(old) = {old[k] : k \in 1 .. m} /\ Range(new) = {new[k] : k \in 1 .. m + 1}
    BY <2>3, <2>6 DEF Range
  <2>8. new[1] = value /\ \A k \in 1 .. m : new[k + 1] = old[k]
    BY <2>1, <2>2, <2>6
  <2>9. Range(new) = Range(old) \cup {value}
    <3>1. ASSUME NEW x \in Range(new) PROVE x \in Range(old) \cup {value}
      <4>1. PICK k \in 1 .. m + 1 : x = new[k]
        BY <2>7
      <4>2. CASE k = 1
        BY <2>8, <4>1, <4>2
      <4>3. CASE \E j \in 1 .. m : k = j + 1
        BY <2>7, <2>8, <4>1, <4>3
      <4> QED
        BY <2>4, <4>2, <4>3
    <3>2. ASSUME NEW x \in Range(old) PROVE x \in Range(new)
      <4>1. PICK k \in 1 .. m : x = old[k]
        BY <2>7
      <4>2. k + 1 \in 1 .. m + 1 /\ x = new[k + 1]
        BY <2>5, <2>8, <4>1
      <4> QED
        BY <2>7, <4>2
    <3>3. value \in Range(new)
      BY <2>5, <2>7, <2>8
    <3> QED
      BY <3>1, <3>2, <3>3
  <2> QED
    BY <2>6, <2>9
<1> QED
  BY <1>2, <1>7, <1>10, <1>11

\* The elements of a sequence that has grown.
LEMMA RangeAppend ==
  ASSUME NEW S, NEW s \in Seq(S), NEW x
  PROVE  Range(Append(s, x)) = Range(s) \cup {x}
<1> DEFINE T == S \cup {x}
<1>1. s \in Seq(T) /\ x \in T
  BY SeqMonotonic
<1>2. PICK m \in Nat : m = Len(s) /\ DOMAIN s = 1 .. m
  BY LenProperties
<1>3. /\ Append(s, x) \in Seq(T) /\ Len(Append(s, x)) = m + 1
      /\ \A i \in 1 .. m : Append(s, x)[i] = s[i]
      /\ Append(s, x)[m + 1] = x
  <2> HIDE DEF T
  <2> QED
    BY <1>1, <1>2, AppendProperties
<1>4. PICK new : new = Append(s, x)
  OBVIOUS
<1>5. DOMAIN new = 1 .. m + 1
  BY <1>3, <1>4, LenProperties
<1>6. \A i : i \in 1 .. m + 1 <=> i \in 1 .. m \/ i = m + 1
  OBVIOUS
<1>7. Range(new) = {new[i] : i \in 1 .. m + 1} /\ Range(s) = {s[i] : i \in 1 .. m}
  BY <1>2, <1>5 DEF Range
<1>8. \A i \in 1 .. m : new[i] = s[i]
  BY <1>3, <1>4
<1>9. new[m + 1] = x
  BY <1>3, <1>4
<1>10. Range(new) = Range(s) \cup {x}
  <2>1. ASSUME NEW y \in Range(new) PROVE y \in Range(s) \cup {x}
    BY <1>6, <1>7, <1>8, <1>9
  <2>2. Range(s) \cup {x} \subseteq Range(new)
    BY <1>6, <1>7, <1>8, <1>9
  <2> QED
    BY <2>1, <2>2
<1> QED
  BY <1>4, <1>10

\* Those of two sequences put together.
LEMMA RangeConcat ==
  ASSUME NEW S, NEW s \in Seq(S), NEW t \in Seq(S)
  PROVE  Range(s \o t) = Range(s) \cup Range(t)
<1>1. PICK m \in Nat : m = Len(s) /\ DOMAIN s = 1 .. m
  BY LenProperties
<1>2. PICK n \in Nat : n = Len(t) /\ DOMAIN t = 1 .. n
  BY LenProperties
<1>3. PICK new : new = s \o t
  OBVIOUS
<1>4. /\ new \in Seq(S) /\ Len(new) = m + n
      /\ \A i \in 1 .. m + n : new[i] = IF i <= m THEN s[i] ELSE t[i - m]
  BY <1>1, <1>2, <1>3, ConcatProperties
<1>5. DOMAIN new = 1 .. m + n
  BY <1>4, LenProperties
<1>6. /\ Range(new) = {new[i] : i \in 1 .. m + n}
      /\ Range(s) = {s[i] : i \in 1 .. m} /\ Range(t) = {t[i] : i \in 1 .. n}
  BY <1>1, <1>2, <1>5 DEF Range
<1>7. /\ \A i \in 1 .. m : i \in 1 .. m + n /\ i <= m
      /\ \A i \in 1 .. n : i + m \in 1 .. m + n /\ ~ (i + m <= m) /\ (i + m) - m = i
      /\ \A i \in 1 .. m + n : i \in 1 .. m \/ i - m \in 1 .. n
      /\ \A i \in 1 .. m + n : i <= m => i \in 1 .. m
      /\ \A i \in 1 .. m + n : ~ (i <= m) => i - m \in 1 .. n
  OBVIOUS
<1>8. \A i \in 1 .. m : new[i] = s[i]
  BY <1>4, <1>7
<1>9. \A i \in 1 .. n : new[i + m] = t[i]
  <2> TAKE i \in 1 .. n
  <2>1. new[i + m] = t[(i + m) - m]
    BY <1>4, <1>7
  <2> QED
    BY <1>7, <2>1
<1>10. Range(new) = Range(s) \cup Range(t)
  <2>1. ASSUME NEW y \in Range(new) PROVE y \in Range(s) \cup Range(t)
    <3>1. PICK i \in 1 .. m + n : y = new[i]
      BY <1>6
    <3> QED
      BY <1>4, <1>6, <1>7, <3>1
  <2>2. Range(s) \subseteq Range(new)
    BY <1>6, <1>7, <1>8
  <2>3. Range(t) \subseteq Range(new)
    BY <1>6, <1>7, <1>9
  <2> QED
    BY <2>1, <2>2, <2>3
<1> QED
  BY <1>3, <1>10

\* The loop that deletes every surrogate exists.
LEMMA UnaryClearSteps ==
  ASSUME NEW table, NEW updates, NEW iter, iter = unary_table_get_iter(table), Len(iter) \in Nat
  PROVE  \E r : /\ r[0] = updates /\ unary_table_clear(table, updates) = r[Len(iter)]
                /\ \A k \in Nat : k < Len(iter) => r[k + 1] = unary_table_delete(r[k], iter[k + 1])
<1> DEFINE Loop(r, n) == r = [k \in 0 .. n |-> IF k = 0 THEN updates ELSE unary_table_delete(r[k - 1], iter[k])]
           N == {n \in Nat : \E r : Loop(r, n)}
           loop == CHOOSE r : Loop(r, Len(iter))
<1>1. 0 \in N
  <2>1. Loop([k \in 0 .. 0 |-> updates], 0)
    OBVIOUS
  <2> HIDE DEF Loop
  <2> QED
    BY <2>1
<1>2. ASSUME NEW n \in N, n \in Nat PROVE n + 1 \in N
  <2>1. PICK r : Loop(r, n)
    BY <1>2
  <2> DEFINE q == [k \in 0 .. n + 1 |-> IF k = n + 1 THEN unary_table_delete(r[n], iter[n + 1]) ELSE r[k]]
  <2>2. \A k \in 0 .. n : r[k] = IF k = 0 THEN updates ELSE unary_table_delete(r[k - 1], iter[k])
    BY <2>1
  <2>3. ASSUME NEW k \in 0 .. n + 1
        PROVE  q[k] = IF k = 0 THEN updates ELSE unary_table_delete(q[k - 1], iter[k])
    <3>1. CASE k = n + 1
      <4>1. k - 1 = n /\ k # 0 /\ n \in 0 .. n + 1 /\ n # n + 1
        BY <1>2, <3>1
      <4>2. q[k] = unary_table_delete(r[n], iter[n + 1]) /\ q[n] = r[n]
        BY <3>1, <4>1
      <4> QED
        BY <3>1, <4>1, <4>2
    <3>2. CASE k # n + 1
      <4>1. k \in 0 .. n /\ q[k] = r[k]
        BY <1>2, <3>2
      <4>2. CASE k = 0
        BY <2>2, <4>1, <4>2
      <4>3. CASE k # 0
        <5>1. k - 1 \in 0 .. n + 1 /\ k - 1 # n + 1
          BY <1>2, <4>1, <4>3
        <5>2. q[k - 1] = r[k - 1]
          BY <5>1
        <5> QED
          BY <2>2, <4>1, <4>3, <5>2
      <4> QED
        BY <4>2, <4>3
    <3> QED
      BY <3>1, <3>2
  <2>4. Loop(q, n + 1)
    <3>1. q = [k \in 0 .. n + 1 |-> q[k]]
      OBVIOUS
    <3> HIDE DEF q
    <3> QED
      BY <2>3, <3>1
  <2> HIDE DEF Loop, q
  <2> QED
    BY <1>2, <2>4
<1>3. \E r : Loop(r, Len(iter))
  <2>1. Nat \subseteq N
    <3> HIDE DEF N
    <3> QED
      BY <1>1, <1>2, SetInduction
  <2> QED
    BY <2>1
<1>4. unary_table_clear(table, updates) = loop[Len(iter)]
  BY DEF unary_table_clear
<1>5. Loop(loop, Len(iter))
  <2> HIDE DEF Loop
  <2> QED
    BY <1>3
<1>6. \A k \in 0 .. Len(iter) : loop[k] = IF k = 0 THEN updates ELSE unary_table_delete(loop[k - 1], iter[k])
  <2> HIDE DEF loop
  <2> QED
    BY <1>5
<1> HIDE DEF loop, Loop
<1>7. ASSUME NEW k \in Nat, k < Len(iter) PROVE loop[k + 1] = unary_table_delete(loop[k], iter[k + 1])
  <2>1. k + 1 \in 0 .. Len(iter) /\ k + 1 # 0 /\ (k + 1) - 1 = k
    BY <1>7
  <2> QED
    BY <1>6, <2>1
<1> QED
  BY <1>4, <1>6, <1>7

\* An iterator goes through the surrogates of the bitmap, once each.
LEMMA UnaryIterFacts ==
  ASSUME NEW table, table.bitmap \in SUBSET Nat, IsFiniteSet(table.bitmap),
         NEW iter, iter = unary_table_get_iter(table)
  PROVE  iter \in Seq(Nat) /\ Range(iter) = table.bitmap
<1> DEFINE rows == UnaryRows(table)
           m == Cardinality(rows)
<1>1. \A v \in Nat : <<v>> \in [1 .. 1 -> Nat] /\ <<v>>[1] = v
  OBVIOUS
<1>2. rows \in SUBSET [1 .. 1 -> Nat]
  BY <1>1 DEF UnaryRows
<1>3. IsFiniteSet(rows)
  <2>1. [v \in table.bitmap |-> <<v>>] \in Surjection(table.bitmap, rows)
    BY DEF Surjection, UnaryRows
  <2> HIDE DEF rows
  <2> QED
    BY <2>1, FS_Surjection
<1>4. PICK s : s = InOrder(rows)
  OBVIOUS
<1>5. DOMAIN s = 1 .. m /\ m \in Nat /\ s \in Seq(rows) /\ Len(s) = m /\ Range(s) = rows
  <2> HIDE DEF rows
  <2> QED
    BY <1>2, <1>3, <1>4, InOrderFacts
<1>6. iter = [i \in 1 .. m |-> s[i][1]]
  BY <1>4, <1>5 DEF unary_table_get_iter
<1>7. \A i \in 1 .. m : \E v \in table.bitmap : s[i] = <<v>> /\ iter[i] = v
  <2>1. \A i \in 1 .. m : s[i] \in rows
    <3> HIDE DEF rows
    <3> QED
      BY <1>5, ElementOfSeq
  <2>2. \A i \in 1 .. m : iter[i] = s[i][1]
    <3> HIDE DEF m
    <3> QED
      BY <1>6
  <2> HIDE DEF m
  <2> QED
    BY <1>1, <2>1, <2>2 DEF UnaryRows
<1>8. DOMAIN iter = 1 .. m
  <2> HIDE DEF m
  <2> QED
    BY <1>6
<1>9. iter \in Seq(Nat)
  <2>1. iter = [i \in 1 .. m |-> iter[i]]
    <3> HIDE DEF m
    <3> QED
      BY <1>6
  <2>2. iter \in [1 .. m -> Nat]
    <3> HIDE DEF m
    <3> QED
      BY <1>7, <2>1
  <2> HIDE DEF m
  <2> QED
    BY <1>5, <2>2, SeqDef
<1>10. ASSUME NEW v \in table.bitmap PROVE \E i \in 1 .. m : iter[i] = v
  <2>1. <<v>> \in rows
    BY DEF UnaryRows
  <2>2. PICK i \in 1 .. m : s[i] = <<v>>
    <3> HIDE DEF rows, m
    <3> QED
      BY <1>5, <2>1 DEF Range
  <2> HIDE DEF m
  <2> QED
    BY <1>7, <2>2
<1> HIDE DEF m
<1> QED
  BY <1>7, <1>8, <1>9, <1>10 DEF Range

\* Clearing stages the deletion of all that is in the table.
LEMMA UnaryClearFacts ==
  ASSUME NEW table, table.bitmap \in SUBSET Nat, IsFiniteSet(table.bitmap),
         NEW u, BufferOK(u), NEW u2, u2 = unary_table_clear(table, u)
  PROVE  /\ BufferOK(u2) /\ UnaryInserts(u2) = UnaryInserts(u)
         /\ Range(UnaryDeletes(u2)) = Range(UnaryDeletes(u)) \cup table.bitmap
<1>1. PICK iter : iter = unary_table_get_iter(table)
  OBVIOUS
<1>2. iter \in Seq(Nat) /\ Range(iter) = table.bitmap
  BY <1>1, UnaryIterFacts
<1>3. PICK m \in Nat : m = Len(iter) /\ DOMAIN iter = 1 .. m /\ \A i \in 1 .. m : iter[i] \in Nat
  BY <1>2, LenProperties
<1>4. PICK r : /\ r[0] = u /\ u2 = r[m]
               /\ \A k \in Nat : k < m => r[k + 1] = unary_table_delete(r[k], iter[k + 1])
  BY <1>1, <1>3, UnaryClearSteps
<1> DEFINE Staged(k) == /\ BufferOK(r[k]) /\ UnaryInserts(r[k]) = UnaryInserts(u)
                        /\ Range(UnaryDeletes(r[k])) = Range(UnaryDeletes(u)) \cup {iter[i] : i \in 1 .. k}
           N == {k \in Nat : k <= m => Staged(k)}
<1>5. 0 \in N
  <2>1. {iter[i] : i \in 1 .. 0} = {}
    OBVIOUS
  <2> QED
    BY <1>4, <2>1
<1>6. ASSUME NEW k \in N, k \in Nat PROVE k + 1 \in N
  <2> SUFFICES ASSUME k + 1 <= m PROVE Staged(k + 1)
    BY <1>6
  <2>1. Staged(k) /\ k < m /\ k + 1 \in 1 .. m
    BY <1>6
  <2>2. PICK v, v2 : v = r[k] /\ v2 = r[k + 1]
    OBVIOUS
  <2>9. PICK x \in Int : x = iter[k + 1]
    BY <1>3, <2>1
  <2>3. v2 = unary_table_delete(v, x)
    BY <1>4, <1>6, <2>1, <2>2, <2>9
  <2>4. /\ BufferOK(v) /\ UnaryInserts(v) = UnaryInserts(u)
        /\ Range(UnaryDeletes(v)) = Range(UnaryDeletes(u)) \cup {iter[i] : i \in 1 .. k}
    BY <2>1, <2>2
  <2> HIDE DEF Staged
  <2>5. /\ BufferOK(v2) /\ UnaryDeletes(v2) = Append(UnaryDeletes(v), x)
        /\ UnaryInserts(v2) = UnaryInserts(v)
    BY <2>3, <2>4, UnaryDeleteFacts
  <2>6. Range(UnaryDeletes(v2)) = Range(UnaryDeletes(v)) \cup {x}
    <3>1. PICK d : d = UnaryDeletes(v)
      OBVIOUS
    <3>2. d \in Seq(Int) /\ Len(d) \in Nat /\ DOMAIN d = 1 .. Len(d)
      BY <2>4, <3>1, BufferFacts, LenProperties
    <3> QED
      BY <2>5, <3>1, <3>2, RangeAppend
  <2>7. {iter[i] : i \in 1 .. k + 1} = {iter[i] : i \in 1 .. k} \cup {x}
    <3>1. \A i : i \in 1 .. k + 1 <=> i \in 1 .. k \/ i = k + 1
      BY <1>6
    <3> QED
      BY <2>9, <3>1
  <2>8. Range(UnaryDeletes(v2)) = Range(UnaryDeletes(u)) \cup {iter[i] : i \in 1 .. k + 1}
    BY <2>4, <2>6, <2>7
  <2> QED
    BY <2>2, <2>4, <2>5, <2>8 DEF Staged
<1>7. m \in N
  <2>1. Nat \subseteq N
    <3> HIDE DEF N
    <3> QED
      BY <1>5, <1>6, SetInduction
  <2> QED
    BY <2>1
<1>8. Staged(m)
  BY <1>7
<1>9. {iter[i] : i \in 1 .. m} = table.bitmap
  BY <1>2, <1>3 DEF Range
<1> QED
  BY <1>4, <1>8, <1>9

-----------------------------------------------------------------------------
(***************************************************************************)
(* Applying.                                                               *)
(***************************************************************************)

\* Two sets that are apart have as many elements as both together.
LEMMA DisjointSize ==
  ASSUME NEW A, IsFiniteSet(A), NEW B, IsFiniteSet(B), A \cap B = {}
  PROVE  IsFiniteSet(A \cup B) /\ Cardinality(A \cup B) = Cardinality(A) + Cardinality(B)
<1>1. Cardinality(A \cup B) = Cardinality(A) + Cardinality(B) - Cardinality(A \cap B)
  BY FS_Union
<1>2. Cardinality(A \cap B) = 0 /\ Cardinality(A) \in Nat /\ Cardinality(B) \in Nat
  BY FS_EmptySet, FS_CardinalityType
<1> QED
  BY <1>1, <1>2, FS_Union

\* A function on the first numbers is a sequence of that length.
LEMMA FunctionSeq ==
  ASSUME NEW n \in Nat, NEW S, NEW s \in [1 .. n -> S]
  PROVE  s \in Seq(S) /\ Len(s) = n
<1>1. s \in Seq(S)
  BY SeqDef
<1>2. Len(s) \in Nat /\ 1 .. Len(s) = 1 .. n
  BY <1>1, LenProperties
<1> QED
  BY <1>1, <1>2

\* Marking leaves each staged delete that finds its row, once.
LEMMA MarkErasedFacts ==
  ASSUME NEW deletes, Len(deletes) \in Nat, DOMAIN deletes = 1 .. Len(deletes),
         NEW rows, ERASED \notin rows, NEW marked, marked = MarkErased(deletes, rows)
  PROVE  /\ Len(marked) \in Nat /\ DOMAIN marked = 1 .. Len(marked)
         /\ Range(marked) \ {ERASED} = Range(deletes) \cap rows
         /\ \A k \in DOMAIN marked : marked[k] = ERASED \/ marked[k] \in rows
         /\ \A j, k \in DOMAIN marked : marked[j] = marked[k] /\ marked[j] # ERASED => j = k
<1>1. PICK n \in Nat : n = Len(deletes) /\ DOMAIN deletes = 1 .. n
  OBVIOUS
<1>2. /\ marked = [i \in 1 .. n |->
           IF deletes[i] \in rows /\ \A j \in 1 .. i - 1 : deletes[j] # deletes[i]
           THEN deletes[i] ELSE ERASED]
      /\ DOMAIN marked = 1 .. n
  BY <1>1 DEF MarkErased
<1>3. Len(marked) = n
  <2>1. marked \in [1 .. n -> Range(marked)]
    BY <1>2 DEF Range
  <2> QED
    BY <2>1, FunctionSeq
<1>4. \A k \in 1 .. n : marked[k] = ERASED \/ (marked[k] = deletes[k] /\ deletes[k] \in rows)
  BY <1>2
<1>5. ASSUME NEW j \in 1 .. n, NEW k \in 1 .. n, marked[j] = marked[k], marked[j] # ERASED, j < k
      PROVE  FALSE
  <2>1. deletes[j] = deletes[k]
    BY <1>4, <1>5
  <2>2. j \in 1 .. k - 1
    BY <1>5
  <2>3. marked[k] = ERASED
    BY <1>2, <2>1, <2>2
  <2> QED
    BY <1>5, <2>3
<1>6. \A j, k \in 1 .. n : marked[j] = marked[k] /\ marked[j] # ERASED => j = k
  <2> TAKE j, k \in 1 .. n
  <2>1. j < k \/ j = k \/ k < j
    OBVIOUS
  <2> QED
    BY <1>5, <2>1
<1>7. ASSUME NEW row \in Range(deletes) \cap rows
      PROVE  row \in Range(marked) \ {ERASED}
  <2> DEFINE At == {i \in 1 .. n : deletes[i] = row}
  <2>1. At \in SUBSET Nat /\ At # {}
    BY <1>1, <1>7 DEF Range
  <2>2. PICK k \in At : \A j \in At : k <= j
    <3> HIDE DEF At
    <3> QED
      BY <2>1, LeastNat
  <2>3. k \in 1 .. n /\ deletes[k] = row
    BY <2>2
  <2>4. \A j \in 1 .. k - 1 : deletes[j] # deletes[k]
    <3>1. \A j \in 1 .. k - 1 : j \in 1 .. n /\ ~ (k <= j)
      BY <2>3
    <3> QED
      BY <2>2, <2>3, <3>1
  <2>5. marked[k] = row
    BY <1>2, <1>7, <2>3, <2>4
  <2> QED
    BY <1>2, <1>7, <2>3, <2>5 DEF Range
<1>8. ASSUME NEW row \in Range(marked) \ {ERASED}
      PROVE  row \in Range(deletes) \cap rows
  <2>1. PICK k \in 1 .. n : row = marked[k]
    BY <1>2, <1>8 DEF Range
  <2> QED
    BY <1>1, <1>4, <1>8, <2>1 DEF Range
<1>9. Range(marked) \ {ERASED} = Range(deletes) \cap rows
  BY <1>7, <1>8
<1> QED
  BY <1>2, <1>3, <1>4, <1>6, <1>9

\* The rows of one column with the given surrogates; an erased one is -1.
SingleRows(xs) == [i \in DOMAIN xs |-> <<xs[i]>>]
Unerased(xs) == [i \in DOMAIN xs |-> IF xs[i] = -1 THEN ERASED ELSE <<xs[i]>>]

\* What applying staged updates makes of a unary table, if no surrogate is
\* beyond its bitmap.
UnaryApplied(table, u, store, out) ==
  LET D == Range(UnaryDeletes(u))
      I == Range(UnaryInserts(u))
      kept == table.bitmap \ D
  IN  /\ out.table = [bitmap |-> kept \cup I, size |-> table.size, count |-> Cardinality(kept \cup I)]
      /\ out.store = AddRefs(store, {<<value>> : value \in I \ kept})
      /\ BufferOK(out.updates)
      /\ UnaryInserts(out.updates) = UnaryInserts(u)
      /\ Unerased(UnaryDeletes(out.updates)) = MarkErased(SingleRows(UnaryDeletes(u)), UnaryRows(table))

\* The bitmap is left exact, and its count.
LEMMA UnaryApplyFacts ==
  ASSUME NEW table, IsFiniteSet(table.bitmap), table.count = Cardinality(table.bitmap),
         NEW u, BufferOK(u), NEW size \in Nat, size = table.size,
         \A value \in Range(UnaryDeletes(u)) : value \in Nat /\ value < size,
         \A value \in Range(UnaryInserts(u)) : value \in Nat /\ value < size,
         NEW store, NEW out \in unary_table_updates_apply(table, u, store)
  PROVE  UnaryApplied(table, u, store, out)
<1>1. PICK deletes, D, I, B, kept :
        /\ deletes = UnaryDeletes(u) /\ D = Range(deletes)
        /\ I = Range(UnaryInserts(u)) /\ B = table.bitmap /\ kept = B \ D
  OBVIOUS
<1>2. /\ deletes \in Seq(Int) /\ Len(deletes) \in Nat /\ DOMAIN deletes = 1 .. Len(deletes)
      /\ Len(deletes) = u.deletes_count
      /\ \A k \in 1 .. u.deletes_count : deletes[k] = u.buffer[k]
      /\ \A k \in 1 .. Len(deletes) : deletes[k] \in Nat
  <2>1. /\ deletes \in Seq(Int) /\ Len(deletes) = u.deletes_count
        /\ \A k \in 1 .. u.deletes_count : deletes[k] = u.buffer[k]
    BY <1>1, BufferFacts
  <2>2. Len(deletes) \in Nat /\ DOMAIN deletes = 1 .. Len(deletes)
    BY <2>1, LenProperties
  <2> QED
    BY <1>1, <2>1, <2>2 DEF Range
<1>3. {value \in D : value >= table.size} = {}
  BY <1>1
<1>4. PICK marked :
        marked = [i \in DOMAIN u.buffer |->
                         IF i \in DOMAIN deletes
                            /\ \/ deletes[i] \notin B
                               \/ \E j \in 1 .. i - 1 : deletes[j] = deletes[i]
                         THEN -1 ELSE u.buffer[i]]
  OBVIOUS
<1>5. GrownBitmaps(table, kept, I) = {kept \cup I} /\ NewSize(table, I) = table.size
  BY <1>1 DEF GrownBitmaps, NewSize
<1>6. /\ out.table = [bitmap |-> kept \cup I, size |-> table.size,
                      count |-> table.count - Cardinality(B \ kept)
                                        + Cardinality({<<value>> : value \in I \ kept})]
      /\ out.updates = [u EXCEPT !.buffer = marked]
      /\ out.store = AddRefs(store, {<<value>> : value \in I \ kept})
  <2>1. SUBSET {} = {{}} /\ B \cup {} = B
    OBVIOUS
  <2>2. unary_table_updates_apply(table, u, store) =
          {[table   |-> [bitmap |-> bitmap, size |-> table.size,
                         count |-> table.count - Cardinality(B \ kept)
                                        + Cardinality({<<value>> : value \in I \ kept})],
            updates |-> [u EXCEPT !.buffer = marked],
            store   |-> AddRefs(store, {<<value>> : value \in I \ kept})] : bitmap \in {kept \cup I}}
    <3> DEFINE outcome(read) ==
          LET left == read \ Range(deletes)
              marking == [i \in DOMAIN u.buffer |->
                         IF i \in DOMAIN deletes
                            /\ \/ deletes[i] \notin read
                               \/ \E j \in 1 .. i - 1 : deletes[j] = deletes[i]
                         THEN -1 ELSE u.buffer[i]]
              added == {<<value>> : value \in I \ left}
          IN  {[table   |-> [bitmap |-> bitmap, size |-> NewSize(table, I),
                             count  |-> table.count - Cardinality(read \ left)
                                          + Cardinality(added)],
                updates |-> [u EXCEPT !.buffer = marking],
                store   |-> AddRefs(store, added)] : bitmap \in GrownBitmaps(table, left, I)}
    <3>1. unary_table_updates_apply(table, u, store) =
            UNION {outcome(B \cup garbage) : garbage \in SUBSET {value \in D : value >= table.size}}
      BY <1>1 DEF unary_table_updates_apply
    <3>2. outcome(B) =
            {[table   |-> [bitmap |-> bitmap, size |-> table.size,
                         count |-> table.count - Cardinality(B \ kept)
                                        + Cardinality({<<value>> : value \in I \ kept})],
              updates |-> [u EXCEPT !.buffer = marked],
              store   |-> AddRefs(store, {<<value>> : value \in I \ kept})] : bitmap \in {kept \cup I}}
      <4>1. B \ Range(deletes) = kept
        BY <1>1
      <4> QED
        BY <1>4, <1>5, <4>1
    <3> HIDE DEF outcome
    <3>3. {outcome(B \cup garbage) : garbage \in {{}}} = {outcome(B)}
      BY <2>1
    <3>4. UNION {outcome(B)} = outcome(B)
      OBVIOUS
    <3> QED
      BY <1>3, <2>1, <3>1, <3>2, <3>3, <3>4
  <2> QED
    BY <2>2
<1>20. IsFiniteSet(I) /\ IsFiniteSet(B) /\ IsFiniteSet(kept)
  <2>1. PICK xs : xs = UnaryInserts(u)
    OBVIOUS
  <2>2. xs \in Seq(Int) /\ Len(xs) \in Nat /\ DOMAIN xs = 1 .. Len(xs)
    BY <2>1, BufferFacts, LenProperties
  <2>3. [k \in 1 .. Len(xs) |-> xs[k]] \in Surjection(1 .. Len(xs), I)
    BY <1>1, <2>1, <2>2 DEF Surjection, Range
  <2>4. IsFiniteSet(I)
    BY <2>2, <2>3, IntervalSize, FS_Surjection
  <2> QED
    BY <1>1, <2>4, FS_Subset
<1>21. Cardinality({<<value>> : value \in I \ kept}) = Cardinality(I \ kept)
  <2>1. PICK A : A = I \ kept /\ IsFiniteSet(A)
    BY <1>20, FS_Subset
  <2>2. PICK T : T = {<<value>> : value \in A}
    OBVIOUS
  <2>3. [value \in A |-> <<value>>] \in Bijection(A, T)
    <3>1. \A x, y \in A : <<x>> = <<y>> => x = y
      OBVIOUS
    <3> QED
      BY <2>2, <3>1 DEF Bijection, Injection, Surjection, IsInjective
  <2>4. Cardinality(T) = Cardinality(A)
    BY <2>1, <2>3, FS_Bijection DEF ExistsBijection
  <2> QED
    BY <2>1, <2>2, <2>4
<1>22. table.count - Cardinality(B \ kept) + Cardinality({<<value>> : value \in I \ kept})
         = Cardinality(kept \cup I)
  <2>1. PICK P, A : P = B \ kept /\ A = I \ kept /\ IsFiniteSet(P) /\ IsFiniteSet(A)
    BY <1>20, FS_Subset
  <2>2. B = kept \cup P /\ kept \cap P = {} /\ kept \cup I = kept \cup A /\ kept \cap A = {}
    BY <1>1, <2>1
  <2>3. Cardinality(B) = Cardinality(kept) + Cardinality(P)
    BY <1>20, <2>1, <2>2, DisjointSize
  <2>4. Cardinality(kept \cup I) = Cardinality(kept) + Cardinality(A)
    BY <1>20, <2>1, <2>2, DisjointSize
  <2>5. PICK b, p, a, m \in Nat : b = Cardinality(kept) /\ p = Cardinality(P) /\ a = Cardinality(A)
    BY <1>20, <2>1, FS_CardinalityType
  <2>6. table.count = b + p
    BY <1>1, <2>3, <2>5
  <2>7. (b + p) - p + a = b + a
    OBVIOUS
  <2> QED
    BY <1>21, <2>1, <2>4, <2>5, <2>6, <2>7
<1>7. /\ out.table = [bitmap |-> kept \cup I, size |-> table.size, count |-> Cardinality(kept \cup I)]
  BY <1>6, <1>22
<1>8. PICK c \in Nat, d \in Nat, m \in Nat, b \in Seq(Int) :
        /\ c = u.capacity /\ d = u.deletes_count /\ m = u.inserts_count /\ b = u.buffer
        /\ Len(b) = c /\ d + m <= c
  BY DEF BufferOK
<1>81. d + m <= c
  BY <1>8
<1>9. DOMAIN b = 1 .. c /\ DOMAIN deletes = 1 .. d /\ \A i \in 1 .. d : i \in 1 .. c /\ deletes[i] = b[i]
  <2>1. DOMAIN b = 1 .. c
    BY <1>8, LenProperties
  <2>2. \A i \in 1 .. d : i \in 1 .. c
    BY <1>81
  <2>3. DOMAIN deletes = 1 .. d /\ \A i \in 1 .. d : deletes[i] = b[i]
    BY <1>2, <1>8
  <2> QED
    BY <2>1, <2>2, <2>3
<1>10. /\ marked \in Seq(Int) /\ Len(marked) = c
       /\ \A i \in 1 .. c : i > d => marked[i] = b[i]
       /\ \A i \in 1 .. d :
            marked[i] = IF deletes[i] \notin B \/ \E j \in 1 .. i - 1 : deletes[j] = deletes[i]
                        THEN -1 ELSE deletes[i]
  <2>0. \A i \in 1 .. c : b[i] \in Int
    BY <1>8, <1>9
  <2>1. marked \in [1 .. c -> Int]
    BY <1>4, <1>8, <1>9, <2>0
  <2>2. marked \in Seq(Int) /\ Len(marked) = c
    BY <2>1, FunctionSeq
  <2>3. \A i \in 1 .. c : i > d => marked[i] = b[i]
    BY <1>4, <1>8, <1>9
  <2>4. \A i \in 1 .. d :
            marked[i] = IF deletes[i] \notin B \/ \E j \in 1 .. i - 1 : deletes[j] = deletes[i]
                        THEN -1 ELSE deletes[i]
    BY <1>4, <1>8, <1>9
  <2> QED
    BY <2>2, <2>3, <2>4
<1>11. PICK v : v = out.updates
  OBVIOUS
<1>12. v.capacity = c /\ v.deletes_count = d /\ v.inserts_count = m /\ v.buffer = marked /\ BufferOK(v)
  <2>1. u \in [capacity : Nat, deletes_count : Nat, inserts_count : Nat, buffer : Seq(Int)]
    BY DEF BufferOK
  <2>2. v = [u EXCEPT !.buffer = marked]
    BY <1>6, <1>11
  <2>3. /\ v \in [capacity : Nat, deletes_count : Nat, inserts_count : Nat, buffer : Seq(Int)]
        /\ v.capacity = c /\ v.deletes_count = d /\ v.inserts_count = m /\ v.buffer = marked
    BY <1>8, <1>10, <2>1, <2>2
  <2>4. Len(marked) = c /\ d + m <= c
    BY <1>8, <1>10
  <2> QED
    BY <2>3, <2>4 DEF BufferOK
<1>13. /\ UnaryDeletes(v) \in Seq(Int) /\ Len(UnaryDeletes(v)) = d
       /\ \A k \in 1 .. d : UnaryDeletes(v)[k] = marked[k]
       /\ UnaryInserts(v) \in Seq(Int) /\ Len(UnaryInserts(v)) = m
       /\ \A k \in 1 .. m : UnaryInserts(v)[k] = marked[c - m + k]
  BY <1>12, BufferFacts
<1>14. UnaryInserts(v) = UnaryInserts(u)
  <2>1. /\ UnaryInserts(u) \in Seq(Int) /\ Len(UnaryInserts(u)) = m
        /\ \A k \in 1 .. m : UnaryInserts(u)[k] = b[c - m + k]
    BY <1>8, BufferFacts
  <2>2. \A k \in 1 .. m : c - m + k \in 1 .. c /\ c - m + k > d
    BY <1>81
  <2>4. \A k \in 1 .. m : UnaryInserts(v)[k] = marked[c - m + k]
    BY <1>13
  <2>5. \A k \in 1 .. m : marked[c - m + k] = b[c - m + k]
    BY <1>10, <2>2
  <2>6. \A k \in 1 .. m : UnaryInserts(u)[k] = b[c - m + k]
    BY <2>1
  <2>3. \A k \in 1 .. m : UnaryInserts(v)[k] = UnaryInserts(u)[k]
    BY <2>4, <2>5, <2>6
  <2> QED
    BY <1>13, <2>1, <2>3, SeqEqual
<1>15. Unerased(UnaryDeletes(v)) = MarkErased(SingleRows(deletes), UnaryRows(table))
  <2>1. PICK left : left = UnaryDeletes(v) /\ DOMAIN left = 1 .. d /\ \A k \in 1 .. d : left[k] = marked[k]
    BY <1>13, LenProperties
  <2>2. PICK rows, singles : rows = UnaryRows(table) /\ singles = SingleRows(deletes)
    OBVIOUS
  <2>3. DOMAIN singles = 1 .. d /\ \A k \in 1 .. d : singles[k] = <<deletes[k]>>
    BY <1>9, <2>2 DEF SingleRows
  <2>4. Unerased(left) = [i \in 1 .. d |-> IF left[i] = -1 THEN ERASED ELSE <<left[i]>>]
    BY <2>1 DEF Unerased
  <2>5. MarkErased(singles, rows) = [i \in 1 .. d |->
           IF singles[i] \in rows /\ \A j \in 1 .. i - 1 : singles[j] # singles[i]
           THEN singles[i] ELSE ERASED]
    BY <2>3 DEF MarkErased
  <2>6. ASSUME NEW i \in 1 .. d
        PROVE  (IF left[i] = -1 THEN ERASED ELSE <<left[i]>>) =
                 IF singles[i] \in rows /\ \A j \in 1 .. i - 1 : singles[j] # singles[i]
                 THEN singles[i] ELSE ERASED
    <3>1. singles[i] \in rows <=> deletes[i] \in B
      <4>1. rows = {<<value>> : value \in B}
        BY <1>1, <2>2 DEF UnaryRows
      <4>2. \A x, y : <<x>> = <<y>> => x = y
        OBVIOUS
      <4> QED
        BY <2>3, <4>1, <4>2
    <3>2. \A j \in 1 .. i - 1 : singles[j] # singles[i] <=> deletes[j] # deletes[i]
      <4>1. \A j \in 1 .. i - 1 : j \in 1 .. d
        OBVIOUS
      <4>2. \A x, y : <<x>> = <<y>> <=> x = y
        OBVIOUS
      <4> QED
        BY <2>3, <4>1, <4>2
    <3>3. deletes[i] # -1
      BY <1>2, <1>9
    <3>4. CASE deletes[i] \in B /\ \A j \in 1 .. i - 1 : deletes[j] # deletes[i]
      <4>1. left[i] = deletes[i]
        BY <1>10, <2>1, <3>4
      <4> QED
        BY <2>3, <3>1, <3>2, <3>3, <3>4, <4>1
    <3>5. CASE ~ (deletes[i] \in B /\ \A j \in 1 .. i - 1 : deletes[j] # deletes[i])
      <4>1. left[i] = -1
        BY <1>10, <2>1, <3>5
      <4> QED
        BY <3>1, <3>2, <3>5, <4>1
    <3> QED
      BY <3>4, <3>5
  <2>7. Unerased(left) = MarkErased(singles, rows)
    BY <2>4, <2>5, <2>6
  <2> QED
    BY <2>1, <2>2, <2>7
<1>16. out.store = AddRefs(store, {<<value>> : value \in I \ kept})
  BY <1>6
<1> QED
  BY <1>1, <1>7, <1>11, <1>12, <1>14, <1>15, <1>16 DEF UnaryApplied

\* Shifting a pair swaps it.
LEMMA ShiftPair ==
  ASSUME NEW S, NEW row \in [1 .. 2 -> S]
  PROVE  /\ shift(row) \in [1 .. 2 -> S]
         /\ shift(row)[1] = row[2] /\ shift(row)[2] = row[1]
         /\ shift(shift(row)) = row
<1>1. \A r \in [1 .. 2 -> S] : /\ shift(r) \in [1 .. 2 -> S]
                              /\ shift(r)[1] = r[2] /\ shift(r)[2] = r[1]
  <2> TAKE r \in [1 .. 2 -> S]
  <2>1. r \in Seq(S) /\ Len(r) = 2 /\ r # << >>
    <3>1. r \in Seq(S) /\ Len(r) = 2
      BY FunctionSeq
    <3> QED
      BY <3>1, EmptySeq
  <2>2. Head(r) = r[1] /\ Tail(r) \in Seq(S) /\ Len(Tail(r)) = 1 /\ Tail(r)[1] = r[2]
    <3>1. PICK t : t = Tail(r)
      OBVIOUS
    <3>2. t \in Seq(S) /\ Len(t) = Len(r) - 1 /\ \A i \in 1 .. Len(t) : t[i] = r[i + 1]
      BY <2>1, <3>1, HeadTailProperties
    <3>3. Len(t) = 1
      BY <2>1, <3>2
    <3>4. \A i \in 1 .. 1 : t[i] = r[i + 1]
      BY <3>2, <3>3
    <3>5. t[1] = r[2]
      BY <3>4
    <3>6. Head(r) = r[1]
      BY <2>1
    <3> QED
      BY <3>1, <3>2, <3>3, <3>5, <3>6
  <2>3. Head(r) \in S
    BY <2>1, <2>2
  <2>4. PICK t, h : t = Tail(r) /\ h = Head(r)
    OBVIOUS
  <2>5. /\ Append(t, h) \in Seq(S) /\ Len(Append(t, h)) = 2
        /\ Append(t, h)[1] = t[1] /\ Append(t, h)[2] = h
    <3>1. t \in Seq(S) /\ Len(t) = 1 /\ h \in S
      BY <2>2, <2>3, <2>4
    <3>2. PICK a : a = Append(t, h)
      OBVIOUS
    <3>6. t \in Seq(S) /\ h \in S
      BY <3>1
    <3>3. /\ a \in Seq(S) /\ Len(a) = Len(t) + 1
          /\ \A i \in 1 .. Len(t) : a[i] = t[i]
          /\ a[Len(t) + 1] = h
      BY <3>2, <3>6, AppendProperties
    <3>4. Len(a) = 2 /\ a[2] = h
      BY <3>1, <3>3
    <3>5. a[1] = t[1]
      BY <3>1, <3>3
    <3> QED
      BY <3>2, <3>3, <3>4, <3>5
  <2>6. Append(t, h) \in [1 .. 2 -> S]
    BY <2>5, LenProperties
  <2> QED
    BY <2>2, <2>4, <2>5, <2>6 DEF shift
<1>2. PICK s \in [1 .. 2 -> S] : s = shift(row) /\ s[1] = row[2] /\ s[2] = row[1]
  BY <1>1
<1>3. shift(s) \in [1 .. 2 -> S] /\ shift(s)[1] = s[2] /\ shift(s)[2] = s[1]
  BY <1>1
<1>4. shift(s) = row
  <2>1. \A i \in 1 .. 2 : i = 1 \/ i = 2
    OBVIOUS
  <2>2. \A i \in 1 .. 2 : shift(s)[i] = row[i]
    BY <1>2, <1>3, <2>1
  <2> QED
    BY <1>3, <2>2
<1> QED
  BY <1>1, <1>2, <1>4

\* Shifting a triple three times leaves it as it was.
LEMMA ShiftTriple ==
  ASSUME NEW S, NEW row \in [1 .. 3 -> S]
  PROVE  /\ shift(row) \in [1 .. 3 -> S] /\ shift2(row) \in [1 .. 3 -> S]
         /\ shift(row)[1] = row[2] /\ shift(row)[2] = row[3] /\ shift(row)[3] = row[1]
         /\ shift2(row)[1] = row[3] /\ shift2(row)[2] = row[1] /\ shift2(row)[3] = row[2]
         /\ shift2(shift(row)) = row /\ shift(shift2(row)) = row
<1>1. \A r \in [1 .. 3 -> S] :
         /\ shift(r) \in [1 .. 3 -> S]
         /\ shift(r)[1] = r[2] /\ shift(r)[2] = r[3] /\ shift(r)[3] = r[1]
  <2> TAKE r \in [1 .. 3 -> S]
  <2>1. r \in Seq(S) /\ Len(r) = 3 /\ r # << >>
    <3>1. r \in Seq(S) /\ Len(r) = 3
      BY FunctionSeq
    <3> QED
      BY <3>1, EmptySeq
  <2>2. /\ Head(r) = r[1] /\ Tail(r) \in Seq(S) /\ Len(Tail(r)) = 2
        /\ Tail(r)[1] = r[2] /\ Tail(r)[2] = r[3]
    <3>1. PICK t : t = Tail(r)
      OBVIOUS
    <3>2. t \in Seq(S) /\ Len(t) = Len(r) - 1 /\ \A i \in 1 .. Len(t) : t[i] = r[i + 1]
      BY <2>1, <3>1, HeadTailProperties
    <3>3. Len(t) = 2
      BY <2>1, <3>2
    <3>4. \A i \in 1 .. 2 : t[i] = r[i + 1]
      BY <3>2, <3>3
    <3>5. t[1] = r[2] /\ t[2] = r[3]
      BY <3>4
    <3>6. Head(r) = r[1]
      BY <2>1
    <3> QED
      BY <3>1, <3>2, <3>3, <3>5, <3>6
  <2>3. Head(r) \in S
    BY <2>1, <2>2
  <2>4. PICK t, h : t = Tail(r) /\ h = Head(r)
    OBVIOUS
  <2>5. /\ Append(t, h) \in Seq(S) /\ Len(Append(t, h)) = 3
        /\ Append(t, h)[1] = t[1] /\ Append(t, h)[2] = t[2] /\ Append(t, h)[3] = h
    <3>1. t \in Seq(S) /\ Len(t) = 2 /\ h \in S
      BY <2>2, <2>3, <2>4
    <3>2. PICK a : a = Append(t, h)
      OBVIOUS
    <3>6. t \in Seq(S) /\ h \in S
      BY <3>1
    <3>3. /\ a \in Seq(S) /\ Len(a) = Len(t) + 1
          /\ \A i \in 1 .. Len(t) : a[i] = t[i]
          /\ a[Len(t) + 1] = h
      BY <3>2, <3>6, AppendProperties
    <3>4. Len(a) = 3 /\ a[3] = h
      BY <3>1, <3>3
    <3>5. a[1] = t[1] /\ a[2] = t[2]
      BY <3>1, <3>3
    <3> QED
      BY <3>2, <3>3, <3>4, <3>5
  <2>6. Append(t, h) \in [1 .. 3 -> S]
    BY <2>5, LenProperties
  <2> QED
    BY <2>2, <2>4, <2>5, <2>6 DEF shift
<1>2. PICK s \in [1 .. 3 -> S] : s = shift(row) /\ s[1] = row[2] /\ s[2] = row[3] /\ s[3] = row[1]
  BY <1>1
<1>3. PICK s2 \in [1 .. 3 -> S] : s2 = shift(s) /\ s2[1] = row[3] /\ s2[2] = row[1] /\ s2[3] = row[2]
  BY <1>1, <1>2
<1>4. PICK s3 \in [1 .. 3 -> S] : s3 = shift(s2) /\ s3[1] = row[1] /\ s3[2] = row[2] /\ s3[3] = row[3]
  BY <1>1, <1>3
<1>5. s3 = row
  <2>1. \A i \in 1 .. 3 : i = 1 \/ i = 2 \/ i = 3
    OBVIOUS
  <2>2. \A i \in 1 .. 3 : s3[i] = row[i]
    BY <1>4, <2>1
  <2> QED
    BY <2>2
<1> QED
  BY <1>2, <1>3, <1>4, <1>5 DEF shift2

\* The updates of a binary or a ternary table, as a record of two sequences.
PairOfLists(u) == u = [deletes |-> u.deletes, inserts |-> u.inserts]

\* What applying staged updates makes of rows and of the store.
RowsApplied(rows, u, store, rows2, out) ==
  LET kept == rows \ Range(u.deletes)
  IN  /\ rows2 = kept \cup Range(u.inserts)
      /\ out.store = AddRefs(store, Range(u.inserts) \ kept)
      /\ out.updates = [deletes |-> MarkErased(u.deletes, rows), inserts |-> u.inserts]

\* The indexes of a table hold the same rows.
BinaryAgrees(table) == table.right_to_left = {shift(row) : row \in table.left_to_right}

TernaryAgrees(table) ==
  /\ table.shifted_once = {shift(row) : row \in table.unshifted}
  /\ table.shifted_twice = {shift2(row) : row \in table.unshifted}

\* The indexes of a binary table stay in agreement.
LEMMA BinaryApplyFacts ==
  ASSUME NEW S, NEW table, table.left_to_right \in SUBSET [1 .. 2 -> S],
         BinaryAgrees(table),
         NEW u, PairOfLists(u), Len(u.deletes) \in Nat, DOMAIN u.deletes = 1 .. Len(u.deletes),
         Range(u.inserts) \in SUBSET [1 .. 2 -> S],
         NEW store, NEW out, out = binary_table_updates_apply(table, u, store)
  PROVE  /\ RowsApplied(table.left_to_right, u, store, out.table.left_to_right, out)
         /\ BinaryAgrees(out.table)
<1>1. PICK R, D, I : R = table.left_to_right /\ D = Range(u.deletes) /\ I = Range(u.inserts)
  OBVIOUS
<1>2. PICK marked : marked = MarkErased(u.deletes, R)
  OBVIOUS
<1>3. ERASED \notin R
  <2>1. \A row \in R : DOMAIN row = 1 .. 2
    BY <1>1
  <2>2. DOMAIN ERASED # 1 .. 2
    BY DEF ERASED
  <2> QED
    BY <2>1, <2>2
<1>4. Range(marked) \ {ERASED} = D \cap R
  BY <1>1, <1>2, <1>3, MarkErasedFacts
<1>5. PICK kept : kept = BinaryErase(table, D \cap R)
  OBVIOUS
<1>6. kept.left_to_right = R \ D /\ kept.right_to_left = table.right_to_left \ {shift(row) : row \in D \cap R}
  BY <1>1, <1>5 DEF BinaryErase
<1>7. PICK added : added = I \ (R \ D)
  OBVIOUS
<1>8. /\ out.table = BinaryAdd(kept, added)
      /\ out.updates = [u EXCEPT !.deletes = marked]
      /\ out.store = AddRefs(store, added)
  BY <1>1, <1>2, <1>4, <1>5, <1>6, <1>7 DEF binary_table_updates_apply
<1>9. out.updates = [deletes |-> marked, inserts |-> u.inserts]
  BY <1>8 DEF PairOfLists
<1>10. /\ out.table.left_to_right = (R \ D) \cup added
       /\ out.table.right_to_left = (table.right_to_left \ {shift(row) : row \in D \cap R})
                                       \cup {shift(row) : row \in added}
  BY <1>6, <1>8 DEF BinaryAdd
<1>11. out.table.left_to_right = (R \ D) \cup I
  BY <1>7, <1>10
<1>12. \A x, y \in R \cup I : shift(x) = shift(y) => x = y
  <2>1. \A x \in R \cup I : shift(shift(x)) = x
    BY <1>1, ShiftPair
  <2> QED
    BY <2>1
<1>13. {shift(row) : row \in R} \ {shift(row) : row \in D \cap R} = {shift(row) : row \in R \ D}
  BY <1>12
<1>14. out.table.right_to_left = {shift(row) : row \in (R \ D) \cup added}
  BY <1>1, <1>10, <1>13 DEF BinaryAgrees
<1> QED
  BY <1>1, <1>2, <1>7, <1>8, <1>9, <1>10, <1>11, <1>14 DEF RowsApplied, BinaryAgrees

\* And those of a ternary table.
LEMMA TernaryApplyFacts ==
  ASSUME NEW S, NEW table, table.unshifted \in SUBSET [1 .. 3 -> S],
         TernaryAgrees(table),
         NEW u, PairOfLists(u), Len(u.deletes) \in Nat, DOMAIN u.deletes = 1 .. Len(u.deletes),
         Range(u.inserts) \in SUBSET [1 .. 3 -> S],
         NEW store, NEW out, out = ternary_table_updates_apply(table, u, store)
  PROVE  /\ RowsApplied(table.unshifted, u, store, out.table.unshifted, out)
         /\ TernaryAgrees(out.table)
<1>1. PICK R, D, I : R = table.unshifted /\ D = Range(u.deletes) /\ I = Range(u.inserts)
  OBVIOUS
<1>2. PICK marked : marked = MarkErased(u.deletes, R)
  OBVIOUS
<1>3. ERASED \notin R
  <2>1. \A row \in R : DOMAIN row = 1 .. 3
    BY <1>1
  <2>2. DOMAIN ERASED # 1 .. 3
    BY DEF ERASED
  <2> QED
    BY <2>1, <2>2
<1>4. Range(marked) \ {ERASED} = D \cap R
  BY <1>1, <1>2, <1>3, MarkErasedFacts
<1>5. PICK kept : kept = TernaryErase(table, D \cap R)
  OBVIOUS
<1>6. /\ kept.unshifted = R \ D
      /\ kept.shifted_once = table.shifted_once \ {shift(row) : row \in D \cap R}
      /\ kept.shifted_twice = table.shifted_twice \ {shift2(row) : row \in D \cap R}
  BY <1>1, <1>5 DEF TernaryErase
<1>7. PICK added : added = I \ (R \ D)
  OBVIOUS
<1>8. /\ out.table = TernaryAdd(kept, added)
      /\ out.updates = [u EXCEPT !.deletes = marked]
      /\ out.store = AddRefs(store, added)
  BY <1>1, <1>2, <1>4, <1>5, <1>6, <1>7 DEF ternary_table_updates_apply
<1>9. out.updates = [deletes |-> marked, inserts |-> u.inserts]
  BY <1>8 DEF PairOfLists
<1>10. /\ out.table.unshifted = (R \ D) \cup added
       /\ out.table.shifted_once = (table.shifted_once \ {shift(row) : row \in D \cap R})
                                       \cup {shift(row) : row \in added}
       /\ out.table.shifted_twice = (table.shifted_twice \ {shift2(row) : row \in D \cap R})
                                       \cup {shift2(row) : row \in added}
  BY <1>6, <1>8 DEF TernaryAdd
<1>11. out.table.unshifted = (R \ D) \cup I
  BY <1>7, <1>10
<1>12. \A x, y \in R \cup I : (shift(x) = shift(y) => x = y) /\ (shift2(x) = shift2(y) => x = y)
  <2>1. \A x \in R \cup I : shift2(shift(x)) = x /\ shift(shift2(x)) = x
    BY <1>1, ShiftTriple
  <2> QED
    BY <2>1
<1>13. /\ {shift(row) : row \in R} \ {shift(row) : row \in D \cap R} = {shift(row) : row \in R \ D}
       /\ {shift2(row) : row \in R} \ {shift2(row) : row \in D \cap R} = {shift2(row) : row \in R \ D}
  BY <1>12
<1>14. /\ out.table.shifted_once = {shift(row) : row \in (R \ D) \cup added}
       /\ out.table.shifted_twice = {shift2(row) : row \in (R \ D) \cup added}
  <2>1. out.table.shifted_once = {shift(row) : row \in (R \ D) \cup added}
    BY <1>1, <1>10, <1>13 DEF TernaryAgrees
  <2>2. out.table.shifted_twice = {shift2(row) : row \in (R \ D) \cup added}
    <3>1. table.shifted_twice = {shift2(row) : row \in R}
      BY <1>1 DEF TernaryAgrees
    <3>2. out.table.shifted_twice = {shift2(row) : row \in R \ D} \cup {shift2(row) : row \in added}
      BY <1>10, <1>13, <3>1
    <3> QED
      BY <3>2
  <2> QED
    BY <2>1, <2>2
<1> QED
  BY <1>1, <1>2, <1>7, <1>8, <1>9, <1>10, <1>11, <1>14 DEF RowsApplied, TernaryAgrees

\* Each reference to a row that is dropped is still counted, and each to a row
\* that enters is counted again.
UsesBalanced(R, D, I, i) ==
  /\ Uses((R \ D) \cup I, i) \in Nat /\ Uses(D \cap R, i) \in Nat
  /\ Uses(R, i) \in Nat /\ Uses(I \ (R \ D), i) \in Nat
  /\ Uses((R \ D) \cup I, i) + Uses(D \cap R, i) = Uses(R, i) + Uses(I \ (R \ D), i)

\* So it is whatever enters and is dropped.
LEMMA AppliedUses ==
  ASSUME NEW R, IsFiniteSet(R), NEW D, NEW I, IsFiniteSet(I), NEW i
  PROVE  UsesBalanced(R, D, I, i)
<1>1. PICK kept, dropped, added : kept = R \ D /\ dropped = D \cap R /\ added = I \ (R \ D)
  OBVIOUS
<1>2. IsFiniteSet(kept) /\ IsFiniteSet(dropped) /\ IsFiniteSet(added)
  <2>1. kept \in SUBSET R /\ dropped \in SUBSET R /\ added \in SUBSET I
    BY <1>1
  <2> QED
    BY <2>1, FS_Subset
<1>3. (R \ D) \cup I = kept \cup added /\ R = kept \cup dropped
  BY <1>1
<1>4. kept \cap added = {} /\ kept \cap dropped = {}
  BY <1>1
<1>5. Uses(kept \cup added, i) = Uses(kept, i) + Uses(added, i)
  BY <1>2, <1>4, UsesUnion
<1>6. Uses(kept \cup dropped, i) = Uses(kept, i) + Uses(dropped, i)
  BY <1>2, <1>4, UsesUnion
<1>7. Uses(kept, i) \in Nat /\ Uses(added, i) \in Nat /\ Uses(dropped, i) \in Nat
  BY <1>2, UsesNat
<1>8. /\ Uses((R \ D) \cup I, i) = Uses(kept, i) + Uses(added, i)
      /\ Uses(R, i) = Uses(kept, i) + Uses(dropped, i)
      /\ Uses(D \cap R, i) = Uses(dropped, i) /\ Uses(I \ (R \ D), i) = Uses(added, i)
  BY <1>1, <1>3, <1>5, <1>6
<1> QED
  BY <1>7, <1>8 DEF UsesBalanced

-----------------------------------------------------------------------------
(***************************************************************************)
(* Reading the rows of a table by some of their columns.                   *)
(***************************************************************************)

\* The iterators of a binary table go through its rows with a given value.
LEMMA BinaryIterFacts ==
  ASSUME NEW table, table.left_to_right \in SUBSET [1 .. 2 -> Nat], IsFiniteSet(table.left_to_right),
         BinaryAgrees(table), NEW value
  PROVE  LET R == table.left_to_right
             iter == binary_table_get_iter(table)
             iter0 == binary_table_get_iter_by_col_0(table, value)
             iter1 == binary_table_get_iter_by_col_1(table, value)
         IN  /\ iter \in Seq(R) /\ Range(iter) = R
             /\ iter0 \in Seq(R) /\ Range(iter0) = {row \in R : row[1] = value}
             /\ iter1 \in Seq(R) /\ Range(iter1) = {row \in R : row[2] = value}
<1>1. PICK R : R = table.left_to_right /\ R \in SUBSET [1 .. 2 -> Nat] /\ IsFiniteSet(R)
  OBVIOUS
<1>2. 2 \in 1 .. 3
  OBVIOUS
<1>3. \A T \in SUBSET R : InOrder(T) \in Seq(R) /\ Range(InOrder(T)) = T
  <2> TAKE T \in SUBSET R
  <2>1. T \in SUBSET [1 .. 2 -> Nat] /\ IsFiniteSet(T)
    BY <1>1, FS_Subset
  <2>2. InOrder(T) \in Seq(T) /\ Range(InOrder(T)) = T
    BY <1>2, <2>1, InOrderFacts
  <2> QED
    BY <2>2, SeqMonotonic
<1>4. /\ binary_table_get_iter(table) \in Seq(R) /\ Range(binary_table_get_iter(table)) = R
  BY <1>1, <1>3 DEF binary_table_get_iter
<1>5. /\ binary_table_get_iter_by_col_0(table, value) \in Seq(R)
      /\ Range(binary_table_get_iter_by_col_0(table, value)) = {row \in R : row[1] = value}
  BY <1>1, <1>3 DEF binary_table_get_iter_by_col_0
<1>6. PICK P : P = {pair \in table.right_to_left : pair[1] = value}
  OBVIOUS
<1>7. PICK pairs : pairs = InOrder(P)
  OBVIOUS
<1>8. \A row \in R : shift(row) \in [1 .. 2 -> Nat] /\ shift(row)[1] = row[2] /\ shift(shift(row)) = row
  BY <1>1, ShiftPair
<1>9. \A pair \in P : shift(pair) \in R /\ shift(pair)[2] = value
  <2> TAKE pair \in P
  <2>1. PICK row \in R : pair = shift(row) /\ pair[1] = value
    BY <1>1, <1>6 DEF BinaryAgrees
  <2> QED
    BY <1>8, <2>1
<1>10. P \in SUBSET [1 .. 2 -> Nat] /\ IsFiniteSet(P)
  <2>1. IsFiniteSet({shift(row) : row \in R})
    <3>1. [row \in R |-> shift(row)] \in Surjection(R, {shift(row) : row \in R})
      BY DEF Surjection
    <3> QED
      BY <1>1, <3>1, FS_Surjection
  <2>2. P \in SUBSET {shift(row) : row \in R}
    BY <1>1, <1>6 DEF BinaryAgrees
  <2> QED
    BY <1>8, <2>1, <2>2, FS_Subset
<1>11. pairs \in Seq(P) /\ Range(pairs) = P
  BY <1>2, <1>7, <1>10, InOrderFacts
<1>12. PICK m \in Nat : DOMAIN pairs = 1 .. m /\ \A k \in 1 .. m : pairs[k] \in P
  BY <1>11, LenProperties
<1>13. PICK iter1 : iter1 = [i \in 1 .. m |-> shift(pairs[i])]
  OBVIOUS
<1>14. binary_table_get_iter_by_col_1(table, value) = iter1
  BY <1>6, <1>7, <1>12, <1>13 DEF binary_table_get_iter_by_col_1
<1>15. iter1 \in Seq(R)
  <2>1. iter1 \in [1 .. m -> R]
    BY <1>9, <1>12, <1>13
  <2> QED
    BY <2>1, FunctionSeq
<1>16. Range(iter1) = {row \in R : row[2] = value}
  <2>1. ASSUME NEW x \in Range(iter1) PROVE x \in R /\ x[2] = value
    <3>1. PICK k \in 1 .. m : x = shift(pairs[k])
      BY <1>13 DEF Range
    <3> QED
      BY <1>9, <1>12, <3>1
  <2>2. ASSUME NEW x \in R, x[2] = value PROVE x \in Range(iter1)
    <3>1. shift(x) \in P
      BY <1>1, <1>6, <1>8, <2>2 DEF BinaryAgrees
    <3>2. PICK k \in 1 .. m : pairs[k] = shift(x)
      BY <1>11, <1>12, <3>1 DEF Range
    <3>3. iter1[k] = x
      BY <1>8, <1>13, <3>2
    <3> QED
      BY <1>13, <3>3 DEF Range
  <2> QED
    BY <2>1, <2>2
<1> QED
  BY <1>1, <1>4, <1>5, <1>14, <1>15, <1>16

\* A row as an index of a ternary table has it.
Shifted(row, n) == CASE n = 0 -> row [] n = 1 -> shift(row) [] n = 2 -> shift2(row)

\* The columns that a ternary table is read by.
TernaryColumns == {<< >>, col_0, col_1, col_2, cols_01, cols_12, cols_20}

\* The leading fields of a shifted row are those of the columns.
LEMMA KeyShifted ==
  ASSUME NEW S, NEW row \in [1 .. 3 -> S], NEW K \in TernaryColumns
  PROVE  /\ ShiftOf(K) \in {0, 1, 2}
         /\ Shifted(row, ShiftOf(K)) \in [1 .. 3 -> S]
         /\ key_shifted(K, Shifted(row, ShiftOf(K))) = key(K, row)
<1>1. PICK n : n = ShiftOf(K) /\ n \in {0, 1, 2}
  BY DEF ShiftOf
<1>2. PICK e : e = Shifted(row, n)
  OBVIOUS
<1>3. /\ e \in [1 .. 3 -> S]
      /\ n = 0 => e[1] = row[1] /\ e[2] = row[2]
      /\ n = 1 => e[1] = row[2] /\ e[2] = row[3]
      /\ n = 2 => e[1] = row[3] /\ e[2] = row[1]
  <2>1. CASE n = 0
    BY <1>2, <2>1 DEF Shifted
  <2>2. CASE n = 1
    BY <1>2, <2>2, ShiftTriple DEF Shifted
  <2>3. CASE n = 2
    BY <1>2, <2>3, ShiftTriple DEF Shifted
  <2> QED
    BY <1>1, <2>1, <2>2, <2>3
<1>4. PICK m \in 0 .. 2 :
        /\ Len(K) = m /\ DOMAIN K = 1 .. m
        /\ m >= 1 => /\ K[1] \in 1 .. 3
                     /\ K[1] = IF n = 0 THEN 1 ELSE IF n = 1 THEN 2 ELSE 3
        /\ m = 2 => /\ K[2] \in 1 .. 3
                    /\ K[2] = IF n = 0 THEN 2 ELSE IF n = 1 THEN 3 ELSE 1
  <2>1. CASE K = << >>
    BY <2>1
  <2>2. CASE K = <<1>>
    <3>1. n = 0
      BY <1>1, <2>2 DEF ShiftOf, col_0
    <3> QED
      BY <2>2, <3>1
  <2>3. CASE K = <<2>>
    <3>1. n = 1
      BY <1>1, <2>3 DEF ShiftOf, col_0, col_1, cols_01
    <3> QED
      BY <2>3, <3>1
  <2>4. CASE K = <<3>>
    <3>1. n = 2
      BY <1>1, <2>4 DEF ShiftOf, col_0, col_1, cols_01, cols_12
    <3> QED
      BY <2>4, <3>1
  <2>5. CASE K = <<1, 2>>
    <3>1. n = 0
      BY <1>1, <2>5 DEF ShiftOf, cols_01
    <3> QED
      BY <2>5, <3>1
  <2>6. CASE K = <<2, 3>>
    <3>1. n = 1
      BY <1>1, <2>6 DEF ShiftOf, col_0, cols_01, cols_12
    <3> QED
      BY <2>6, <3>1
  <2>7. CASE K = <<3, 1>>
    <3>1. n = 2
      BY <1>1, <2>7 DEF ShiftOf, col_0, col_1, cols_01, cols_12
    <3> QED
      BY <2>7, <3>1
  <2> QED
    BY <2>1, <2>2, <2>3, <2>4, <2>5, <2>6, <2>7 DEF TernaryColumns, col_0, col_1, col_2, cols_01, cols_12, cols_20
<1>5. key(K, row) = [i \in 1 .. m |-> row[K[i]]]
  BY <1>4 DEF key
<1>6. \A i \in 1 .. m : e[i] = row[K[i]] /\ e[i] \in S
  <2>1. \A i \in 1 .. m : i = 1 \/ (i = 2 /\ m = 2)
    OBVIOUS
  <2>2. ASSUME m >= 1 PROVE e[1] = row[K[1]] /\ e[1] \in S
    BY <1>1, <1>3, <1>4, <2>2
  <2>3. ASSUME m = 2 PROVE e[2] = row[K[2]] /\ e[2] \in S
    BY <1>1, <1>3, <1>4, <2>3
  <2> QED
    BY <2>1, <2>2, <2>3
<1>7. PICK s : s = SubSeq(e, 1, m)
  OBVIOUS
<1>8. s \in Seq(S) /\ Len(s) = m /\ \A i \in 1 .. m : s[i] = e[i]
  <2>1. \A i \in 1 .. m : e[i] \in S
    BY <1>6
  <2>2. s \in Seq(S) /\ Len(s) = IF 1 <= m THEN m - 1 + 1 ELSE 0
    BY <1>7, <2>1, SubSeqProperties
  <2>3. \A i \in 1 .. m - 1 + 1 : s[i] = e[1 + i - 1]
    BY <1>7, <2>1, SubSeqProperties
  <2> QED
    BY <2>2, <2>3
<1>9. s = [i \in 1 .. m |-> row[K[i]]]
  <2>1. s \in [1 .. m -> S]
    BY <1>8, LenProperties
  <2> QED
    BY <1>6, <1>8, <2>1
<1>10. key_shifted(K, e) = s
  BY <1>4, <1>7 DEF key_shifted
<1> QED
  BY <1>1, <1>2, <1>3, <1>5, <1>9, <1>10

\* A row is put back as it was.
LEMMA UnshiftedFacts ==
  ASSUME NEW S, NEW row \in [1 .. 3 -> S], NEW n \in {0, 1, 2}
  PROVE  Unshifted(Shifted(row, n), n) = row
<1>1. CASE n = 0
  BY <1>1 DEF Shifted, Unshifted
<1>2. CASE n = 1
  BY <1>2, ShiftTriple DEF Shifted, Unshifted
<1>3. CASE n = 2
  BY <1>3, ShiftTriple DEF Shifted, Unshifted
<1> QED
  BY <1>1, <1>2, <1>3

\* The iterators of a ternary table go through its rows with given values.
LEMMA TernaryIterFacts ==
  ASSUME NEW table, table.unshifted \in SUBSET [1 .. 3 -> Nat], IsFiniteSet(table.unshifted),
         TernaryAgrees(table),
         NEW K \in TernaryColumns, NEW k
  PROVE  LET R == table.unshifted
             iter == ternary_table_get_iter(table, K, k)
         IN  iter \in Seq(R) /\ Range(iter) = {row \in R : key(K, row) = k}
<1>1. PICK R : R = table.unshifted /\ R \in SUBSET [1 .. 3 -> Nat] /\ IsFiniteSet(R)
  OBVIOUS
<1>2. PICK n \in {0, 1, 2} : n = ShiftOf(K)
  BY DEF ShiftOf
<1>3. IndexShifted(table, n) = {Shifted(row, n) : row \in R}
  <2>1. CASE n = 0
    <3>1. \A row : Shifted(row, 0) = row
      BY DEF Shifted
    <3> QED
      BY <1>1, <2>1, <3>1 DEF IndexShifted, TernaryAgrees
  <2>2. CASE n = 1
    <3>1. \A row : Shifted(row, 1) = shift(row)
      BY DEF Shifted
    <3> QED
      BY <1>1, <2>2, <3>1 DEF IndexShifted, TernaryAgrees
  <2>3. CASE n = 2
    <3>1. \A row : Shifted(row, 2) = shift2(row)
      BY DEF Shifted
    <3> QED
      BY <1>1, <2>3, <3>1 DEF IndexShifted, TernaryAgrees
  <2> QED
    BY <2>1, <2>2, <2>3
<1>4. \A row \in R : /\ Shifted(row, n) \in [1 .. 3 -> Nat]
                     /\ key_shifted(K, Shifted(row, n)) = key(K, row)
                     /\ Unshifted(Shifted(row, n), n) = row
  BY <1>1, <1>2, KeyShifted, UnshiftedFacts
<1>5. PICK P : P = {entry \in IndexShifted(table, n) : key_shifted(K, entry) = k}
  OBVIOUS
<1>6. PICK pairs : pairs = InOrder(P)
  OBVIOUS
<1>7. \A e \in P : Unshifted(e, n) \in R /\ key(K, Unshifted(e, n)) = k
  <2> TAKE e \in P
  <2>1. PICK row \in R : e = Shifted(row, n) /\ key_shifted(K, e) = k
    BY <1>3, <1>5
  <2> QED
    BY <1>4, <2>1
<1>8. P \in SUBSET [1 .. 3 -> Nat] /\ IsFiniteSet(P)
  <2>1. IsFiniteSet({Shifted(row, n) : row \in R})
    <3>1. [row \in R |-> Shifted(row, n)] \in Surjection(R, {Shifted(row, n) : row \in R})
      BY DEF Surjection
    <3> QED
      BY <1>1, <3>1, FS_Surjection
  <2>2. P \in SUBSET {Shifted(row, n) : row \in R}
    BY <1>3, <1>5
  <2> QED
    BY <1>4, <2>1, <2>2, FS_Subset
<1>9. pairs \in Seq(P) /\ Range(pairs) = P
  <2>1. 3 \in 1 .. 3
    OBVIOUS
  <2> QED
    BY <1>6, <1>8, <2>1, InOrderFacts
<1>10. PICK m \in Nat : DOMAIN pairs = 1 .. m /\ \A j \in 1 .. m : pairs[j] \in P
  BY <1>9, LenProperties
<1>11. PICK iter : iter = [i \in 1 .. m |-> Unshifted(pairs[i], n)]
  OBVIOUS
<1>12. ternary_table_get_iter(table, K, k) = iter
  BY <1>2, <1>5, <1>6, <1>10, <1>11 DEF ternary_table_get_iter
<1>13. iter \in Seq(R)
  <2>1. iter \in [1 .. m -> R]
    BY <1>7, <1>10, <1>11
  <2> QED
    BY <2>1, FunctionSeq
<1>14. Range(iter) = {row \in R : key(K, row) = k}
  <2>1. ASSUME NEW x \in Range(iter) PROVE x \in R /\ key(K, x) = k
    <3>1. PICK j \in 1 .. m : x = Unshifted(pairs[j], n)
      BY <1>11 DEF Range
    <3> QED
      BY <1>7, <1>10, <3>1
  <2>2. ASSUME NEW x \in R, key(K, x) = k PROVE x \in Range(iter)
    <3>1. Shifted(x, n) \in P
      BY <1>3, <1>4, <1>5, <2>2
    <3>2. PICK j \in 1 .. m : pairs[j] = Shifted(x, n)
      BY <1>9, <1>10, <3>1 DEF Range
    <3>3. iter[j] = x
      BY <1>4, <1>11, <3>2
    <3> QED
      BY <1>11, <3>3 DEF Range
  <2> QED
    BY <2>1, <2>2
<1> QED
  BY <1>1, <1>12, <1>13, <1>14
=============================================================================
