------------------------- MODULE ValueStoreLemmas -------------------------
(***************************************************************************)
(* What the functions of ValueStoreOps do, for any set of values, any hash *)
(* function and any initial sizes: what each of them keeps of a store, of  *)
(* staged updates and of their hash tables.                                *)
(***************************************************************************)
EXTENDS ValueStoreOps, Arithmetic, SequenceTheorems
-----------------------------------------------------------------------------
-----------------------------------------------------------------------------
(***************************************************************************)
(* calc_capacity.                                                          *)
(***************************************************************************)

\* Doubling INIT_SIZE reaches any capacity asked for.
LEMMA CalcCapacity ==
  ASSUME NEW m \in Nat
  PROVE  calc_capacity(m) \in Nat /\ calc_capacity(m) >= m
<1> DEFINE Enough(k) == INIT_SIZE * pow2[k] >= m
           S == {k \in Nat : k <= m /\ Enough(k)}
<1>1. \A k \in Nat : INIT_SIZE * pow2[k] \in Nat
  BY SizeAssumption, Pow2Grows
<1>2. m \in S
  <2>1. pow2[m] \in Nat /\ pow2[m] > m
    BY Pow2Grows
  <2>2. INIT_SIZE * pow2[m] >= pow2[m]
    <3>1. INIT_SIZE \in Nat /\ INIT_SIZE >= 1
      BY SizeAssumption
    <3>2. \A i, p \in Nat : i >= 1 => i * p >= p
      OBVIOUS
    <3> QED
      BY <3>1, <3>2, <2>1
  <2> QED
    BY <1>1, <2>1, <2>2
<1>3. PICK k \in S : \A j \in S : k <= j
  <2>1. S \in SUBSET Nat /\ S # {}
    BY <1>2
  <2> HIDE DEF S
  <2> QED
    BY <2>1, LeastNat
<1>4. \A j \in 0 .. k - 1 : INIT_SIZE * pow2[j] < m
  BY <1>1, <1>3
<1> DEFINE best == CHOOSE i \in 0 .. m :
                     /\ INIT_SIZE * pow2[i] >= m
                     /\ \A j \in 0 .. i - 1 : INIT_SIZE * pow2[j] < m
<1>5. best \in 0 .. m /\ INIT_SIZE * pow2[best] >= m
  <2>1. \E i \in 0 .. m : /\ INIT_SIZE * pow2[i] >= m
                         /\ \A j \in 0 .. i - 1 : INIT_SIZE * pow2[j] < m
    BY <1>3, <1>4
  <2> QED
    BY <2>1
<1>6. calc_capacity(m) = INIT_SIZE * pow2[best]
  BY DEF calc_capacity
<1> HIDE DEF best
<1> QED
  BY <1>1, <1>5, <1>6

-----------------------------------------------------------------------------
(***************************************************************************)
(* The hash table operations keep a block well formed.                     *)
(***************************************************************************)

\* A cleared hash table is a typed block.
LEMMA ClearOK ==
  ASSUME NEW n \in Nat
  PROVE  hashtable_clear(n) \in Block(n)
BY DEF Block, hashtable_clear, empty_node, Node, EMPTY_SLOT_MARKER

\* Writing a slot keeps the type of the block.
LEMMA SetSlotOK ==
  ASSUME NEW n \in Nat, NEW block \in Block(n), NEW i \in 0 .. n - 1,
         NEW content \in Value \cup Nat
  PROVE  /\ [block EXCEPT !.slots[i] = content] \in Block(n)
         /\ [block EXCEPT !.slots[i] = content].slots = [block.slots EXCEPT ![i] = content]
<1>1. [block.slots EXCEPT ![i] = content] \in [0 .. n - 1 -> Value \cup Nat]
  BY DEF Block
<1> QED
  BY <1>1 DEF Block

\* hashtable_insert keeps the type of the block, and its slots.
LEMMA HashInsertOK ==
  ASSUME NEW n \in Nat, NEW block \in Block(n), NEW h \in Nat, NEW i \in 0 .. n - 1
  PROVE  /\ hashtable_insert(block, h, i) \in Block(n)
         /\ hashtable_insert(block, h, i).slots = block.slots
<1> DEFINE index == h % block.capacity
           ht == [block.hashtable EXCEPT ![index] = i]
           nd == [block.nodes EXCEPT ![i] = [next |-> block.hashtable[index],
                                             hash_code |-> h]]
<1>1. block.capacity = n /\ n \in Nat \ {0}
  BY DEF Block
<1>2. index \in 0 .. n - 1
  <2>1. h \in Int
    OBVIOUS
  <2> QED
    BY <1>1, <2>1, ModRange
<1>3. [next |-> block.hashtable[index], hash_code |-> h] \in Node(n)
  <2> HIDE DEF index
  <2> QED
    BY <1>2 DEF Block, Node
<1>4. ht \in [0 .. n - 1 -> (0 .. n - 1) \cup {EMPTY_SLOT_MARKER}]
  BY DEF Block
<1>5. nd \in [0 .. n - 1 -> Node(n)]
  <2> HIDE DEF index
  <2> QED
    BY <1>3 DEF Block
<1>6. hashtable_insert(block, h, i) = [block EXCEPT !.hashtable = ht, !.nodes = nd]
  BY DEF hashtable_insert
<1> HIDE DEF ht, nd
<1> QED
  BY <1>4, <1>5, <1>6 DEF Block

\* hashtable_delete keeps the type of the block, and its slots.
LEMMA HashDeleteOK ==
  ASSUME NEW n \in Nat, NEW block \in Block(n), NEW i \in 0 .. n - 1
  PROVE  /\ hashtable_delete(block, i) \in Block(n)
         /\ hashtable_delete(block, i).slots = block.slots
<1> DEFINE del_node == block.nodes[i]
           index == del_node.hash_code % block.capacity
           first == block.hashtable[index] = i
           node(j) == IF j = i THEN empty_node
                      ELSE IF ~ first /\ block.nodes[j].next = i
                           THEN [block.nodes[j] EXCEPT !.next = del_node.next]
                           ELSE block.nodes[j]
           ht == [block.hashtable EXCEPT ![index] = IF first THEN del_node.next ELSE @]
           nd == [j \in Slots(block) |-> node(j)]
<1>1. del_node \in Node(n) /\ Slots(block) = 0 .. n - 1
  BY DEF Block, Slots
<1>2. empty_node \in Node(n)
  BY DEF empty_node, Node, EMPTY_SLOT_MARKER
<1>3. ASSUME NEW j \in 0 .. n - 1 PROVE node(j) \in Node(n)
  <2>1. block.nodes[j] \in Node(n)
    BY DEF Block
  <2> QED
    BY <1>1, <1>2, <2>1 DEF Node
<1>4. del_node.next \in (0 .. n - 1) \cup {EMPTY_SLOT_MARKER}
  BY <1>1 DEF Node
<1>5. ht \in [0 .. n - 1 -> (0 .. n - 1) \cup {EMPTY_SLOT_MARKER}]
  <2>1. block.hashtable \in [0 .. n - 1 -> (0 .. n - 1) \cup {EMPTY_SLOT_MARKER}]
    BY DEF Block
  <2> HIDE DEF index, first, del_node
  <2> QED
    BY <1>4, <2>1
<1>6. nd \in [0 .. n - 1 -> Node(n)]
  <2> HIDE DEF node
  <2> QED
    BY <1>1, <1>3
<1>7. hashtable_delete(block, i) = [block EXCEPT !.hashtable = ht, !.nodes = nd]
  BY DEF hashtable_delete
<1> HIDE DEF ht, nd
<1> QED
  BY <1>5, <1>6, <1>7 DEF Block

\* rank is an injection on S only in the uses; its being bounded is enough for
\* a bucket's last slot to exist.
LEMMA InsertAllOK ==
  ASSUME NEW n \in Nat, NEW block \in Block(n), NEW S \in SUBSET (0 .. n - 1),
         NEW bound \in Nat, NEW rank \in [S -> 0 .. bound],
         NEW hash \in [S -> Nat \cup {EMPTY_SLOT_MARKER}]
  PROVE  /\ InsertAll(block, S, rank, hash) \in Block(n)
         /\ InsertAll(block, S, rank, hash).slots = block.slots
<1> DEFINE Bucket(b)  == {i \in S : hash[i] % block.capacity = b}
           Earlier(i) == {j \in Bucket(hash[i] % block.capacity) : rank[j] < rank[i]}
           Front(T, b) == IF T = {} THEN block.hashtable[b]
                          ELSE CHOOSE i \in T : \A j \in T : rank[j] <= rank[i]
           ht == [b \in Slots(block) |-> Front(Bucket(b), b)]
           nd == [i \in Slots(block) |->
                    IF i \in S
                    THEN [next |-> Front(Earlier(i), hash[i] % block.capacity),
                          hash_code |-> hash[i]]
                    ELSE block.nodes[i]]
<1>1. /\ block.capacity = n /\ Slots(block) = 0 .. n - 1
      /\ block.hashtable \in [0 .. n - 1 -> (0 .. n - 1) \cup {EMPTY_SLOT_MARKER}]
      /\ block.nodes \in [0 .. n - 1 -> Node(n)]
  BY DEF Block, Slots
<1>2. ASSUME NEW T \in SUBSET S, NEW b \in 0 .. n - 1
      PROVE  Front(T, b) \in (0 .. n - 1) \cup {EMPTY_SLOT_MARKER}
  <2>1. CASE T = {}
    BY <1>1, <2>1
  <2>2. CASE T # {}
    <3> DEFINE ranks == {rank[i] : i \in T}
    <3>1. ranks \in SUBSET (0 .. bound) /\ ranks # {}
      BY <2>2
    <3>2. PICK m \in ranks : \A r \in ranks : r <= m
      <4> HIDE DEF ranks
      <4> QED
        BY <3>1, GreatestNat
    <3>3. \E i \in T : \A j \in T : rank[j] <= rank[i]
      BY <3>2
    <3>4. (CHOOSE i \in T : \A j \in T : rank[j] <= rank[i]) \in T
      BY <3>3
    <3> QED
      BY <2>2, <3>4
  <2> QED
    BY <2>1, <2>2
<1>3. ASSUME NEW i \in S PROVE hash[i] % block.capacity \in 0 .. n - 1
  <2>1. hash[i] \in Int /\ n \in Nat \ {0}
    BY DEF EMPTY_SLOT_MARKER
  <2> QED
    BY <1>1, <2>1, ModRange
<1>4. \A b : Bucket(b) \in SUBSET S
  OBVIOUS
<1>5. \A i \in S : Earlier(i) \in SUBSET S
  OBVIOUS
<1>6. ht \in [0 .. n - 1 -> (0 .. n - 1) \cup {EMPTY_SLOT_MARKER}]
  <2> HIDE DEF Bucket, Front
  <2> QED
    BY <1>1, <1>2, <1>4
<1>7. nd \in [0 .. n - 1 -> Node(n)]
  <2>1. ASSUME NEW i \in S
        PROVE  [next |-> Front(Earlier(i), hash[i] % block.capacity),
                hash_code |-> hash[i]] \in Node(n)
    <3>1. Front(Earlier(i), hash[i] % block.capacity) \in (0 .. n - 1) \cup {EMPTY_SLOT_MARKER}
      <4> HIDE DEF Earlier, Front
      <4> QED
        BY <1>2, <1>3, <1>5
    <3> HIDE DEF Earlier, Front
    <3> QED
      BY <3>1 DEF Node
  <2> HIDE DEF Earlier, Front
  <2> QED
    BY <1>1, <2>1
<1>8. InsertAll(block, S, rank, hash) = [block EXCEPT !.hashtable = ht, !.nodes = nd]
  BY DEF InsertAll
<1> HIDE DEF ht, nd
<1> QED
  BY <1>6, <1>7, <1>8 DEF Block

\* A copied block has the slots of the source, then a free list of the new ones.
LEMMA HashCopyOK ==
  ASSUME NEW n \in Nat, NEW src \in Block(n), NEW m \in Nat, m >= n
  PROVE  /\ hashtable_copy(src, m) \in Block(m)
         /\ hashtable_copy(src, m).slots =
              [i \in 0 .. m - 1 |-> IF i \in 0 .. n - 1 THEN src.slots[i] ELSE i + 1]
<1> DEFINE dest == hashtable_clear(m)
           slots == [i \in 0 .. m - 1 |-> IF i \in 0 .. n - 1 THEN src.slots[i] ELSE i + 1]
           block == [dest EXCEPT !.slots = slots]
           S == Occupied(src)
           rank == [i \in S |-> i]
           hash == [i \in S |-> src.nodes[i].hash_code]
<1>1. dest \in Block(m) /\ Slots(dest) = 0 .. m - 1 /\ Slots(src) = 0 .. n - 1
  BY ClearOK DEF Block, Slots
<1>2. slots \in [0 .. m - 1 -> Value \cup Nat]
  BY DEF Block
<1>3. block \in Block(m) /\ block.slots = slots
  <2> HIDE DEF slots, dest
  <2> QED
    BY <1>1, <1>2 DEF Block
<1>4. S \in SUBSET (0 .. m - 1) /\ S \in SUBSET (0 .. n - 1)
  BY <1>1 DEF Occupied
<1>5. rank \in [S -> 0 .. m]
  BY <1>4
<1>6. hash \in [S -> Nat \cup {EMPTY_SLOT_MARKER}]
  BY <1>4 DEF Block, Node
<1>7. hashtable_copy(src, m) = InsertAll(block, S, rank, hash)
  BY <1>1 DEF hashtable_copy
<1>8. ASSUME NEW B \in Block(m), NEW R \in SUBSET (0 .. m - 1),
             NEW r \in [R -> 0 .. m], NEW h \in [R -> Nat \cup {EMPTY_SLOT_MARKER}]
      PROVE  InsertAll(B, R, r, h) \in Block(m) /\ InsertAll(B, R, r, h).slots = B.slots
  BY InsertAllOK
<1>9. block \in Block(m) /\ S \in SUBSET (0 .. m - 1)
  BY <1>3, <1>4
<1> HIDE DEF block, S, rank, hash, slots, dest
<1>10. /\ InsertAll(block, S, rank, hash) \in Block(m)
       /\ InsertAll(block, S, rank, hash).slots = block.slots
  BY <1>5, <1>6, <1>8, <1>9
<1> QED
  BY <1>3, <1>7, <1>10 DEF slots

-----------------------------------------------------------------------------
(***************************************************************************)
(* The operations on stores and staged updates.                            *)
(***************************************************************************)

\* Staging a value keeps those already staged and adds the new one, with the
\* surrogate that NextSurr promised.
LEMMA StageOK ==
  ASSUME NEW s \in Nat, NEW st \in Store(s),
         NEW n \in Nat, NEW up \in Updates(n), Len(up.surrs) = up.count,
         NEW value \in Value, NextSurr(st, up) \in Nat,
         NextFree(st, NextSurr(st, up)) \in Nat
  PROVE  LET u == value_store_insert(st, up, value)
         IN  /\ u.block.capacity \in Nat \ {0} /\ u \in Updates(u.block.capacity)
             /\ u.count = up.count + 1
             /\ u.surrs = Append(up.surrs, NextSurr(st, up))
             /\ u.first_free = NextFree(st, NextSurr(st, up))
             /\ u.block.slots[up.count] = value
             /\ \A i \in 0 .. up.count - 1 : u.block.slots[i] = up.block.slots[i]
<1> DEFINE count == up.count
           old == up.block
           grown == IF count < n THEN old
                    ELSE IF n = 0 THEN hashtable_clear(UPDATES_INIT_SIZE)
                         ELSE hashtable_copy(old, 2 * n)
           m == IF count < n THEN n ELSE IF n = 0 THEN UPDATES_INIT_SIZE ELSE 2 * n
           block == [grown EXCEPT !.slots[count] = value]
           u == value_store_insert(st, up, value)
<1>1. old \in Block(n) /\ old.capacity = n /\ count \in 0 .. n
  BY DEF Updates, Block
<1>2. m \in Nat \ {0} /\ count \in 0 .. m - 1
  BY <1>1, SizeAssumption
<1>3. grown \in Block(m)
  <2>1. CASE count < n
    BY <1>1, <2>1
  <2>2. CASE ~ (count < n) /\ n = 0
    BY <2>2, SizeAssumption, ClearOK
  <2>3. CASE ~ (count < n) /\ n # 0
    <3>1. 2 * n \in Nat /\ 2 * n >= n
      OBVIOUS
    <3>2. hashtable_copy(old, 2 * n) \in Block(2 * n)
      BY <1>1, <3>1, HashCopyOK
    <3> QED
      BY <2>3, <3>2
  <2> QED
    BY <2>1, <2>2, <2>3
<1>4. \A i \in 0 .. count - 1 : grown.slots[i] = old.slots[i]
  <2>1. CASE count < n
    BY <2>1
  <2>2. CASE ~ (count < n) /\ n = 0
    BY <1>1, <2>2
  <2>3. CASE ~ (count < n) /\ n # 0
    <3>1. 2 * n \in Nat /\ 2 * n >= n /\ count = n
      BY <1>1, <2>3
    <3>2. hashtable_copy(old, 2 * n).slots =
            [i \in 0 .. 2 * n - 1 |-> IF i \in 0 .. n - 1 THEN old.slots[i] ELSE i + 1]
      BY <1>1, <3>1, HashCopyOK
    <3>3. grown = hashtable_copy(old, 2 * n)
      BY <2>3
    <3> HIDE DEF grown
    <3> QED
      BY <3>1, <3>2, <3>3
  <2> QED
    BY <2>1, <2>2, <2>3
<1> HIDE DEF grown, m
<1>5. /\ block \in Block(m)
      /\ block.slots[count] = value
      /\ \A i \in 0 .. count - 1 : block.slots[i] = old.slots[i]
  <2>1. block \in Block(m) /\ block.slots = [grown.slots EXCEPT ![count] = value]
    BY <1>2, <1>3, SetSlotOK
  <2>2. DOMAIN grown.slots = 0 .. m - 1
    BY <1>3 DEF Block
  <2> HIDE DEF block
  <2>3. block.slots[count] = value
    BY <1>2, <2>1, <2>2
  <2>4. ASSUME NEW i \in 0 .. count - 1 PROVE block.slots[i] = old.slots[i]
    <3>1. i # count /\ i \in 0 .. m - 1
      BY <1>2
    <3> QED
      BY <1>4, <2>1, <2>2, <3>1
  <2> QED
    BY <2>1, <2>3, <2>4
<1>6. Hash[value] \in Nat
  BY HashAssumption
<1>7. /\ hashtable_insert(block, Hash[value], count) \in Block(m)
      /\ hashtable_insert(block, Hash[value], count).slots = block.slots
  <2>1. m \in Nat /\ block \in Block(m)
    BY <1>2, <1>5
  <2>2. \A B \in Block(m), h \in Nat, i \in 0 .. m - 1 :
          hashtable_insert(B, h, i) \in Block(m) /\ hashtable_insert(B, h, i).slots = B.slots
    BY <2>1, HashInsertOK
  <2> HIDE DEF block, count, u, old
  <2> QED
    BY <1>2, <1>6, <2>1, <2>2
<1>8. u = [block      |-> hashtable_insert(block, Hash[value], count),
           count      |-> count + 1,
           first_free |-> NextFree(st, NextSurr(st, up)),
           surrs      |-> Append(up.surrs, NextSurr(st, up))]
  BY <1>1 DEF value_store_insert, grown
<1>9. Append(up.surrs, NextSurr(st, up)) \in Seq(Nat)
  BY DEF Updates
<1>10. hashtable_insert(block, Hash[value], count).capacity = m
  <2> HIDE DEF block
  <2> QED
    BY <1>7 DEF Block
<1>11. count \in 0 .. m /\ count + 1 \in 0 .. m
  BY <1>2
<1> HIDE DEF block, u, count, old
<1>12. u.block.capacity = m /\ u \in Updates(m)
  BY <1>7, <1>8, <1>9, <1>10, <1>11 DEF Updates
<1>13. /\ u.count = count + 1
       /\ u.surrs = Append(up.surrs, NextSurr(st, up))
       /\ u.first_free = NextFree(st, NextSurr(st, up))
       /\ u.block.slots = block.slots
  BY <1>7, <1>8
<1> QED
  BY <1>2, <1>5, <1>12, <1>13 DEF u, count, old

\* Growing makes the room asked for, keeps every slot and count, and links the
\* new slots to their right neighbours.
LEMMA GrowOK ==
  ASSUME NEW n \in Nat, NEW st \in Store(n), NEW new_usage \in Nat
  PROVE  LET g == Grow(st, new_usage)
             c == g.block.capacity
         IN  /\ c \in Nat /\ c >= n /\ c >= new_usage /\ g \in Store(c)
             /\ g.usage = st.usage /\ g.first_free = st.first_free
             /\ n >= new_usage => c = n
             /\ \A i \in 0 .. c - 1 :
                  /\ g.block.slots[i] = IF i < n THEN st.block.slots[i] ELSE i + 1
                  /\ g.ref_counts[i] = IF i < n THEN st.ref_counts[i] ELSE 0
<1> DEFINE g == Grow(st, new_usage)
           m == calc_capacity(new_usage)
<1>1. st.block \in Block(n) /\ st.block.capacity = n /\ Slots(st.block) = 0 .. n - 1
  BY DEF Store, Block, Slots
<1>2. CASE n >= new_usage
  <2>1. g = st
    BY <1>1, <1>2 DEF Grow
  <2> HIDE DEF g
  <2> QED
    BY <1>1, <1>2, <2>1 DEF g, Store
<1>3. CASE ~ (n >= new_usage)
  <2>1. m \in Nat /\ m >= new_usage /\ m >= n
    BY <1>3, CalcCapacity
  <2> DEFINE block == hashtable_copy(st.block, m)
             refs == [i \in 0 .. m - 1 |-> IF i \in 0 .. n - 1 THEN st.ref_counts[i] ELSE 0]
  <2>2. g = [st EXCEPT !.block = block, !.ref_counts = refs]
    BY <1>1, <1>3 DEF Grow
  <2> HIDE DEF m, g
  <2>3. /\ block \in Block(m)
        /\ block.slots = [i \in 0 .. m - 1 |-> IF i \in 0 .. n - 1 THEN st.block.slots[i] ELSE i + 1]
    BY <1>1, <2>1, HashCopyOK
  <2>4. refs \in [0 .. m - 1 -> Nat]
    BY DEF Store
  <2>5. st.usage \in 0 .. m /\ st.first_free \in 0 .. m
    BY <2>1 DEF Store
  <2> HIDE DEF block, refs
  <2>6. /\ g \in Store(m) /\ g.block = block /\ g.ref_counts = refs
        /\ g.usage = st.usage /\ g.first_free = st.first_free
    BY <2>2, <2>3, <2>4, <2>5 DEF Store
  <2>7. g.block.capacity = m
    BY <2>3, <2>6 DEF Block
  <2>8. ASSUME NEW i \in 0 .. m - 1
        PROVE  /\ block.slots[i] = IF i < n THEN st.block.slots[i] ELSE i + 1
               /\ refs[i] = IF i < n THEN st.ref_counts[i] ELSE 0
    <3>1. i \in 0 .. n - 1 <=> i < n
      BY <2>1
    <3> QED
      BY <2>3, <3>1 DEF refs
  <2> QED
    BY <1>3, <2>1, <2>6, <2>7, <2>8 DEF g
<1> QED
  BY <1>2, <1>3

\* Applying fills the slots that were promised and leaves the others alone.
LEMMA ApplyOK ==
  ASSUME NEW n \in Nat, NEW st \in Store(n),
         NEW m \in Nat, m # 0, NEW up \in Updates(m), Len(up.surrs) = up.count,
         \A k \in 1 .. up.count : up.block.slots[k - 1] \in Value,
         \A j, k \in 1 .. up.count : up.surrs[j] = up.surrs[k] => j = k,
         NEW c \in Nat, c = Grow(st, st.usage + up.count).block.capacity,
         \A k \in 1 .. up.count : up.surrs[k] < c,
         up.first_free \in 0 .. c
  PROVE  LET s == value_store_apply(st, up)
         IN  /\ s \in Store(c) /\ s.block.capacity = c
             /\ s.usage = st.usage + up.count
             /\ s.first_free = up.first_free
             /\ \A k \in 1 .. up.count : s.block.slots[up.surrs[k]] = up.block.slots[k - 1]
             /\ \A i \in 0 .. c - 1 :
                  /\ s.ref_counts[i] = IF i < n THEN st.ref_counts[i] ELSE 0
                  /\ \/ \E k \in 1 .. up.count : up.surrs[k] = i
                     \/ s.block.slots[i] = IF i < n THEN st.block.slots[i] ELSE i + 1
<1> DEFINE new_usage == st.usage + up.count
           grown == Grow(st, new_usage)
           staged == {up.surrs[k] : k \in 1 .. up.count}
           index == [s \in staged |-> (CHOOSE k \in 1 .. up.count : up.surrs[k] = s) - 1]
           slots == [s \in Slots(grown.block) |->
                       IF s \in staged THEN up.block.slots[index[s]] ELSE grown.block.slots[s]]
           filled == [grown.block EXCEPT !.slots = slots]
           hash == [s \in staged |-> up.block.nodes[index[s]].hash_code]
           block == InsertAll(filled, staged, index, hash)
           new == value_store_apply(st, up)
<1>1. /\ up.block \in Block(m) /\ up.block.capacity = m /\ up.count \in 0 .. m
      /\ \A k \in 1 .. up.count : up.surrs[k] \in Nat
      /\ st.usage \in Nat /\ new_usage \in Nat
  <2>1. /\ up.block \in Block(m) /\ up.count \in 0 .. m /\ up.surrs \in Seq(Nat)
        /\ st.usage \in 0 .. n
    BY DEF Updates, Store
  <2>2. up.block.capacity = m
    BY <2>1 DEF Block
  <2>3. \A k \in 1 .. up.count : up.surrs[k] \in Nat
    BY <2>1
  <2> QED
    BY <2>1, <2>2, <2>3
<1>2. /\ c \in Nat /\ c >= n /\ c >= new_usage /\ grown \in Store(c)
      /\ \A i \in 0 .. c - 1 :
           /\ grown.block.slots[i] = IF i < n THEN st.block.slots[i] ELSE i + 1
           /\ grown.ref_counts[i] = IF i < n THEN st.ref_counts[i] ELSE 0
  <2>1. new_usage \in Nat
    BY <1>1
  <2> HIDE DEF new_usage
  <2> QED
    BY <2>1, GrowOK DEF new_usage
<1> HIDE DEF grown
<1>3. grown.block \in Block(c) /\ Slots(grown.block) = 0 .. c - 1
  BY <1>2 DEF Store, Block, Slots
<1>4. staged \in SUBSET (0 .. c - 1)
  <2>1. ASSUME NEW k \in 1 .. up.count PROVE up.surrs[k] \in 0 .. c - 1
    <3>1. up.surrs[k] \in Nat /\ up.surrs[k] < c /\ c \in Nat
      BY <1>1, <1>2
    <3> QED
      BY <3>1
  <2> QED
    BY <2>1
<1>5. ASSUME NEW k \in 1 .. up.count PROVE index[up.surrs[k]] = k - 1
  <2>1. up.surrs[k] \in staged
    OBVIOUS
  <2>2. (CHOOSE j \in 1 .. up.count : up.surrs[j] = up.surrs[k]) = k
    OBVIOUS
  <2> HIDE DEF staged
  <2> QED
    BY <2>1, <2>2
<1>6. \A s \in staged : \E k \in 1 .. up.count : s = up.surrs[k] /\ index[s] = k - 1
  <2> HIDE DEF index
  <2> QED
    BY <1>5
<1>7. index \in [staged -> 0 .. m]
  <2>1. \A s \in staged : index[s] \in 0 .. m
    <3> HIDE DEF index, staged
    <3> QED
      BY <1>1, <1>6
  <2> HIDE DEF staged
  <2> QED
    BY <2>1
<1>8. hash \in [staged -> Nat \cup {EMPTY_SLOT_MARKER}]
  <2>1. ASSUME NEW s \in staged
        PROVE  up.block.nodes[index[s]].hash_code \in Nat \cup {EMPTY_SLOT_MARKER}
    <3>1. index[s] \in 0 .. m - 1
      <4> HIDE DEF index, staged
      <4> QED
        BY <1>1, <1>6
    <3> HIDE DEF index, staged
    <3> QED
      BY <1>1, <3>1 DEF Block, Node
  <2> HIDE DEF index, staged
  <2> QED
    BY <2>1
<1> HIDE DEF index
<1>9. \A s \in staged : up.block.slots[index[s]] \in Value
  BY <1>6
<1> HIDE DEF staged
<1>10. slots \in [0 .. c - 1 -> Value \cup Nat]
  BY <1>3, <1>9 DEF Block
<1>11. filled \in Block(c) /\ filled.slots = slots
  <2> HIDE DEF slots
  <2> QED
    BY <1>3, <1>10 DEF Block
<1>12. block \in Block(c) /\ block.slots = slots
  <2>1. ASSUME NEW B \in Block(c), NEW R \in SUBSET (0 .. c - 1),
               NEW r \in [R -> 0 .. m], NEW h \in [R -> Nat \cup {EMPTY_SLOT_MARKER}]
        PROVE  InsertAll(B, R, r, h) \in Block(c) /\ InsertAll(B, R, r, h).slots = B.slots
    BY InsertAllOK
  <2> HIDE DEF filled, hash, slots
  <2> QED
    BY <1>4, <1>7, <1>8, <1>11, <2>1
<1>13. new = [grown EXCEPT !.block = block, !.usage = new_usage, !.first_free = up.first_free]
  BY <1>1 DEF value_store_apply, grown, staged, index
<1> HIDE DEF block, new, filled, hash
<1>14. /\ new \in Store(c) /\ new.block = block
       /\ new.usage = new_usage /\ new.first_free = up.first_free
       /\ new.ref_counts = grown.ref_counts
  <2>1. new_usage \in 0 .. c
    BY <1>1, <1>2
  <2> HIDE DEF new_usage, slots
  <2> QED
    BY <1>2, <1>12, <1>13, <2>1 DEF Store
<1>15. new.block.capacity = c
  BY <1>12, <1>14 DEF Block
<1>16. ASSUME NEW k \in 1 .. up.count
       PROVE  new.block.slots[up.surrs[k]] = up.block.slots[k - 1]
  <2>1. up.surrs[k] \in staged /\ up.surrs[k] \in 0 .. c - 1
    BY <1>4 DEF staged
  <2> QED
    BY <1>3, <1>5, <1>12, <1>14, <2>1
<1>17. ASSUME NEW i \in 0 .. c - 1
       PROVE  \/ \E k \in 1 .. up.count : up.surrs[k] = i
              \/ new.block.slots[i] = IF i < n THEN st.block.slots[i] ELSE i + 1
  <2>1. CASE i \in staged
    BY <2>1 DEF staged
  <2>2. CASE i \notin staged
    BY <1>2, <1>3, <1>12, <1>14, <2>2
  <2> QED
    BY <2>1, <2>2
<1> QED
  BY <1>2, <1>14, <1>15, <1>16, <1>17 DEF new

-----------------------------------------------------------------------------
(***************************************************************************)
(* When the buckets of a block are right.  The slots of a bucket are       *)
(* linked in the reverse of the order they went in: rank says what that    *)
(* order was.  Nothing in the state records it, so it is asserted to exist. *)
(***************************************************************************)

\* x is the slot of T that went in last, if there is one.
IsLast(x, T, rank) ==
  IF T = {} THEN x = EMPTY_SLOT_MARKER
  ELSE x \in T /\ \A j \in T : rank[j] <= rank[x]

BucketOf(block, S, b) == {i \in S : Hash[block.slots[i]] % block.capacity = b}

InBefore(block, S, rank, i) ==
  {j \in BucketOf(block, S, Hash[block.slots[i]] % block.capacity) : rank[j] < rank[i]}

\* The buckets hold the slots in S, each with the hash code of its value, and
\* the nodes of the other slots are empty.
Linked(block, S, rank) ==
  /\ \A i, j \in S : rank[i] = rank[j] => i = j
  /\ \A b \in Slots(block) : IsLast(block.hashtable[b], BucketOf(block, S, b), rank)
  /\ \A i \in S :
       /\ block.slots[i] \in Value
       /\ block.nodes[i].hash_code = Hash[block.slots[i]]
       /\ IsLast(block.nodes[i].next, InBefore(block, S, rank, i), rank)
  /\ \A i \in Slots(block) \ S : block.nodes[i] = empty_node

Chained(block, S) == \E bound \in Nat : \E rank \in [S -> 0 .. bound] : Linked(block, S, rank)

-----------------------------------------------------------------------------
(***************************************************************************)
(* Looking up.                                                             *)
(***************************************************************************)

\* The function that hashtable_lookup defines by recursion over the links of
\* a bucket satisfies its definition: the links go down in rank, so there is
\* a function that does, the one that finds the last match at or before a slot.
LEMMA SearchExists ==
  ASSUME NEW n \in Nat, NEW block \in Block(n), NEW S \in SUBSET (0 .. n - 1),
         NEW bound \in Nat, NEW rank \in [S -> 0 .. bound], Linked(block, S, rank),
         NEW value \in Value
  PROVE  \E f : f = [entry \in Slots(block) \cup {EMPTY_SLOT_MARKER} |->
                       IF entry = EMPTY_SLOT_MARKER THEN -1
                       ELSE IF /\ block.nodes[entry].hash_code = Hash[value]
                               /\ block.slots[entry] = value
                            THEN entry
                            ELSE f[block.nodes[entry].next]]
<1> DEFINE D == Slots(block) \cup {EMPTY_SLOT_MARKER}
           Code(i) == Hash[block.slots[i]] % block.capacity
           Match(i) == {j \in S : Code(j) = Code(i) /\ rank[j] <= rank[i] /\ block.slots[j] = value}
           Best(T) == IF T = {} THEN -1 ELSE CHOOSE i \in T : \A j \in T : rank[j] <= rank[i]
           f == [e \in D |-> IF e \in S THEN Best(Match(e)) ELSE -1]
           Step(e) == IF e = EMPTY_SLOT_MARKER THEN -1
                      ELSE IF /\ block.nodes[e].hash_code = Hash[value]
                              /\ block.slots[e] = value
                           THEN e ELSE f[block.nodes[e].next]
<1>1. /\ Slots(block) = 0 .. n - 1 /\ S \subseteq D /\ EMPTY_SLOT_MARKER = -1
      /\ \A i \in S : i # -1
      /\ \A e \in Slots(block) : block.nodes[e].next \in D
  BY DEF Block, Slots, EMPTY_SLOT_MARKER, Node
<1>2. /\ \A i, j \in S : rank[i] = rank[j] => i = j
      /\ \A i \in S : block.nodes[i].hash_code = Hash[block.slots[i]]
      /\ \A i \in S : IsLast(block.nodes[i].next, InBefore(block, S, rank, i), rank)
      /\ \A i \in Slots(block) \ S : block.nodes[i] = empty_node
      /\ Hash[value] \in Nat
      /\ \A i \in S : rank[i] \in Nat
  BY HashAssumption DEF Linked
<1>3. ASSUME NEW e \in D PROVE f[e] = Step(e)
  <2>1. CASE e = EMPTY_SLOT_MARKER
    BY <2>1, <1>1
  <2>2. CASE e \in Slots(block) \ S
    <3>1. block.nodes[e].hash_code = -1 /\ block.nodes[e].next = -1
      BY <2>2, <1>2, <1>1 DEF empty_node
    <3>2. Hash[value] # -1
      BY <1>2
    <3>3. f[-1] = -1 /\ f[e] = -1 /\ e # -1
      BY <1>1, <2>2
    <3> HIDE DEF f
    <3> QED
      BY <1>1, <3>1, <3>2, <3>3
  <2>3. CASE e \in S /\ block.slots[e] = value
    <3>1. e \in Match(e) /\ \A j \in Match(e) : rank[j] <= rank[e]
      BY <2>3, <1>2
    <3>2. Best(Match(e)) = e
      <4> DEFINE T == Match(e)
      <4>1. T \in SUBSET S /\ e \in T /\ \A j \in T : rank[j] <= rank[e]
        BY <3>1
      <4> HIDE DEF T
      <4>2. \A i \in T : (\A j \in T : rank[j] <= rank[i]) => i = e
        BY <4>1, <1>2
      <4>3. (CHOOSE i \in T : \A j \in T : rank[j] <= rank[i]) = e
        BY <4>1, <4>2
      <4>4. Best(T) = e
        BY <4>1, <4>3
      <4> HIDE DEF Best
      <4> QED
        BY <4>4 DEF T
    <3>3. Step(e) = e
      <4> HIDE DEF f
      <4> QED
        BY <2>3, <1>1, <1>2
    <3> HIDE DEF Best, Match, Step
    <3> QED
      BY <2>3, <3>2, <3>3, <1>1
  <2>4. CASE e \in S /\ block.slots[e] # value
    <3> DEFINE next == block.nodes[e].next
    <3>1. IsLast(next, InBefore(block, S, rank, e), rank)
      BY <2>4, <1>2
    <3>2. Step(e) = f[next]
      <4> HIDE DEF f
      <4> QED
        BY <2>4, <1>1
    <3>3. f[e] = Best(Match(e))
      BY <2>4, <1>1
    <3>4. CASE InBefore(block, S, rank, e) = {}
      <4>1. next = -1
        BY <3>1, <3>4, <1>1 DEF IsLast
      <4>2. Match(e) = {}
        <5> SUFFICES ASSUME NEW j \in Match(e) PROVE FALSE
          OBVIOUS
        <5>1. j \in S /\ Code(j) = Code(e) /\ rank[j] <= rank[e] /\ block.slots[j] = value
          OBVIOUS
        <5>2. j # e
          BY <5>1, <2>4
        <5>3. rank[j] < rank[e]
          BY <5>1, <5>2, <1>2, <2>4
        <5> QED
          BY <5>1, <5>3, <3>4 DEF InBefore, BucketOf
      <4>3. f[next] = -1
        BY <4>1, <1>1
      <4> HIDE DEF f, Match, Step
      <4> QED
        BY <3>2, <3>3, <4>2, <4>3
    <3>5. CASE InBefore(block, S, rank, e) # {}
      <4>1. next \in InBefore(block, S, rank, e)
            /\ \A j \in InBefore(block, S, rank, e) : rank[j] <= rank[next]
        BY <3>1, <3>5 DEF IsLast
      <4>2. next \in S /\ Code(next) = Code(e) /\ rank[next] < rank[e]
        BY <4>1 DEF InBefore, BucketOf
      <4>3. Match(e) = Match(next)
        <5>1. ASSUME NEW j \in Match(e) PROVE j \in Match(next)
          <6>1. j \in S /\ Code(j) = Code(e) /\ rank[j] <= rank[e] /\ block.slots[j] = value
            OBVIOUS
          <6>2. j # e
            BY <6>1, <2>4
          <6>3. rank[j] < rank[e]
            BY <6>1, <6>2, <1>2, <2>4
          <6>4. j \in InBefore(block, S, rank, e)
            BY <6>1, <6>3 DEF InBefore, BucketOf
          <6> QED
            BY <6>1, <6>4, <4>1, <4>2
        <5>2. ASSUME NEW j \in Match(next) PROVE j \in Match(e)
          <6>1. j \in S /\ Code(j) = Code(next) /\ rank[j] <= rank[next] /\ block.slots[j] = value
            OBVIOUS
          <6>2. rank[j] <= rank[e]
            BY <6>1, <4>2, <1>2, <2>4
          <6> QED
            BY <6>1, <6>2, <4>2
        <5> QED
          BY <5>1, <5>2
      <4>4. f[next] = Best(Match(next))
        BY <4>2, <1>1
      <4> HIDE DEF f, Match, Step
      <4> QED
        BY <3>2, <3>3, <4>3, <4>4
    <3> QED
      BY <3>4, <3>5
  <2> QED
    BY <2>1, <2>2, <2>3, <2>4
<1>4. f = [e \in D |-> Step(e)]
  <2>1. f = [e \in D |-> f[e]]
    OBVIOUS
  <2> HIDE DEF f, Step
  <2> QED
    BY <1>3, <2>1
<1> HIDE DEF f
<1> QED
  BY <1>4

\* A look-up in a block whose buckets are right returns a slot of the value if
\* there is one, and -1 if there is none.
LEMMA LookupFinds ==
  ASSUME NEW n \in Nat, NEW block \in Block(n), n # 0, NEW S \in SUBSET (0 .. n - 1),
         Chained(block, S), NEW value \in Value
  PROVE  \/ /\ hashtable_lookup(block, value) \in S
            /\ block.slots[hashtable_lookup(block, value)] = value
         \/ /\ hashtable_lookup(block, value) = -1
            /\ \A i \in S : block.slots[i] # value
<1>0. PICK bound \in Nat : \E rank \in [S -> 0 .. bound] : Linked(block, S, rank)
  BY DEF Chained
<1>1. PICK rank \in [S -> 0 .. bound] : Linked(block, S, rank)
  BY <1>0
<1> DEFINE D == Slots(block) \cup {EMPTY_SLOT_MARKER}
           search == CHOOSE f : f = [entry \in D |->
                       IF entry = EMPTY_SLOT_MARKER THEN -1
                       ELSE IF /\ block.nodes[entry].hash_code = Hash[value]
                               /\ block.slots[entry] = value
                            THEN entry
                            ELSE f[block.nodes[entry].next]]
           Code(i) == Hash[block.slots[i]] % block.capacity
           start == block.hashtable[Hash[value] % block.capacity]
<1>2. hashtable_lookup(block, value) = search[start]
  BY DEF hashtable_lookup
<1>3. search = [entry \in D |->
                       IF entry = EMPTY_SLOT_MARKER THEN -1
                       ELSE IF /\ block.nodes[entry].hash_code = Hash[value]
                               /\ block.slots[entry] = value
                            THEN entry
                            ELSE search[block.nodes[entry].next]]
  BY <1>1, SearchExists
<1> HIDE DEF search
<1>4. /\ Slots(block) = 0 .. n - 1 /\ S \subseteq D /\ EMPTY_SLOT_MARKER = -1
      /\ \A i \in S : i # -1
      /\ -1 \in D /\ block.capacity = n
  BY DEF Block, Slots, EMPTY_SLOT_MARKER
<1>5. /\ \A i, j \in S : rank[i] = rank[j] => i = j
      /\ \A i \in S : block.nodes[i].hash_code = Hash[block.slots[i]]
      /\ \A i \in S : IsLast(block.nodes[i].next, InBefore(block, S, rank, i), rank)
      /\ \A b \in Slots(block) : IsLast(block.hashtable[b], BucketOf(block, S, b), rank)
      /\ Hash[value] \in Nat
      /\ \A i \in S : rank[i] \in Nat
  BY <1>1, HashAssumption DEF Linked
<1>6. /\ search[-1] = -1
      /\ \A i \in S : search[i] = IF block.slots[i] = value THEN i
                                  ELSE search[block.nodes[i].next]
  BY <1>3, <1>4, <1>5
<1> DEFINE Done(i) == \/ search[i] \in S /\ block.slots[search[i]] = value
                      \/ /\ search[i] = -1
                         /\ \A j \in S : Code(j) = Code(i) /\ rank[j] <= rank[i] => block.slots[j] # value
           T == {k \in Nat : \A i \in S : rank[i] < k => Done(i)}
<1>7. 0 \in T
  <2> HIDE DEF Done
  <2> QED
    BY <1>5
<1>8. ASSUME NEW k \in T, k \in Nat PROVE k + 1 \in T
  <2> SUFFICES ASSUME NEW i \in S, rank[i] < k + 1 PROVE Done(i)
    OBVIOUS
  <2> DEFINE next == block.nodes[i].next
  <2>1. CASE block.slots[i] = value
    BY <2>1, <1>6
  <2>2. CASE block.slots[i] # value
    <3>1. IsLast(next, InBefore(block, S, rank, i), rank) /\ search[i] = search[next]
      BY <2>2, <1>5, <1>6
    <3>2. CASE InBefore(block, S, rank, i) = {}
      <4>1. search[i] = -1
        BY <3>1, <3>2, <1>4, <1>6 DEF IsLast
      <4>2. ASSUME NEW j \in S, Code(j) = Code(i), rank[j] <= rank[i]
            PROVE  block.slots[j] # value
        <5>1. ~ (rank[j] < rank[i])
          BY <3>2, <4>2 DEF InBefore, BucketOf
        <5>2. j = i
          BY <5>1, <4>2, <1>5
        <5> QED
          BY <5>2, <2>2
      <4> QED
        BY <4>1, <4>2
    <3>3. CASE InBefore(block, S, rank, i) # {}
      <4>1. next \in InBefore(block, S, rank, i)
            /\ \A j \in InBefore(block, S, rank, i) : rank[j] <= rank[next]
        BY <3>1, <3>3 DEF IsLast
      <4>2. next \in S /\ Code(next) = Code(i) /\ rank[next] < rank[i]
        BY <4>1 DEF InBefore, BucketOf
      <4>3. Done(next)
        <5>1. rank[next] < k
          BY <4>2, <1>5
        <5> QED
          BY <5>1, <4>2
      <4>4. ASSUME search[next] = -1, NEW j \in S, Code(j) = Code(i), rank[j] <= rank[i]
            PROVE  block.slots[j] # value
        <5>1. CASE j = i
          BY <5>1, <2>2
        <5>2. CASE j # i
          <6>1. rank[j] < rank[i]
            BY <5>2, <4>4, <1>5
          <6>2. j \in InBefore(block, S, rank, i)
            BY <6>1, <4>4 DEF InBefore, BucketOf
          <6>3. rank[j] <= rank[next]
            BY <6>2, <4>1
          <6>4. -1 \notin S
            BY <1>4
          <6> QED
            BY <6>3, <6>4, <4>2, <4>3, <4>4
        <5> QED
          BY <5>1, <5>2
      <4> QED
        BY <3>1, <4>3, <4>4
    <3> QED
      BY <3>2, <3>3
  <2> QED
    BY <2>1, <2>2
<1>9. Nat \subseteq T
  <2> HIDE DEF T
  <2> QED
    BY <1>7, <1>8, SetInduction
<1>10. ASSUME NEW i \in S PROVE Done(i)
  <2>1. rank[i] + 1 \in T /\ rank[i] \in Nat
    BY <1>5, <1>9
  <2> QED
    BY <2>1
<1> DEFINE b == Hash[value] % block.capacity
<1>11. b \in Slots(block) /\ IsLast(start, BucketOf(block, S, b), rank)
  <2>1. Hash[value] \in Int /\ n \in Nat \ {0}
    BY <1>5
  <2>2. b \in 0 .. n - 1
    BY <2>1, <1>4, ModRange
  <2> QED
    BY <2>2, <1>4, <1>5
<1>12. CASE BucketOf(block, S, b) = {}
  <2>1. search[start] = -1
    BY <1>11, <1>12, <1>4, <1>6 DEF IsLast
  <2>2. ASSUME NEW i \in S PROVE block.slots[i] # value
    BY <1>12 DEF BucketOf
  <2> QED
    BY <2>1, <2>2, <1>2
<1>13. CASE BucketOf(block, S, b) # {}
  <2>1. start \in BucketOf(block, S, b) /\ \A j \in BucketOf(block, S, b) : rank[j] <= rank[start]
    BY <1>11, <1>13 DEF IsLast
  <2>2. start \in S /\ Code(start) = b
    BY <2>1 DEF BucketOf
  <2>3. Done(start)
    BY <2>2, <1>10
  <2>4. ASSUME search[start] = -1, NEW i \in S PROVE block.slots[i] # value
    <3> SUFFICES ASSUME block.slots[i] = value PROVE FALSE
      OBVIOUS
    <3>1. i \in BucketOf(block, S, b) /\ Code(i) = Code(start)
      BY <2>2 DEF BucketOf
    <3>2. rank[i] <= rank[start]
      BY <3>1, <2>1
    <3>3. -1 \notin S
      BY <1>4
    <3> QED
      BY <3>1, <3>2, <3>3, <2>3, <2>4
  <2> QED
    BY <2>3, <2>4, <1>2
<1> QED
  BY <1>12, <1>13

-----------------------------------------------------------------------------
(***************************************************************************)
(* The operations on blocks keep the buckets right.                        *)
(***************************************************************************)

\* A cleared hash table has every chain empty.
LEMMA ClearChained ==
  ASSUME NEW n \in Nat
  PROVE  Chained(hashtable_clear(n), {})
<1> DEFINE block == hashtable_clear(n)
           rank == [i \in {} |-> 0]
<1>1. /\ Slots(block) = 0 .. n - 1
      /\ \A b \in 0 .. n - 1 : block.hashtable[b] = EMPTY_SLOT_MARKER /\ block.nodes[b] = empty_node
  BY DEF hashtable_clear, Slots
<1>2. \A b : BucketOf(block, {}, b) = {}
  BY DEF BucketOf
<1>3. Linked(block, {}, rank)
  <2> HIDE DEF block, rank
  <2> QED
    BY <1>1, <1>2 DEF Linked, IsLast
<1>4. rank \in [{} -> 0 .. 0]
  OBVIOUS
<1> QED
  BY <1>3, <1>4 DEF Chained

\* What a look-up reads of a block: two blocks that agree on it for the slots
\* in S are both right or both wrong.
LEMMA ChainedSame ==
  ASSUME NEW block, NEW other, NEW S, Chained(block, S), S \subseteq Slots(block),
         other.capacity = block.capacity, other.nodes = block.nodes,
         other.hashtable = block.hashtable,
         \A i \in S : other.slots[i] = block.slots[i]
  PROVE  Chained(other, S)
<1>1. PICK bound \in Nat : \E rank \in [S -> 0 .. bound] : Linked(block, S, rank)
  BY DEF Chained
<1>2. PICK rank \in [S -> 0 .. bound] : Linked(block, S, rank)
  BY <1>1
<1>3. Slots(other) = Slots(block)
  BY DEF Slots
<1>4. \A b : BucketOf(other, S, b) = BucketOf(block, S, b)
  BY DEF BucketOf
<1>5. \A i \in S : InBefore(other, S, rank, i) = InBefore(block, S, rank, i)
  BY <1>4 DEF InBefore
<1>6. Linked(other, S, rank)
  BY <1>2, <1>3, <1>4, <1>5 DEF Linked
<1> QED
  BY <1>6 DEF Chained

\* A slot that is inserted is the last of its bucket.
LEMMA InsertChained ==
  ASSUME NEW n \in Nat, n # 0, NEW block \in Block(n), NEW S \in SUBSET (0 .. n - 1),
         NEW i \in 0 .. n - 1, i \notin S, block.slots[i] \in Value,
         Chained(block, S)
  PROVE  Chained(hashtable_insert(block, Hash[block.slots[i]], i), S \cup {i})
<1> DEFINE h == Hash[block.slots[i]]
           index == h % block.capacity
           new == hashtable_insert(block, h, i)
           U == S \cup {i}
           Code(j) == Hash[block.slots[j]] % block.capacity
<1>1. PICK bound \in Nat : \E rank \in [S -> 0 .. bound] : Linked(block, S, rank)
  BY DEF Chained
<1>2. PICK rank \in [S -> 0 .. bound] : Linked(block, S, rank)
  BY <1>1
<1> DEFINE rank2 == [j \in U |-> IF j = i THEN bound + 1 ELSE rank[j]]
<1>3. /\ block.capacity = n /\ Slots(block) = 0 .. n - 1 /\ h \in Nat
      /\ DOMAIN block.nodes = 0 .. n - 1 /\ DOMAIN block.hashtable = 0 .. n - 1
  BY HashAssumption DEF Block, Slots
<1>4. index \in 0 .. n - 1
  <2>1. h \in Int /\ n \in Nat \ {0}
    BY <1>3
  <2> HIDE DEF h
  <2> QED
    BY <2>1, <1>3, ModRange
<1>5. /\ new.capacity = n /\ new.slots = block.slots /\ Slots(new) = 0 .. n - 1
      /\ \A b \in 0 .. n - 1 : new.hashtable[b] = IF b = index THEN i ELSE block.hashtable[b]
      /\ \A j \in 0 .. n - 1 : new.nodes[j] = IF j = i THEN [next |-> block.hashtable[index], hash_code |-> h]
                                             ELSE block.nodes[j]
  <2> HIDE DEF h
  <2>1. new = [block EXCEPT !.hashtable[index] = i,
                            !.nodes[i] = [next |-> block.hashtable[index], hash_code |-> h]]
    BY DEF hashtable_insert
  <2> HIDE DEF index, new
  <2>2. block = [capacity |-> block.capacity, slots |-> block.slots,
                 nodes |-> block.nodes, hashtable |-> block.hashtable]
    BY DEF Block
  <2> QED
    BY <2>1, <2>2, <1>3, <1>4 DEF Slots
<1> HIDE DEF new
<1>6. /\ \A j \in S : rank2[j] = rank[j] /\ rank[j] \in Nat /\ rank[j] <= bound
      /\ rank2[i] = bound + 1
      /\ rank2 \in [U -> 0 .. bound + 1]
  <2>1. \A j \in S : rank[j] \in Nat /\ rank[j] <= bound /\ j # i /\ j \in U
    OBVIOUS
  <2>2. /\ bound + 1 \in 0 .. bound + 1 /\ i \in U
        /\ \A j \in S : rank[j] \in 0 .. bound + 1
    BY <2>1
  <2>3. \A j \in U : rank2[j] \in 0 .. bound + 1
    BY <2>2
  <2> QED
    BY <2>1, <2>2, <2>3
<1> HIDE DEF rank2
<1>7. /\ \A j, k \in S : rank[j] = rank[k] => j = k
      /\ \A b \in 0 .. n - 1 : IsLast(block.hashtable[b], BucketOf(block, S, b), rank)
      /\ \A j \in S : /\ block.slots[j] \in Value
                      /\ block.nodes[j].hash_code = Hash[block.slots[j]]
                      /\ IsLast(block.nodes[j].next, InBefore(block, S, rank, j), rank)
      /\ \A j \in (0 .. n - 1) \ S : block.nodes[j] = empty_node
  BY <1>2, <1>3 DEF Linked
<1>8. \A b : BucketOf(new, U, b) = IF b = index THEN BucketOf(block, S, b) \cup {i} ELSE BucketOf(block, S, b)
  BY <1>3, <1>5 DEF BucketOf
<1>9. \A j \in U : InBefore(new, U, rank2, j) = IF j = i THEN BucketOf(block, S, index)
                                                ELSE InBefore(block, S, rank, j)
  <2> TAKE j \in U
  <2>1. CASE j = i
    <3>1. ASSUME NEW k \in InBefore(new, U, rank2, i) PROVE k \in BucketOf(block, S, index)
      <4>1. k \in BucketOf(new, U, index) /\ rank2[k] < rank2[i]
        BY <1>3, <1>5 DEF InBefore
      <4>2. k # i
        BY <4>1, <1>6
      <4> QED
        BY <4>1, <4>2, <1>8
    <3>2. ASSUME NEW k \in BucketOf(block, S, index) PROVE k \in InBefore(new, U, rank2, i)
      <4>1. k \in S /\ k \in BucketOf(new, U, index)
        BY <1>8 DEF BucketOf
      <4>2. rank2[k] < rank2[i]
        BY <4>1, <1>6
      <4> QED
        BY <4>1, <4>2, <1>3, <1>5 DEF InBefore
    <3>3. InBefore(new, U, rank2, i) = BucketOf(block, S, index)
      BY <3>1, <3>2
    <3> QED
      BY <2>1, <3>3
  <2>2. CASE j # i
    <3>1. j \in S
      BY <2>2
    <3>2. ASSUME NEW k \in InBefore(new, U, rank2, j) PROVE k \in InBefore(block, S, rank, j)
      <4>1. k \in BucketOf(new, U, Code(j)) /\ rank2[k] < rank2[j]
        BY <1>3, <1>5 DEF InBefore
      <4>2. k # i /\ k \in BucketOf(block, S, Code(j)) /\ k \in S
        BY <4>1, <1>6, <1>8, <3>1 DEF BucketOf
      <4> QED
        BY <4>1, <4>2, <1>6, <3>1 DEF InBefore
    <3>3. ASSUME NEW k \in InBefore(block, S, rank, j) PROVE k \in InBefore(new, U, rank2, j)
      <4>1. k \in BucketOf(block, S, Code(j)) /\ rank[k] < rank[j] /\ k \in S
        BY DEF InBefore, BucketOf
      <4>2. k \in BucketOf(new, U, Code(j))
        BY <4>1, <1>8
      <4> QED
        BY <4>1, <4>2, <1>3, <1>5, <1>6, <3>1 DEF InBefore
    <3> QED
      BY <2>2, <3>2, <3>3
  <2> QED
    BY <2>1, <2>2
<1>10. \A T \in SUBSET S : \A x : IsLast(x, T, rank) => IsLast(x, T, rank2)
  BY <1>6 DEF IsLast
<1>11. \A b : BucketOf(block, S, b) \in SUBSET S
  BY DEF BucketOf
<1>12. \A j : InBefore(block, S, rank, j) \in SUBSET S
  BY DEF InBefore, BucketOf
<1>13. Linked(new, U, rank2)
  <2>1. \A j, k \in U : rank2[j] = rank2[k] => j = k
    BY <1>6, <1>7
  <2>2. ASSUME NEW b \in Slots(new) PROVE IsLast(new.hashtable[b], BucketOf(new, U, b), rank2)
    <3>1. b \in 0 .. n - 1
      BY <1>5
    <3>2. CASE b = index
      <4>1. new.hashtable[b] = i /\ BucketOf(new, U, b) = BucketOf(block, S, b) \cup {i}
        BY <3>1, <3>2, <1>5, <1>8
      <4>2. \A j \in BucketOf(block, S, b) \cup {i} : rank2[j] <= rank2[i]
        BY <1>6, <1>11
      <4> QED
        BY <4>1, <4>2 DEF IsLast
    <3>3. CASE b # index
      <4>1. new.hashtable[b] = block.hashtable[b] /\ BucketOf(new, U, b) = BucketOf(block, S, b)
        BY <3>1, <3>3, <1>5, <1>8
      <4> QED
        BY <4>1, <3>1, <1>7, <1>10, <1>11
    <3> QED
      BY <3>2, <3>3
  <2>3. ASSUME NEW j \in U
        PROVE  /\ new.slots[j] \in Value
               /\ new.nodes[j].hash_code = Hash[new.slots[j]]
               /\ IsLast(new.nodes[j].next, InBefore(new, U, rank2, j), rank2)
    <3>1. CASE j = i
      <4>1. /\ new.nodes[i].next = block.hashtable[index] /\ new.nodes[i].hash_code = h
            /\ InBefore(new, U, rank2, i) = BucketOf(block, S, index)
        <5>1. new.nodes[i] = [next |-> block.hashtable[index], hash_code |-> h]
          BY <1>5
        <5>2. i \in U
          OBVIOUS
        <5>3. InBefore(new, U, rank2, i) = BucketOf(block, S, index)
          <6> HIDE DEF index, U
          <6> QED
            BY <5>2, <1>9
        <5> HIDE DEF h, index
        <5> QED
          BY <5>1, <5>3
      <4>2. IsLast(block.hashtable[index], BucketOf(block, S, index), rank)
        BY <1>4, <1>7
      <4> QED
        BY <3>1, <4>1, <4>2, <1>5, <1>10, <1>11
    <3>2. CASE j # i
      <4>1. j \in S /\ j \in 0 .. n - 1
        BY <3>2
      <4>2. new.nodes[j] = block.nodes[j] /\ InBefore(new, U, rank2, j) = InBefore(block, S, rank, j)
        BY <4>1, <3>2, <1>5, <1>9
      <4> QED
        BY <4>1, <4>2, <1>5, <1>7, <1>10, <1>12
    <3> QED
      BY <3>1, <3>2
  <2>4. \A j \in Slots(new) \ U : new.nodes[j] = empty_node
    BY <1>5, <1>7
  <2> QED
    BY <2>1, <2>2, <2>3, <2>4 DEF Linked
<1>14. bound + 1 \in Nat
  OBVIOUS
<1>15. Chained(new, U)
  BY <1>6, <1>13, <1>14 DEF Chained
<1> QED
  BY <1>15 DEF new

\* What hashtable_delete writes: the head of the bucket, or the next field of the node before it.
LEMMA HashDeleteFields ==
  ASSUME NEW n \in Nat, NEW block \in Block(n), NEW i \in 0 .. n - 1
  PROVE  LET new == hashtable_delete(block, i)
             index == block.nodes[i].hash_code % n
             succ == block.nodes[i].next
         IN  /\ new.capacity = n /\ new.slots = block.slots
             /\ \A b \in 0 .. n - 1 :
                  new.hashtable[b] = IF block.hashtable[index] = i /\ b = index
                                     THEN succ ELSE block.hashtable[b]
             /\ \A j \in 0 .. n - 1 :
                  new.nodes[j] = IF j = i THEN empty_node
                                 ELSE IF block.hashtable[index] # i /\ block.nodes[j].next = i
                                      THEN [next |-> succ, hash_code |-> block.nodes[j].hash_code]
                                      ELSE block.nodes[j]
<1> DEFINE index == block.nodes[i].hash_code % n
           succ == block.nodes[i].next
           ht == [block.hashtable EXCEPT ![index] = IF block.hashtable[index] = i THEN succ ELSE @]
           nd == [j \in 0 .. n - 1 |->
                    IF j = i THEN empty_node
                    ELSE IF block.hashtable[index] # i /\ block.nodes[j].next = i
                         THEN [block.nodes[j] EXCEPT !.next = succ]
                         ELSE block.nodes[j]]
           new == hashtable_delete(block, i)
<1>1. block.capacity = n /\ Slots(block) = 0 .. n - 1 /\ block.slots = block.slots
      /\ DOMAIN block.hashtable = 0 .. n - 1
      /\ \A j \in 0 .. n - 1 : block.nodes[j] \in Node(n)
  BY DEF Block, Slots
<1>2. new = [block EXCEPT !.hashtable = ht, !.nodes = nd]
  BY <1>1 DEF hashtable_delete
<1>3. new.capacity = n /\ new.slots = block.slots /\ new.hashtable = ht /\ new.nodes = nd
  <2> HIDE DEF ht, nd, new
  <2> QED
    BY <1>2 DEF Block
<1>4. \A j \in 0 .. n - 1 : [block.nodes[j] EXCEPT !.next = succ]
                            = [next |-> succ, hash_code |-> block.nodes[j].hash_code]
  BY <1>1 DEF Node
<1>5. \A j \in 0 .. n - 1 :
        nd[j] = IF j = i THEN empty_node
                ELSE IF block.hashtable[index] # i /\ block.nodes[j].next = i
                     THEN [next |-> succ, hash_code |-> block.nodes[j].hash_code]
                     ELSE block.nodes[j]
  BY <1>4
<1>6. \A b \in 0 .. n - 1 :
        ht[b] = IF block.hashtable[index] = i /\ b = index THEN succ ELSE block.hashtable[b]
  <2> HIDE DEF index, succ
  <2> QED
    BY <1>1
<1> HIDE DEF ht, nd, new
<1>7. /\ new.capacity = n /\ new.slots = block.slots
      /\ \A b \in 0 .. n - 1 :
           new.hashtable[b] = IF block.hashtable[index] = i /\ b = index THEN succ ELSE block.hashtable[b]
      /\ \A j \in 0 .. n - 1 :
           new.nodes[j] = IF j = i THEN empty_node
                          ELSE IF block.hashtable[index] # i /\ block.nodes[j].next = i
                               THEN [next |-> succ, hash_code |-> block.nodes[j].hash_code]
                               ELSE block.nodes[j]
  <2> HIDE DEF index, succ
  <2> QED
    BY <1>3, <1>5, <1>6
<1> QED
  BY <1>7 DEF new

\* A slot that is unlinked leaves its bucket and the links of the others.
LEMMA DeleteChained ==
  ASSUME NEW n \in Nat, NEW block \in Block(n), NEW S \in SUBSET (0 .. n - 1),
         NEW i \in S, NEW content \in Value \cup Nat, Chained(block, S)
  PROVE  Chained(hashtable_delete([block EXCEPT !.slots[i] = content], i), S \ {i})
<1> DEFINE h == Hash[block.slots[i]]
           index == h % block.capacity
           cut == [block EXCEPT !.slots[i] = content]
           new == hashtable_delete(cut, i)
           U == S \ {i}
           Code(j) == Hash[block.slots[j]] % block.capacity
           first == block.hashtable[index] = i
           succ == block.nodes[i].next
<1>1. PICK bound \in Nat : \E rank \in [S -> 0 .. bound] : Linked(block, S, rank)
  BY DEF Chained
<1>2. PICK rank \in [S -> 0 .. bound] : Linked(block, S, rank)
  BY <1>1
<1> DEFINE rank2 == [j \in U |-> rank[j]]
<1>3. /\ block.capacity = n /\ Slots(block) = 0 .. n - 1 /\ n # 0
      /\ DOMAIN block.nodes = 0 .. n - 1 /\ DOMAIN block.hashtable = 0 .. n - 1
      /\ DOMAIN block.slots = 0 .. n - 1 /\ i \in 0 .. n - 1
      /\ block = [capacity |-> block.capacity, slots |-> block.slots,
                 nodes |-> block.nodes, hashtable |-> block.hashtable]
      /\ \A j \in 0 .. n - 1 : block.nodes[j] = [next |-> block.nodes[j].next, hash_code |-> block.nodes[j].hash_code]
  BY DEF Block, Slots, Node
<1>4. /\ \A j, k \in S : rank[j] = rank[k] => j = k
      /\ \A b \in 0 .. n - 1 : IsLast(block.hashtable[b], BucketOf(block, S, b), rank)
      /\ \A j \in S : /\ block.slots[j] \in Value
                      /\ block.nodes[j].hash_code = Hash[block.slots[j]]
                      /\ IsLast(block.nodes[j].next, InBefore(block, S, rank, j), rank)
      /\ \A j \in (0 .. n - 1) \ S : block.nodes[j] = empty_node
      /\ \A j \in S : rank[j] \in Nat
  BY <1>2, <1>3 DEF Linked
<1>5. index \in 0 .. n - 1 /\ block.nodes[i].hash_code = h
  <2>1. h \in Int /\ n \in Nat \ {0} /\ block.nodes[i].hash_code = h
    BY <1>3, <1>4, HashAssumption
  <2> HIDE DEF h
  <2> QED
    BY <2>1, <1>3, ModRange
<1>6. /\ new.capacity = n /\ Slots(new) = 0 .. n - 1
      /\ \A j \in U : new.slots[j] = block.slots[j]
      /\ \A b \in 0 .. n - 1 : new.hashtable[b] = IF first /\ b = index THEN succ ELSE block.hashtable[b]
      /\ \A j \in 0 .. n - 1 :
           new.nodes[j] = IF j = i THEN empty_node
                          ELSE IF ~ first /\ block.nodes[j].next = i
                               THEN [next |-> succ, hash_code |-> block.nodes[j].hash_code]
                               ELSE block.nodes[j]
  <2>1. cut \in Block(n) /\ cut.slots = [block.slots EXCEPT ![i] = content]
    BY <1>3, SetSlotOK
  <2>2. cut.nodes = block.nodes /\ cut.hashtable = block.hashtable
    BY DEF Block
  <2> HIDE DEF cut
  <2>3. /\ new.capacity = n /\ new.slots = cut.slots
        /\ \A b \in 0 .. n - 1 :
             new.hashtable[b] = IF cut.hashtable[cut.nodes[i].hash_code % n] = i
                                   /\ b = cut.nodes[i].hash_code % n
                                THEN cut.nodes[i].next ELSE cut.hashtable[b]
        /\ \A j \in 0 .. n - 1 :
             new.nodes[j] = IF j = i THEN empty_node
                            ELSE IF /\ cut.hashtable[cut.nodes[i].hash_code % n] # i
                                    /\ cut.nodes[j].next = i
                                 THEN [next |-> cut.nodes[i].next, hash_code |-> cut.nodes[j].hash_code]
                                 ELSE cut.nodes[j]
    <3>1. i \in 0 .. n - 1
      BY <1>3
    <3> QED
      BY <2>1, <3>1, HashDeleteFields
  <2>4. block.nodes[i].hash_code % n = index
    BY <1>3, <1>5
  <2>5. new.capacity = n /\ Slots(new) = 0 .. n - 1
    BY <2>3 DEF Slots
  <2>6. \A j \in U : new.slots[j] = block.slots[j]
    BY <2>1, <2>3, <1>3
  <2> HIDE DEF index, h, new
  <2> QED
    BY <2>2, <2>3, <2>4, <2>5, <2>6
<1> HIDE DEF new, cut
<1>7. \A b : BucketOf(new, U, b) = BucketOf(block, S, b) \ {i}
  BY <1>3, <1>6 DEF BucketOf
<1>8. /\ \A j \in U : rank2[j] = rank[j] /\ rank[j] \in Nat
      /\ rank2 \in [U -> 0 .. bound]
  BY <1>4
<1> HIDE DEF rank2
<1>9. \A j \in U : InBefore(new, U, rank2, j) = InBefore(block, S, rank, j) \ {i}
  <2> TAKE j \in U
  <2>1. BucketOf(new, U, Code(j)) = BucketOf(block, S, Code(j)) \ {i}
    BY <1>7
  <2>2. \A k \in BucketOf(new, U, Code(j)) : k \in U
    BY DEF BucketOf
  <2> QED
    BY <2>1, <2>2, <1>3, <1>6, <1>8 DEF InBefore
\* Without i, the last of a set is what it was, or if that was i the last
\* of those before i.
<1>10. ASSUME NEW T \in SUBSET S, NEW x, IsLast(x, T, rank), x # i
       PROVE  IsLast(x, T \ {i}, rank2)
  <2>1. CASE T = {}
    BY <2>1, <1>10 DEF IsLast
  <2>2. CASE T # {}
    <3>1. x \in T \ {i} /\ \A j \in T : rank[j] <= rank[x]
      BY <2>2, <1>10 DEF IsLast
    <3>2. \A j \in T \ {i} : rank2[j] <= rank2[x]
      BY <3>1, <1>8
    <3> QED
      BY <3>1, <3>2 DEF IsLast
  <2> QED
    BY <2>1, <2>2
<1>11. ASSUME NEW T \in SUBSET BucketOf(block, S, index), IsLast(i, T, rank),
              \A j \in BucketOf(block, S, index) : rank[j] < rank[i] => j \in T
       PROVE  IsLast(succ, T \ {i}, rank2)
  <2>1. i \in T /\ \A j \in T : rank[j] <= rank[i]
    BY <1>11, <1>3 DEF IsLast, EMPTY_SLOT_MARKER
  <2>2. T \ {i} = InBefore(block, S, rank, i)
    <3>1. ASSUME NEW j \in T, j # i PROVE rank[j] < rank[i]
      <4>1. j \in S
        BY DEF BucketOf
      <4> QED
        BY <4>1, <3>1, <2>1, <1>4
    <3>2. \A j \in InBefore(block, S, rank, i) : j \in BucketOf(block, S, index) /\ rank[j] < rank[i] /\ j # i
      <4>1. rank[i] \in Nat
        BY <1>4
      <4> QED
        BY <4>1 DEF InBefore
    <3> QED
      BY <3>1, <3>2, <1>11 DEF InBefore
  <2>3. IsLast(succ, InBefore(block, S, rank, i), rank)
    BY <1>4
  <2>4. \A j \in T \ {i} : rank2[j] = rank[j]
    BY <1>8 DEF BucketOf
  <2> QED
    BY <2>2, <2>3, <2>4 DEF IsLast
<1>12. \A b : BucketOf(block, S, b) \in SUBSET S
  BY DEF BucketOf
<1>13. Linked(new, U, rank2)
  <2>1. \A j, k \in U : rank2[j] = rank2[k] => j = k
    BY <1>4, <1>8
  <2>2. ASSUME NEW b \in Slots(new) PROVE IsLast(new.hashtable[b], BucketOf(new, U, b), rank2)
    <3>1. b \in 0 .. n - 1 /\ IsLast(block.hashtable[b], BucketOf(block, S, b), rank)
      BY <1>4, <1>6
    <3>2. CASE block.hashtable[b] # i
      <4>1. new.hashtable[b] = block.hashtable[b]
        BY <3>1, <3>2, <1>6
      <4> QED
        BY <3>1, <3>2, <4>1, <1>7, <1>10, <1>12
    <3>3. CASE block.hashtable[b] = i
      <4>1. i \in BucketOf(block, S, b)
        BY <3>1, <3>3, <1>3 DEF IsLast, EMPTY_SLOT_MARKER
      <4>2. b = index
        BY <4>1 DEF BucketOf
      <4>3. new.hashtable[b] = succ
        BY <3>1, <3>3, <4>2, <1>6
      <4>4. IsLast(i, BucketOf(block, S, index), rank)
        BY <3>1, <3>3, <4>2
      <4>5. IsLast(succ, BucketOf(block, S, index) \ {i}, rank2)
        <5> HIDE DEF index, succ
        <5> QED
          BY <4>4, <1>11
      <4> QED
        BY <4>2, <4>3, <4>5, <1>7
    <3> QED
      BY <3>2, <3>3
  <2>3. ASSUME NEW j \in U
        PROVE  /\ new.slots[j] \in Value
               /\ new.nodes[j].hash_code = Hash[new.slots[j]]
               /\ IsLast(new.nodes[j].next, InBefore(new, U, rank2, j), rank2)
    <3>1. /\ j \in S /\ j # i /\ j \in 0 .. n - 1 /\ block.slots[j] \in Value
          /\ block.nodes[j].hash_code = Hash[block.slots[j]]
          /\ IsLast(block.nodes[j].next, InBefore(block, S, rank, j), rank)
      BY <1>4
    <3>2. new.slots[j] = block.slots[j]
      BY <1>6
    <3>3. InBefore(block, S, rank, j) \in SUBSET S
      BY DEF InBefore, BucketOf
    <3>4. CASE block.nodes[j].next # i
      <4>1. new.nodes[j] = block.nodes[j]
        BY <3>1, <3>4, <1>6
      <4>2. IsLast(block.nodes[j].next, InBefore(block, S, rank, j) \ {i}, rank2)
        BY <3>1, <3>3, <3>4, <1>10
      <4> QED
        BY <3>1, <3>2, <4>1, <4>2, <1>9
    <3>5. CASE block.nodes[j].next = i
      <4>1. i \in InBefore(block, S, rank, j) /\ \A k \in InBefore(block, S, rank, j) : rank[k] <= rank[i]
        BY <3>1, <3>5, <1>3 DEF IsLast, EMPTY_SLOT_MARKER
      <4>2. Code(j) = index /\ rank[i] < rank[j]
        BY <4>1 DEF InBefore, BucketOf
      <4>3. j \in BucketOf(block, S, index)
        BY <3>1, <4>2 DEF BucketOf
      <4>4. ~ first
        <5> SUFFICES ASSUME first PROVE FALSE
          OBVIOUS
        <5>1. rank[j] <= rank[i]
          BY <4>3, <1>4, <1>5 DEF IsLast
        <5> QED
          BY <5>1, <4>2, <3>1, <1>4
      <4>5. new.nodes[j] = [next |-> succ, hash_code |-> block.nodes[j].hash_code]
        BY <3>1, <3>5, <4>4, <1>6
      <4>6. IsLast(succ, InBefore(block, S, rank, j) \ {i}, rank2)
        <5>1. InBefore(block, S, rank, j) \in SUBSET BucketOf(block, S, index)
          BY <4>2 DEF InBefore
        <5>2. IsLast(i, InBefore(block, S, rank, j), rank)
          BY <3>1, <3>5
        <5>3. ASSUME NEW k \in BucketOf(block, S, index), rank[k] < rank[i]
              PROVE  k \in InBefore(block, S, rank, j)
          <6>1. k \in S
            BY DEF BucketOf
          <6>2. rank[k] < rank[j]
            BY <6>1, <5>3, <4>2, <3>1, <1>4
          <6> QED
            BY <6>2, <4>2 DEF InBefore
        <5> HIDE DEF index, succ
        <5> QED
          BY <5>1, <5>2, <5>3, <1>11
      <4>7. new.nodes[j].next = succ /\ new.nodes[j].hash_code = block.nodes[j].hash_code
        BY <4>5
      <4>8. InBefore(new, U, rank2, j) = InBefore(block, S, rank, j) \ {i}
        BY <1>9
      <4> HIDE DEF succ, U
      <4> QED
        BY <3>1, <3>2, <4>6, <4>7, <4>8
    <3> QED
      BY <3>4, <3>5
  <2>4. \A j \in Slots(new) \ U : new.nodes[j] = empty_node
    <3> TAKE j \in Slots(new) \ U
    <3>1. CASE j = i
      BY <3>1, <1>6
    <3>2. CASE j # i
      <4>1. j \in (0 .. n - 1) \ S /\ block.nodes[j] = empty_node
        BY <3>2, <1>4, <1>6
      <4>2. block.nodes[j].next # i
        BY <4>1, <1>3 DEF empty_node, EMPTY_SLOT_MARKER
      <4> QED
        BY <4>1, <4>2, <3>2, <1>6
    <3> QED
      BY <3>1, <3>2
  <2> QED
    BY <2>1, <2>2, <2>3, <2>4 DEF Linked
<1>14. Chained(new, U)
  BY <1>8, <1>13 DEF Chained
<1> QED
  BY <1>14 DEF new, cut

\* What InsertAll makes of a block, for the slots in T with the hash codes of
\* their values: the last slot of T of each bucket, or of those before it, is
\* where the bucket, or a link, now leads; without one it leads where the
\* bucket did.
AllInserted(new, block, T, turn) ==
  /\ new.capacity = block.capacity /\ new.slots = block.slots
  /\ \A b \in Slots(block) :
       /\ BucketOf(block, T, b) = {} => new.hashtable[b] = block.hashtable[b]
       /\ BucketOf(block, T, b) # {} => IsLast(new.hashtable[b], BucketOf(block, T, b), turn)
  /\ \A i \in T :
       /\ new.nodes[i].hash_code = Hash[block.slots[i]]
       /\ InBefore(block, T, turn, i) = {} =>
            new.nodes[i].next = block.hashtable[Hash[block.slots[i]] % block.capacity]
       /\ InBefore(block, T, turn, i) # {} =>
            IsLast(new.nodes[i].next, InBefore(block, T, turn, i), turn)
  /\ \A i \in Slots(block) \ T : new.nodes[i] = block.nodes[i]

\* InsertAll does that.
LEMMA InsertAllFields ==
  ASSUME NEW n \in Nat, NEW block \in Block(n), NEW T \in SUBSET (0 .. n - 1),
         NEW limit \in Nat, NEW turn \in [T -> 0 .. limit], NEW hash,
         \A i \in T : block.slots[i] \in Value /\ hash[i] = Hash[block.slots[i]]
  PROVE  AllInserted(InsertAll(block, T, turn, hash), block, T, turn)
<1> DEFINE Bucket(b)  == {i \in T : hash[i] % block.capacity = b}
           Earlier(i) == {j \in Bucket(hash[i] % block.capacity) : turn[j] < turn[i]}
           Front(X, b) == IF X = {} THEN block.hashtable[b]
                          ELSE CHOOSE i \in X : \A j \in X : turn[j] <= turn[i]
           ht == [b \in Slots(block) |-> Front(Bucket(b), b)]
           nd == [i \in Slots(block) |->
                    IF i \in T
                    THEN [next |-> Front(Earlier(i), hash[i] % block.capacity),
                          hash_code |-> hash[i]]
                    ELSE block.nodes[i]]
           new == InsertAll(block, T, turn, hash)
<1>1. block.capacity = n /\ Slots(block) = 0 .. n - 1
  BY DEF Block, Slots
<1>2. new = [block EXCEPT !.hashtable = ht, !.nodes = nd]
  BY DEF InsertAll
<1>3. new.capacity = n /\ new.slots = block.slots /\ new.hashtable = ht /\ new.nodes = nd
  <2> HIDE DEF ht, nd, new
  <2> QED
    BY <1>1, <1>2 DEF Block
<1>4. \A b : Bucket(b) = BucketOf(block, T, b)
  BY DEF BucketOf
<1>5. \A i \in T : Earlier(i) = InBefore(block, T, turn, i)
  BY <1>4 DEF InBefore
<1>6. ASSUME NEW X \in SUBSET T, NEW b
      PROVE  IF X = {} THEN Front(X, b) = block.hashtable[b] ELSE IsLast(Front(X, b), X, turn)
  <2>1. CASE X = {}
    BY <2>1
  <2>2. CASE X # {}
    <3> DEFINE turns == {turn[i] : i \in X}
    <3>1. turns \in SUBSET (0 .. limit) /\ turns # {}
      BY <2>2
    <3>2. PICK m \in turns : \A r \in turns : r <= m
      <4> HIDE DEF turns
      <4> QED
        BY <3>1, GreatestNat
    <3>3. \E i \in X : \A j \in X : turn[j] <= turn[i]
      BY <3>2
    <3> QED
      BY <2>2, <3>3 DEF IsLast
  <2> QED
    BY <2>1, <2>2
<1>7. /\ \A b : BucketOf(block, T, b) \in SUBSET T
      /\ \A i : InBefore(block, T, turn, i) \in SUBSET T
  BY DEF BucketOf, InBefore
<1>8. \A b \in 0 .. n - 1 :
        /\ BucketOf(block, T, b) = {} => new.hashtable[b] = block.hashtable[b]
        /\ BucketOf(block, T, b) # {} => IsLast(new.hashtable[b], BucketOf(block, T, b), turn)
  <2> TAKE b \in 0 .. n - 1
  <2>1. new.hashtable[b] = Front(BucketOf(block, T, b), b)
    <3>1. ht[b] = Front(Bucket(b), b)
      BY <1>1
    <3> HIDE DEF Front, ht, new, Bucket
    <3> QED
      BY <1>3, <1>4, <3>1
  <2> HIDE DEF Front, new
  <2> QED
    BY <2>1, <1>6, <1>7
<1>9. \A i \in T :
        /\ new.nodes[i].hash_code = Hash[block.slots[i]]
        /\ InBefore(block, T, turn, i) = {} =>
             new.nodes[i].next = block.hashtable[Hash[block.slots[i]] % block.capacity]
        /\ InBefore(block, T, turn, i) # {} =>
             IsLast(new.nodes[i].next, InBefore(block, T, turn, i), turn)
  <2> TAKE i \in T
  <2> DEFINE b == hash[i] % block.capacity
  <2>1. nd[i] = [next |-> Front(Earlier(i), b), hash_code |-> hash[i]]
    BY <1>1
  <2> HIDE DEF Front, nd, new, Earlier, Bucket
  <2>2. /\ new.nodes[i].hash_code = hash[i]
        /\ new.nodes[i].next = Front(InBefore(block, T, turn, i), b)
    BY <2>1, <1>3, <1>5
  <2>3. hash[i] = Hash[block.slots[i]]
    OBVIOUS
  <2> QED
    BY <2>2, <2>3, <1>6, <1>7
<1>10. \A i \in (0 .. n - 1) \ T : new.nodes[i] = block.nodes[i]
  <2>1. \A i \in (0 .. n - 1) \ T : nd[i] = block.nodes[i]
    BY <1>1
  <2> HIDE DEF nd, new
  <2> QED
    BY <2>1, <1>3
<1> HIDE DEF new
<1>11. AllInserted(new, block, T, turn)
  BY <1>1, <1>3, <1>8, <1>9, <1>10 DEF AllInserted
<1> QED
  BY <1>11 DEF new

\* Slots that are inserted together come after those that were there.
LEMMA InsertAllChained ==
  ASSUME NEW n \in Nat, NEW block \in Block(n),
         NEW S \in SUBSET (0 .. n - 1), NEW T \in SUBSET (0 .. n - 1), S \cap T = {},
         NEW limit \in Nat, NEW turn \in [T -> 0 .. limit],
         \A i, j \in T : turn[i] = turn[j] => i = j,
         NEW hash,
         \A i \in T : block.slots[i] \in Value /\ hash[i] = Hash[block.slots[i]],
         Chained(block, S)
  PROVE  Chained(InsertAll(block, T, turn, hash), S \cup T)
<1> DEFINE new == InsertAll(block, T, turn, hash)
           U == S \cup T
           Code(i) == Hash[block.slots[i]] % block.capacity
<1>1. PICK bound \in Nat : \E rank \in [S -> 0 .. bound] : Linked(block, S, rank)
  BY DEF Chained
<1>2. PICK rank \in [S -> 0 .. bound] : Linked(block, S, rank)
  BY <1>1
<1> DEFINE rank2 == [j \in U |-> IF j \in T THEN bound + 1 + turn[j] ELSE rank[j]]
           top == bound + 1 + limit
<1>3. /\ block.capacity = n /\ Slots(block) = 0 .. n - 1
  BY DEF Block, Slots
<1>4. /\ new.capacity = n /\ new.slots = block.slots /\ Slots(new) = 0 .. n - 1
      /\ \A b \in 0 .. n - 1 :
           /\ BucketOf(block, T, b) = {} => new.hashtable[b] = block.hashtable[b]
           /\ BucketOf(block, T, b) # {} => IsLast(new.hashtable[b], BucketOf(block, T, b), turn)
      /\ \A i \in T :
           /\ new.nodes[i].hash_code = Hash[block.slots[i]]
           /\ InBefore(block, T, turn, i) = {} => new.nodes[i].next = block.hashtable[Code(i)]
           /\ InBefore(block, T, turn, i) # {} =>
                IsLast(new.nodes[i].next, InBefore(block, T, turn, i), turn)
      /\ \A i \in (0 .. n - 1) \ T : new.nodes[i] = block.nodes[i]
  <2> HIDE DEF new
  <2>1. AllInserted(new, block, T, turn)
    BY InsertAllFields DEF new
  <2> QED
    BY <2>1, <1>3 DEF Slots, AllInserted
<1> HIDE DEF new
<1>5. /\ \A j, k \in S : rank[j] = rank[k] => j = k
      /\ \A b \in 0 .. n - 1 : IsLast(block.hashtable[b], BucketOf(block, S, b), rank)
      /\ \A j \in S : /\ block.slots[j] \in Value
                      /\ block.nodes[j].hash_code = Hash[block.slots[j]]
                      /\ IsLast(block.nodes[j].next, InBefore(block, S, rank, j), rank)
      /\ \A j \in (0 .. n - 1) \ S : block.nodes[j] = empty_node
  BY <1>2, <1>3 DEF Linked
<1>6. /\ \A j \in S : rank2[j] = rank[j] /\ rank[j] \in Nat /\ rank[j] <= bound /\ j \notin T
      /\ \A j \in T : rank2[j] = bound + 1 + turn[j] /\ turn[j] \in Nat /\ turn[j] <= limit
      /\ rank2 \in [U -> 0 .. top] /\ top \in Nat
  <2>1. \A j \in S : rank2[j] = rank[j] /\ rank[j] \in Nat /\ rank[j] <= bound /\ j \notin T
    OBVIOUS
  <2>2. \A j \in T : rank2[j] = bound + 1 + turn[j] /\ turn[j] \in Nat /\ turn[j] <= limit
    OBVIOUS
  <2>3. top \in Nat
    OBVIOUS
  <2>4. \A j \in U : rank2[j] \in 0 .. top
    <3> HIDE DEF rank2
    <3> QED
      BY <2>1, <2>2
  <2>5. rank2 \in [U -> 0 .. top]
    <3> HIDE DEF top, U
    <3> QED
      BY <2>4
  <2> QED
    BY <2>1, <2>2, <2>3, <2>5
<1> HIDE DEF rank2, top
<1>7. \A b : BucketOf(new, U, b) = BucketOf(block, S, b) \cup BucketOf(block, T, b)
  BY <1>3, <1>4 DEF BucketOf
<1>8. /\ \A b : BucketOf(block, S, b) \in SUBSET S /\ BucketOf(block, T, b) \in SUBSET T
      /\ \A i : InBefore(block, S, rank, i) \in SUBSET S /\ InBefore(block, T, turn, i) \in SUBSET T
  BY DEF BucketOf, InBefore
<1>9. \A i \in S : InBefore(new, U, rank2, i) = InBefore(block, S, rank, i)
  <2> TAKE i \in S
  <2>1. InBefore(new, U, rank2, i)
          = {j \in BucketOf(block, S, Code(i)) \cup BucketOf(block, T, Code(i)) : rank2[j] < rank2[i]}
    BY <1>3, <1>4, <1>7 DEF InBefore
  <2>2. \A j \in BucketOf(block, T, Code(i)) : ~ (rank2[j] < rank2[i])
    BY <1>6, <1>8
  <2>3. \A j \in BucketOf(block, S, Code(i)) : rank2[j] < rank2[i] <=> rank[j] < rank[i]
    BY <1>6, <1>8
  <2> QED
    BY <2>1, <2>2, <2>3 DEF InBefore
<1>10. \A i \in T : InBefore(new, U, rank2, i)
                    = BucketOf(block, S, Code(i)) \cup InBefore(block, T, turn, i)
  <2> TAKE i \in T
  <2>1. InBefore(new, U, rank2, i)
          = {j \in BucketOf(block, S, Code(i)) \cup BucketOf(block, T, Code(i)) : rank2[j] < rank2[i]}
    BY <1>3, <1>4, <1>7 DEF InBefore
  <2>2. \A j \in BucketOf(block, S, Code(i)) : rank2[j] < rank2[i]
    BY <1>6, <1>8
  <2>3. \A j \in BucketOf(block, T, Code(i)) : rank2[j] < rank2[i] <=> turn[j] < turn[i]
    <3> TAKE j \in BucketOf(block, T, Code(i))
    <3>1. j \in T
      BY DEF BucketOf
    <3>2. /\ rank2[j] = bound + 1 + turn[j] /\ turn[j] \in Nat
          /\ rank2[i] = bound + 1 + turn[i] /\ turn[i] \in Nat
      BY <3>1, <1>6
    <3> QED
      BY <3>2
  <2> QED
    BY <2>1, <2>2, <2>3 DEF InBefore
<1>11. ASSUME NEW X \in SUBSET S, NEW x, IsLast(x, X, rank) PROVE IsLast(x, X, rank2)
  <2>1. \A j \in X : rank2[j] = rank[j]
    BY <1>6
  <2> QED
    BY <2>1, <1>11 DEF IsLast
<1>12. ASSUME NEW X \in SUBSET S, NEW Y \in SUBSET T, Y # {}, NEW x, IsLast(x, Y, turn)
       PROVE  IsLast(x, X \cup Y, rank2)
  <2>1. x \in Y /\ \A j \in Y : turn[j] <= turn[x]
    BY <1>12 DEF IsLast
  <2>2. \A j \in Y : rank2[j] <= rank2[x]
    BY <2>1, <1>6
  <2>3. \A j \in X : rank2[j] <= rank2[x]
    BY <2>1, <1>6
  <2> QED
    BY <2>1, <2>2, <2>3 DEF IsLast
<1>13. Linked(new, U, rank2)
  <2>1. ASSUME NEW j \in U, NEW k \in U, rank2[j] = rank2[k] PROVE j = k
    <3>1. CASE j \in S /\ k \in S
      BY <3>1, <2>1, <1>5, <1>6
    <3>2. CASE j \in S /\ k \in T
      BY <3>2, <2>1, <1>6
    <3>3. CASE j \in T /\ k \in S
      BY <3>3, <2>1, <1>6
    <3>4. CASE j \in T /\ k \in T
      <4>1. turn[j] = turn[k]
        BY <3>4, <2>1, <1>6
      <4> QED
        BY <3>4, <4>1
    <3> QED
      BY <3>1, <3>2, <3>3, <3>4
  <2>2. ASSUME NEW b \in Slots(new) PROVE IsLast(new.hashtable[b], BucketOf(new, U, b), rank2)
    <3>1. b \in 0 .. n - 1
      BY <1>4
    <3>2. CASE BucketOf(block, T, b) = {}
      <4>1. new.hashtable[b] = block.hashtable[b] /\ BucketOf(new, U, b) = BucketOf(block, S, b)
        <5>1. new.hashtable[b] = block.hashtable[b]
          BY <3>1, <3>2, <1>4
        <5>2. BucketOf(new, U, b) = BucketOf(block, S, b) \cup BucketOf(block, T, b)
          BY <1>7
        <5> QED
          BY <5>1, <5>2, <3>2
      <4> QED
        BY <4>1, <3>1, <1>5, <1>8, <1>11
    <3>3. CASE BucketOf(block, T, b) # {}
      <4>1. IsLast(new.hashtable[b], BucketOf(block, T, b), turn)
        BY <3>1, <3>3, <1>4
      <4>2. IsLast(new.hashtable[b], BucketOf(block, S, b) \cup BucketOf(block, T, b), rank2)
        BY <4>1, <3>3, <1>8, <1>12
      <4>3. BucketOf(new, U, b) = BucketOf(block, S, b) \cup BucketOf(block, T, b)
        BY <1>7
      <4> QED
        BY <4>2, <4>3
    <3> QED
      BY <3>2, <3>3
  <2>3. ASSUME NEW i \in U
        PROVE  /\ new.slots[i] \in Value
               /\ new.nodes[i].hash_code = Hash[new.slots[i]]
               /\ IsLast(new.nodes[i].next, InBefore(new, U, rank2, i), rank2)
    <3>1. CASE i \in S
      <4>1. new.nodes[i] = block.nodes[i] /\ new.slots[i] = block.slots[i]
        BY <3>1, <1>4, <1>6
      <4>2. IsLast(block.nodes[i].next, InBefore(block, S, rank, i), rank2)
        BY <3>1, <1>5, <1>8, <1>11
      <4> QED
        BY <3>1, <4>1, <4>2, <1>5, <1>9
    <3>2. CASE i \in T
      <4>1. new.slots[i] \in Value /\ new.nodes[i].hash_code = Hash[new.slots[i]]
        BY <3>2, <1>4
      <4>2. CASE InBefore(block, T, turn, i) = {}
        <5>1. /\ new.nodes[i].next = block.hashtable[Code(i)]
              /\ InBefore(new, U, rank2, i) = BucketOf(block, S, Code(i))
          <6>1. new.nodes[i].next = block.hashtable[Code(i)]
            BY <3>2, <4>2, <1>4
          <6>2. InBefore(new, U, rank2, i)
                  = BucketOf(block, S, Code(i)) \cup InBefore(block, T, turn, i)
            BY <3>2, <1>10
          <6> QED
            BY <6>1, <6>2, <4>2
        <5>2. Code(i) \in 0 .. n - 1
          <6>1. Hash[block.slots[i]] \in Int /\ n \in Nat \ {0}
            BY <3>2, HashAssumption
          <6> QED
            BY <6>1, <1>3, ModRange
        <5>3. IsLast(block.hashtable[Code(i)], BucketOf(block, S, Code(i)), rank)
          BY <5>2, <1>5
        <5>4. IsLast(block.hashtable[Code(i)], BucketOf(block, S, Code(i)), rank2)
          <6>1. BucketOf(block, S, Code(i)) \in SUBSET S
            BY <1>8
          <6> HIDE DEF Code
          <6> QED
            BY <5>3, <6>1, <1>11
        <5> HIDE DEF Code, U
        <5> QED
          BY <4>1, <5>1, <5>4
      <4>3. CASE InBefore(block, T, turn, i) # {}
        <5>1. IsLast(new.nodes[i].next, InBefore(block, T, turn, i), turn)
          BY <3>2, <4>3, <1>4
        <5>2. IsLast(new.nodes[i].next, BucketOf(block, S, Code(i)) \cup InBefore(block, T, turn, i), rank2)
          BY <5>1, <4>3, <1>8, <1>12
        <5> QED
          BY <3>2, <4>1, <5>2, <1>10
      <4> QED
        BY <4>2, <4>3
    <3> QED
      BY <3>1, <3>2
  <2>4. \A i \in Slots(new) \ U : new.nodes[i] = empty_node
    BY <1>4, <1>5
  <2> QED
    BY <2>1, <2>2, <2>3, <2>4 DEF Linked
<1>14. Chained(new, U)
  BY <1>6, <1>13 DEF Chained
<1> QED
  BY <1>14 DEF new

-----------------------------------------------------------------------------
(***************************************************************************)
(* A block whose buckets hold its occupied slots, none of them the value   *)
(* of another: its values are keys.                                        *)
(***************************************************************************)

Keyed(block) ==
  /\ Chained(block, Occupied(block))
  /\ \A i, j \in Occupied(block) : block.slots[i] = block.slots[j] => i = j

\* The occupied slots of a typed block are those that hold a value.
LEMMA OccupiedFacts ==
  ASSUME NEW n \in Nat, NEW block \in Block(n)
  PROVE  /\ Slots(block) = 0 .. n - 1 /\ block.capacity = n
         /\ Occupied(block) \in SUBSET (0 .. n - 1)
         /\ Occupied(block) = {i \in 0 .. n - 1 : block.slots[i] \in Value}
         /\ \A i \in 0 .. n - 1 : i \notin Occupied(block) => block.slots[i] \in Nat
BY DEF Block, Slots, Occupied, IsBlank

\* A cleared block holds no value, and its chains are right.
LEMMA ClearKeyed ==
  ASSUME NEW n \in Nat
  PROVE  Keyed(hashtable_clear(n)) /\ Occupied(hashtable_clear(n)) = {}
<1> DEFINE block == hashtable_clear(n)
<1>1. block \in Block(n) /\ \A i \in 0 .. n - 1 : block.slots[i] = i + 1
  BY ClearOK DEF hashtable_clear
<1>2. Chained(block, {})
  BY ClearChained
<1> HIDE DEF block
<1>3. \A i \in 0 .. n - 1 : block.slots[i] \notin Value
  BY <1>1, ValueAssumption
<1>4. Occupied(block) = {}
  BY <1>1, <1>3, OccupiedFacts
<1>5. Keyed(block)
  BY <1>2, <1>4 DEF Keyed
<1> QED
  BY <1>4, <1>5 DEF block

\* A copy in a larger table has the same values in the same slots.
LEMMA CopyKeyed ==
  ASSUME NEW n \in Nat, NEW src \in Block(n), NEW m \in Nat, m >= n, Keyed(src)
  PROVE  /\ Keyed(hashtable_copy(src, m))
         /\ Occupied(hashtable_copy(src, m)) = Occupied(src)
<1> DEFINE dest == hashtable_clear(m)
           slots == [i \in 0 .. m - 1 |-> IF i \in 0 .. n - 1 THEN src.slots[i] ELSE i + 1]
           block == [dest EXCEPT !.slots = slots]
           S == Occupied(src)
           rank == [i \in S |-> i]
           hash == [i \in S |-> src.nodes[i].hash_code]
           new == hashtable_copy(src, m)
<1>1. dest \in Block(m) /\ Slots(dest) = 0 .. m - 1 /\ Slots(src) = 0 .. n - 1
  BY ClearOK DEF Block, Slots
<1>2. slots \in [0 .. m - 1 -> Value \cup Nat]
  BY DEF Block
<1>3. /\ block \in Block(m) /\ block.slots = slots /\ block.capacity = dest.capacity
      /\ block.nodes = dest.nodes /\ block.hashtable = dest.hashtable
  <2> HIDE DEF slots, dest
  <2> QED
    BY <1>1, <1>2 DEF Block
<1>4. S \in SUBSET (0 .. m - 1) /\ S \in SUBSET (0 .. n - 1)
  BY <1>1 DEF Occupied
<1>5. rank \in [S -> 0 .. m] /\ \A i, j \in S : rank[i] = rank[j] => i = j
  BY <1>4
<1>6. \A i \in S : block.slots[i] = src.slots[i] /\ src.slots[i] \in Value
  <2>1. \A i \in S : src.slots[i] \in Value
    BY DEF Occupied, IsBlank
  <2>2. \A i \in S : slots[i] = src.slots[i]
    BY <1>4
  <2> HIDE DEF slots, S, block
  <2> QED
    BY <1>3, <2>1, <2>2
<1>7. \A i \in S : hash[i] = Hash[block.slots[i]]
  <2>1. \A i \in S : src.nodes[i].hash_code = Hash[src.slots[i]]
    BY DEF Keyed, Chained, Linked
  <2> HIDE DEF block, S
  <2> QED
    BY <1>6, <2>1
<1>8. Chained(block, {})
  <2>1. Chained(dest, {})
    BY ClearChained
  <2> HIDE DEF block, dest
  <2> QED
    BY <1>3, <2>1, ChainedSame
<1>9. new = InsertAll(block, S, rank, hash)
  BY <1>1 DEF hashtable_copy
<1>10. Chained(InsertAll(block, S, rank, hash), {} \cup S)
  <2>1. block \in Block(m) /\ {} \in SUBSET (0 .. m - 1) /\ {} \cap S = {}
    BY <1>3
  <2> HIDE DEF block, S, rank, hash
  <2> QED
    BY <2>1, <1>4, <1>5, <1>6, <1>7, <1>8, InsertAllChained
<1>11. {} \cup S = S
  OBVIOUS
<1>12. new \in Block(m) /\ new.slots = slots
  BY HashCopyOK
<1> HIDE DEF new, block, rank, hash, dest
<1>13. Occupied(new) = S
  <2>1. /\ Occupied(new) = {i \in 0 .. m - 1 : new.slots[i] \in Value}
        /\ S = {i \in 0 .. n - 1 : src.slots[i] \in Value}
    BY <1>12, OccupiedFacts
  <2>2. ASSUME NEW i \in 0 .. m - 1
        PROVE  new.slots[i] \in Value <=> i \in 0 .. n - 1 /\ src.slots[i] \in Value
    <3>1. new.slots[i] = IF i \in 0 .. n - 1 THEN src.slots[i] ELSE i + 1
      BY <1>12
    <3>2. i + 1 \notin Value
      BY ValueAssumption
    <3> QED
      BY <3>1, <3>2
  <2>3. \A i \in 0 .. n - 1 : i \in 0 .. m - 1
    OBVIOUS
  <2> HIDE DEF S, slots
  <2> QED
    BY <2>1, <2>2, <2>3
<1>14. \A i \in S : new.slots[i] = src.slots[i]
  <2> HIDE DEF S
  <2> QED
    BY <1>4, <1>12
<1>15. \A i, j \in S : src.slots[i] = src.slots[j] => i = j
  BY DEF Keyed
<1>16. Chained(new, S)
  <2> HIDE DEF S
  <2> QED
    BY <1>9, <1>10, <1>11
<1>17. Keyed(new)
  <2> HIDE DEF S
  <2> QED
    BY <1>13, <1>14, <1>15, <1>16 DEF Keyed
<1> QED
  BY <1>13, <1>17 DEF new

\* Puts value in slot t and inserts the slot.
Fill(block, t, value) ==
  hashtable_insert([block EXCEPT !.slots[t] = value], Hash[value], t)

\* Filling a blank slot with a value that is not there.
LEMMA FillKeyed ==
  ASSUME NEW n \in Nat, NEW block \in Block(n), Keyed(block),
         NEW t \in 0 .. n - 1, t \notin Occupied(block), NEW value \in Value,
         \A i \in Occupied(block) : block.slots[i] # value
  PROVE  /\ Keyed(Fill(block, t, value))
         /\ Occupied(Fill(block, t, value)) = Occupied(block) \cup {t}
<1> DEFINE filled == [block EXCEPT !.slots[t] = value]
           new == hashtable_insert(filled, Hash[value], t)
           S == Occupied(block)
<1>1. n # 0 /\ S \in SUBSET (0 .. n - 1) /\ S = {i \in 0 .. n - 1 : block.slots[i] \in Value}
      /\ Slots(block) = 0 .. n - 1
  BY OccupiedFacts
<1>2. /\ filled \in Block(n) /\ filled.slots = [block.slots EXCEPT ![t] = value]
      /\ filled.capacity = block.capacity /\ filled.nodes = block.nodes
      /\ filled.hashtable = block.hashtable
  <2>1. filled \in Block(n) /\ filled.slots = [block.slots EXCEPT ![t] = value]
    BY SetSlotOK
  <2> QED
    BY <2>1 DEF Block
<1> HIDE DEF filled
<1>3. /\ \A i \in 0 .. n - 1 : filled.slots[i] = IF i = t THEN value ELSE block.slots[i]
  BY <1>2 DEF Block
<1>4. Chained(filled, S)
  <2>1. \A i \in S : filled.slots[i] = block.slots[i]
    BY <1>1, <1>3
  <2>2. Chained(block, S)
    BY DEF Keyed
  <2>3. S \subseteq Slots(block)
    BY <1>1
  <2>4. /\ filled.capacity = block.capacity /\ filled.nodes = block.nodes
        /\ filled.hashtable = block.hashtable
    BY <1>2
  <2> HIDE DEF S
  <2> QED
    BY <2>1, <2>2, <2>3, <2>4, ChainedSame
<1>5. filled.slots[t] = value
  BY <1>3
<1>6. Chained(new, S \cup {t})
  <2>1. Chained(hashtable_insert(filled, Hash[filled.slots[t]], t), S \cup {t})
    <3>1. /\ n # 0 /\ S \in SUBSET (0 .. n - 1) /\ t \notin S
          /\ filled.slots[t] \in Value /\ filled \in Block(n)
      BY <1>1, <1>2, <1>5
    <3> HIDE DEF S
    <3> QED
      BY <3>1, <1>4, InsertChained
  <2> QED
    BY <2>1, <1>5
<1>7. new \in Block(n) /\ new.slots = filled.slots
  <2>1. Hash[value] \in Nat
    BY HashAssumption
  <2>2. filled \in Block(n)
    BY <1>2
  <2>3. /\ hashtable_insert(filled, Hash[value], t) \in Block(n)
        /\ hashtable_insert(filled, Hash[value], t).slots = filled.slots
    <3> HIDE DEF new, S
    <3> QED
      BY <2>1, <2>2, HashInsertOK
  <2> QED
    BY <2>3
<1> HIDE DEF new
<1>8. Occupied(new) = S \cup {t}
  <2>1. Occupied(new) = {i \in 0 .. n - 1 : new.slots[i] \in Value}
    BY <1>7, OccupiedFacts
  <2> QED
    BY <2>1, <1>1, <1>3, <1>7
<1>9. \A i, j \in S \cup {t} : new.slots[i] = new.slots[j] => i = j
  <2>1. \A i, j \in S : block.slots[i] = block.slots[j] => i = j
    BY DEF Keyed
  <2>2. \A i \in S : block.slots[i] # value
    OBVIOUS
  <2> HIDE DEF S
  <2> QED
    BY <2>1, <2>2, <1>1, <1>3, <1>7
<1>10. Keyed(new)
  <2> HIDE DEF S
  <2> QED
    BY <1>6, <1>8, <1>9 DEF Keyed
<1> QED
  BY <1>8, <1>10 DEF new, filled, Fill

\* Blanking a slot and deleting it.
LEMMA DeleteKeyed ==
  ASSUME NEW n \in Nat, NEW block \in Block(n), Keyed(block),
         NEW i \in Occupied(block), NEW content \in Nat
  PROVE  /\ Keyed(hashtable_delete([block EXCEPT !.slots[i] = content], i))
         /\ Occupied(hashtable_delete([block EXCEPT !.slots[i] = content], i))
              = Occupied(block) \ {i}
<1> DEFINE cut == [block EXCEPT !.slots[i] = content]
           new == hashtable_delete(cut, i)
           S == Occupied(block)
<1>1. S \in SUBSET (0 .. n - 1) /\ S = {j \in 0 .. n - 1 : block.slots[j] \in Value}
  BY OccupiedFacts
<1>2. Chained(block, S)
  BY DEF Keyed
<1>3. Chained(new, S \ {i})
  <2>1. i \in S /\ content \in Value \cup Nat
    OBVIOUS
  <2> HIDE DEF S
  <2> QED
    BY <1>1, <1>2, <2>1, DeleteChained
<1>4. cut \in Block(n) /\ cut.slots = [block.slots EXCEPT ![i] = content]
  <2>1. i \in 0 .. n - 1
    BY <1>1
  <2> QED
    BY <2>1, SetSlotOK
<1> HIDE DEF cut
<1>5. new \in Block(n) /\ new.slots = cut.slots
  BY <1>1, <1>4, HashDeleteOK
<1> HIDE DEF new
<1>6. \A j \in 0 .. n - 1 : new.slots[j] = IF j = i THEN content ELSE block.slots[j]
  BY <1>4, <1>5 DEF Block
<1>7. Occupied(new) = S \ {i}
  <2>1. Occupied(new) = {j \in 0 .. n - 1 : new.slots[j] \in Value}
    BY <1>5, OccupiedFacts
  <2>2. content \notin Value
    BY ValueAssumption
  <2> QED
    BY <2>1, <2>2, <1>1, <1>6
<1>8. \A j, k \in S \ {i} : new.slots[j] = new.slots[k] => j = k
  <2>1. \A j, k \in S : block.slots[j] = block.slots[k] => j = k
    BY DEF Keyed
  <2> HIDE DEF S
  <2> QED
    BY <2>1, <1>1, <1>6
<1>9. Keyed(new)
  <2> HIDE DEF S
  <2> QED
    BY <1>3, <1>7, <1>8 DEF Keyed
<1> QED
  BY <1>7, <1>9 DEF new, cut

\* What looking up in such a block gives.
LEMMA LookupKeyed ==
  ASSUME NEW n \in Nat, n # 0, NEW block \in Block(n), Keyed(block)
  PROVE  /\ \A i \in Occupied(block) : hashtable_lookup(block, block.slots[i]) = i
         /\ \A value \in Value :
              \/ /\ hashtable_lookup(block, value) \in Occupied(block)
                 /\ block.slots[hashtable_lookup(block, value)] = value
              \/ /\ hashtable_lookup(block, value) = -1
                 /\ \A i \in Occupied(block) : block.slots[i] # value
<1>1. /\ Occupied(block) \in SUBSET (0 .. n - 1) /\ Chained(block, Occupied(block))
      /\ \A i \in Occupied(block) : block.slots[i] \in Value
  BY OccupiedFacts DEF Keyed
<1>2. ASSUME NEW value \in Value
      PROVE  \/ /\ hashtable_lookup(block, value) \in Occupied(block)
                /\ block.slots[hashtable_lookup(block, value)] = value
             \/ /\ hashtable_lookup(block, value) = -1
                /\ \A i \in Occupied(block) : block.slots[i] # value
  BY <1>1, LookupFinds
<1>3. ASSUME NEW i \in Occupied(block)
      PROVE  hashtable_lookup(block, block.slots[i]) = i
  BY <1>1, <1>2 DEF Keyed
<1> QED
  BY <1>2, <1>3

-----------------------------------------------------------------------------
(***************************************************************************)
(* The operations on stores and staged updates keep the values keys.       *)
(***************************************************************************)

\* Growing a store keeps its values where they are and its chains right.
LEMMA GrowKeyed ==
  ASSUME NEW n \in Nat, NEW st \in Store(n), NEW new_usage \in Nat, Keyed(st.block)
  PROVE  /\ Keyed(Grow(st, new_usage).block)
         /\ Occupied(Grow(st, new_usage).block) = Occupied(st.block)
<1> DEFINE m == calc_capacity(new_usage)
           g == Grow(st, new_usage)
<1>1. st.block \in Block(n) /\ st.block.capacity = n
  BY DEF Store, Block
<1>2. CASE n >= new_usage
  <2>1. g = st
    BY <1>1, <1>2 DEF Grow
  <2> QED
    BY <2>1
<1>3. CASE ~ (n >= new_usage)
  <2>1. m \in Nat /\ m >= n
    BY <1>3, CalcCapacity
  <2> HIDE DEF m
  <2>2. g.block = hashtable_copy(st.block, m)
    <3>1. /\ Grow(st, new_usage) =
               [st EXCEPT !.block = hashtable_copy(@, m),
                          !.ref_counts = [i \in 0 .. m - 1 |->
                                            IF i \in Slots(st.block) THEN @[i] ELSE 0]]
      BY <1>1, <1>3 DEF Grow, m
    <3>2. st = [block |-> st.block, usage |-> st.usage, first_free |-> st.first_free,
                ref_counts |-> st.ref_counts]
      BY DEF Store
    <3> HIDE DEF g
    <3> QED
      BY <3>1, <3>2 DEF g
  <2> QED
    BY <1>1, <2>1, <2>2, CopyKeyed
<1> QED
  BY <1>2, <1>3

\* A value that is staged goes into the next slot of the updates' block.
LEMMA StageKeyed ==
  ASSUME NEW st, NEW n \in Nat, NEW up \in Updates(n),
         Keyed(up.block), Occupied(up.block) = 0 .. up.count - 1,
         NEW value \in Value, \A i \in Occupied(up.block) : up.block.slots[i] # value
  PROVE  /\ Keyed(value_store_insert(st, up, value).block)
         /\ Occupied(value_store_insert(st, up, value).block) = 0 .. up.count
<1> DEFINE count == up.count
           old == up.block
           grown == IF count < n THEN old
                    ELSE IF n = 0 THEN hashtable_clear(UPDATES_INIT_SIZE)
                         ELSE hashtable_copy(old, 2 * n)
           m == IF count < n THEN n ELSE IF n = 0 THEN UPDATES_INIT_SIZE ELSE 2 * n
           new == Fill(grown, count, value)
<1>1. old \in Block(n) /\ old.capacity = n /\ count \in 0 .. n
  BY DEF Updates, Block
<1>2. m \in Nat \ {0} /\ count \in 0 .. m - 1
  BY <1>1, SizeAssumption
<1>3. /\ grown \in Block(m) /\ Keyed(grown) /\ Occupied(grown) = 0 .. count - 1
      /\ \A i \in 0 .. count - 1 : grown.slots[i] = old.slots[i]
  <2>1. CASE count < n
    BY <1>1, <2>1
  <2>2. CASE ~ (count < n) /\ n = 0
    <3>1. count = 0 /\ 0 .. count - 1 = {}
      BY <1>1, <2>2
    <3>2. UPDATES_INIT_SIZE \in Nat /\ grown = hashtable_clear(UPDATES_INIT_SIZE) /\ m = UPDATES_INIT_SIZE
      BY <2>2, SizeAssumption
    <3> HIDE DEF grown, m, count, old
    <3> QED
      BY <3>1, <3>2, ClearOK, ClearKeyed
  <2>3. CASE ~ (count < n) /\ n # 0
    <3>1. 2 * n \in Nat /\ 2 * n >= n /\ count = n
      BY <1>1, <2>3
    <3>2. grown = hashtable_copy(old, 2 * n) /\ m = 2 * n
      BY <2>3
    <3>3. /\ grown \in Block(m)
          /\ grown.slots = [i \in 0 .. 2 * n - 1 |-> IF i \in 0 .. n - 1 THEN old.slots[i] ELSE i + 1]
      <4> HIDE DEF grown, m, old
      <4> QED
        BY <1>1, <3>1, <3>2, HashCopyOK
    <3>4. Keyed(grown) /\ Occupied(grown) = Occupied(old)
      <4> HIDE DEF grown, m
      <4> QED
        BY <1>1, <3>1, <3>2, CopyKeyed
    <3> HIDE DEF grown, m
    <3> QED
      BY <3>1, <3>2, <3>3, <3>4
  <2> QED
    BY <2>1, <2>2, <2>3
<1>4. value_store_insert(st, up, value).block = new
  BY <1>1 DEF value_store_insert, Fill
<1> HIDE DEF grown, m
<1>5. /\ count \notin Occupied(grown) /\ \A i \in Occupied(grown) : grown.slots[i] # value
      /\ m \in Nat /\ count \in 0 .. m - 1
  BY <1>2, <1>3
<1>6. Keyed(new) /\ Occupied(new) = Occupied(grown) \cup {count}
  <2> HIDE DEF count
  <2> QED
    BY <1>3, <1>5, FillKeyed
<1>7. (0 .. count - 1) \cup {count} = 0 .. count
  BY <1>1
<1> HIDE DEF new
<1> QED
  BY <1>3, <1>4, <1>6, <1>7

\* An update that is not empty leaves the store with the capacity Grow gives it.
LEMMA ApplyCapacity ==
  ASSUME NEW n \in Nat, NEW st \in Store(n),
         NEW m \in Nat, m # 0, NEW up \in Updates(m)
  PROVE  value_store_apply(st, up).block.capacity = Grow(st, st.usage + up.count).block.capacity
<1> DEFINE new_usage == st.usage + up.count
           grown == Grow(st, new_usage)
           c == grown.block.capacity
           staged == {up.surrs[k] : k \in 1 .. up.count}
           index == [s \in staged |-> (CHOOSE k \in 1 .. up.count : up.surrs[k] = s) - 1]
           slots == [s \in Slots(grown.block) |->
                       IF s \in staged THEN up.block.slots[index[s]] ELSE grown.block.slots[s]]
           filled == [grown.block EXCEPT !.slots = slots]
           hash == [s \in staged |-> up.block.nodes[index[s]].hash_code]
           block == InsertAll(filled, staged, index, hash)
           new == value_store_apply(st, up)
<1>1. new_usage \in Nat /\ up.block.capacity = m
  BY DEF Updates, Store, Block
<1>2. c \in Nat /\ grown \in Store(c)
  <2> HIDE DEF new_usage
  <2> QED
    BY <1>1, GrowOK
<1> HIDE DEF grown
<1>3. grown.block \in Block(c)
  <2> HIDE DEF c
  <2> QED
    BY <1>2 DEF Store
<1>4. /\ filled.capacity = c
      /\ DOMAIN filled = {"capacity", "slots", "nodes", "hashtable"}
  <2> HIDE DEF slots
  <2> QED
    BY <1>3 DEF Block
<1> HIDE DEF filled
<1>5. block.capacity = c
  <2>1. \A ht, nd : [filled EXCEPT !.hashtable = ht, !.nodes = nd].capacity = filled.capacity
    BY <1>4
  <2>2. \A T, turn, h : InsertAll(filled, T, turn, h).capacity = filled.capacity
    BY <2>1 DEF InsertAll
  <2> HIDE DEF c, staged, index, hash
  <2> QED
    BY <1>4, <2>2
<1>6. new = [grown EXCEPT !.block = block, !.usage = new_usage, !.first_free = up.first_free]
  BY <1>1 DEF value_store_apply, grown, filled
<1>7. new.block = block
  <2> HIDE DEF block, new_usage, new, c
  <2> QED
    BY <1>2, <1>6 DEF Store
<1> HIDE DEF new, block
<1> QED
  BY <1>5, <1>7 DEF new, grown

\* Values that are applied go into blank slots, each with the hash code it was
\* staged with.
LEMMA ApplyKeyed ==
  ASSUME NEW n \in Nat, NEW st \in Store(n),
         NEW m \in Nat, m # 0, NEW up \in Updates(m), Len(up.surrs) = up.count,
         \A j, k \in 1 .. up.count : up.surrs[j] = up.surrs[k] => j = k,
         \A k \in 1 .. up.count : up.surrs[k] \notin Occupied(st.block),
         NEW c \in Nat, c = Grow(st, st.usage + up.count).block.capacity,
         \A k \in 1 .. up.count : up.surrs[k] < c,
         Keyed(st.block), Keyed(up.block), Occupied(up.block) = 0 .. up.count - 1,
         \A i \in Occupied(st.block) : \A j \in Occupied(up.block) :
           st.block.slots[i] # up.block.slots[j]
  PROVE  Keyed(value_store_apply(st, up).block)
<1> DEFINE new_usage == st.usage + up.count
           grown == Grow(st, new_usage)
           staged == {up.surrs[k] : k \in 1 .. up.count}
           index == [s \in staged |-> (CHOOSE k \in 1 .. up.count : up.surrs[k] = s) - 1]
           slots == [s \in Slots(grown.block) |->
                       IF s \in staged THEN up.block.slots[index[s]] ELSE grown.block.slots[s]]
           filled == [grown.block EXCEPT !.slots = slots]
           hash == [s \in staged |-> up.block.nodes[index[s]].hash_code]
           block == InsertAll(filled, staged, index, hash)
           new == value_store_apply(st, up)
           S == Occupied(st.block)
<1>1. /\ up.block \in Block(m) /\ up.block.capacity = m /\ up.count \in 0 .. m
      /\ \A k \in 1 .. up.count : up.surrs[k] \in Nat
      /\ st.usage \in Nat /\ new_usage \in Nat
  <2>1. /\ up.block \in Block(m) /\ up.count \in 0 .. m /\ up.surrs \in Seq(Nat)
        /\ st.usage \in 0 .. n
    BY DEF Updates, Store
  <2>2. up.block.capacity = m
    BY <2>1 DEF Block
  <2>3. \A k \in 1 .. up.count : up.surrs[k] \in Nat
    BY <2>1
  <2> QED
    BY <2>1, <2>2, <2>3
<1>2. /\ c \in Nat /\ c >= n /\ grown \in Store(c)
      /\ \A i \in 0 .. c - 1 : grown.block.slots[i] = IF i < n THEN st.block.slots[i] ELSE i + 1
      /\ Keyed(grown.block) /\ Occupied(grown.block) = S
  <2>1. new_usage \in Nat
    BY <1>1
  <2> HIDE DEF new_usage
  <2> QED
    BY <2>1, GrowOK, GrowKeyed DEF new_usage
<1> HIDE DEF grown
<1>3. /\ grown.block \in Block(c) /\ Slots(grown.block) = 0 .. c - 1
      /\ S \in SUBSET (0 .. n - 1) /\ S \in SUBSET (0 .. c - 1)
      /\ \A i \in S : grown.block.slots[i] = st.block.slots[i]
  <2>1. grown.block \in Block(c) /\ st.block \in Block(n)
    BY <1>2 DEF Store
  <2>2. Slots(grown.block) = 0 .. c - 1 /\ S \in SUBSET (0 .. n - 1)
    BY <2>1, OccupiedFacts
  <2> HIDE DEF S
  <2> QED
    BY <1>2, <2>1, <2>2
<1>4. /\ staged \in SUBSET (0 .. c - 1)
      /\ S \cap staged = {}
  <2>1. ASSUME NEW k \in 1 .. up.count PROVE up.surrs[k] \in 0 .. c - 1
    <3>1. up.surrs[k] \in Nat /\ up.surrs[k] < c /\ c \in Nat
      BY <1>1, <1>2
    <3> QED
      BY <3>1
  <2> QED
    BY <2>1
<1>5. ASSUME NEW k \in 1 .. up.count PROVE index[up.surrs[k]] = k - 1
  <2>1. up.surrs[k] \in staged
    OBVIOUS
  <2>2. (CHOOSE j \in 1 .. up.count : up.surrs[j] = up.surrs[k]) = k
    OBVIOUS
  <2> HIDE DEF staged
  <2> QED
    BY <2>1, <2>2
<1>6. \A s \in staged : \E k \in 1 .. up.count : s = up.surrs[k] /\ index[s] = k - 1
  <2> HIDE DEF index
  <2> QED
    BY <1>5
<1>7. /\ index \in [staged -> 0 .. m]
      /\ \A i, j \in staged : index[i] = index[j] => i = j
      /\ \A i \in staged : index[i] \in Occupied(up.block)
  <2>1. \A s \in staged : index[s] \in 0 .. m /\ index[s] \in 0 .. up.count - 1
    <3> HIDE DEF index, staged
    <3> QED
      BY <1>1, <1>6
  <2>2. ASSUME NEW i \in staged, NEW j \in staged, index[i] = index[j] PROVE i = j
    <3>1. PICK k \in 1 .. up.count : i = up.surrs[k] /\ index[i] = k - 1
      BY <1>6
    <3>2. PICK l \in 1 .. up.count : j = up.surrs[l] /\ index[j] = l - 1
      BY <1>6
    <3>3. k = l
      <4> HIDE DEF index, staged
      <4> QED
        BY <3>1, <3>2, <2>2
    <3> QED
      BY <3>1, <3>2, <3>3
  <2>3. index \in [staged -> 0 .. m]
    <3>1. \A s \in staged : index[s] \in 0 .. m
      BY <2>1
    <3> HIDE DEF staged
    <3> QED
      BY <3>1
  <2> HIDE DEF index, staged
  <2> QED
    BY <2>1, <2>2, <2>3
<1> HIDE DEF index, staged
<1>8. \A s \in staged : /\ up.block.slots[index[s]] \in Value
                        /\ up.block.nodes[index[s]].hash_code = Hash[up.block.slots[index[s]]]
  <2>1. \A i \in Occupied(up.block) :
          up.block.slots[i] \in Value /\ up.block.nodes[i].hash_code = Hash[up.block.slots[i]]
    BY DEF Keyed, Chained, Linked
  <2> QED
    BY <2>1, <1>7
<1>9. slots \in [0 .. c - 1 -> Value \cup Nat]
  BY <1>3, <1>8 DEF Block
<1>10. /\ filled \in Block(c) /\ filled.slots = slots /\ filled.capacity = grown.block.capacity
       /\ filled.nodes = grown.block.nodes /\ filled.hashtable = grown.block.hashtable
  <2> HIDE DEF slots
  <2> QED
    BY <1>3, <1>9 DEF Block
<1>11. \A i \in 0 .. c - 1 : slots[i] = IF i \in staged THEN up.block.slots[index[i]]
                                        ELSE grown.block.slots[i]
  BY <1>3
<1> HIDE DEF slots, filled
<1>12. Chained(filled, S)
  <2>1. Chained(grown.block, S)
    BY <1>2 DEF Keyed
  <2>2. \A i \in S : filled.slots[i] = grown.block.slots[i]
    <3> HIDE DEF S
    <3> QED
      BY <1>3, <1>4, <1>10, <1>11
  <2>3. S \subseteq Slots(grown.block)
    BY <1>3
  <2>4. /\ filled.capacity = grown.block.capacity
        /\ filled.nodes = grown.block.nodes /\ filled.hashtable = grown.block.hashtable
    BY <1>10
  <2> HIDE DEF S
  <2> QED
    BY <2>1, <2>2, <2>3, <2>4, ChainedSame
<1>13. \A i \in staged : filled.slots[i] \in Value /\ hash[i] = Hash[filled.slots[i]]
  BY <1>4, <1>8, <1>10, <1>11
<1>14. hash \in [staged -> Nat \cup {EMPTY_SLOT_MARKER}]
  <2>1. \A i \in staged : hash[i] \in Nat
    <3> HIDE DEF hash
    <3> QED
      BY <1>13, HashAssumption
  <2> QED
    BY <2>1
<1> HIDE DEF hash, S
<1>15. Chained(block, S \cup staged)
  BY <1>3, <1>4, <1>7, <1>10, <1>12, <1>13, InsertAllChained
<1>16. block \in Block(c) /\ block.slots = slots
  <2>1. ASSUME NEW B \in Block(c), NEW R \in SUBSET (0 .. c - 1),
               NEW r \in [R -> 0 .. m], NEW h \in [R -> Nat \cup {EMPTY_SLOT_MARKER}]
        PROVE  InsertAll(B, R, r, h) \in Block(c) /\ InsertAll(B, R, r, h).slots = B.slots
    BY InsertAllOK
  <2>2. block \in Block(c) /\ block.slots = filled.slots
    <3>1. /\ filled \in Block(c) /\ staged \in SUBSET (0 .. c - 1)
          /\ index \in [staged -> 0 .. m]
      BY <1>4, <1>7, <1>10
    <3> QED
      BY <3>1, <1>14, <2>1
  <2> HIDE DEF block
  <2> QED
    BY <2>2, <1>10
<1>17. new = [grown EXCEPT !.block = block, !.usage = new_usage, !.first_free = up.first_free]
  BY <1>1 DEF value_store_apply, grown, staged, index, slots, filled, hash
<1> HIDE DEF block, new
<1>18. new.block = block
  <2> HIDE DEF new_usage
  <2> QED
    BY <1>2, <1>17 DEF Store
<1>19. Occupied(block) = S \cup staged
  <2>1. Occupied(block) = {i \in 0 .. c - 1 : block.slots[i] \in Value}
    BY <1>16, OccupiedFacts
  <2>2. S = {i \in 0 .. c - 1 : grown.block.slots[i] \in Value}
    BY <1>2, <1>3, OccupiedFacts
  <2> QED
    BY <2>1, <2>2, <1>4, <1>8, <1>11, <1>16
<1>20. ASSUME NEW i \in S \cup staged, NEW j \in S \cup staged, block.slots[i] = block.slots[j]
       PROVE  i = j
  <2>1. /\ \A k \in S : block.slots[k] = st.block.slots[k]
        /\ \A k \in staged : block.slots[k] = up.block.slots[index[k]]
    BY <1>3, <1>4, <1>11, <1>16
  <2>2. CASE i \in S /\ j \in S
    BY <2>1, <2>2, <1>20 DEF Keyed, S
  <2>3. CASE i \in staged /\ j \in staged
    BY <2>1, <2>3, <1>7, <1>20 DEF Keyed
  <2>4. CASE i \in S /\ j \in staged
    BY <2>1, <2>4, <1>7, <1>20 DEF S
  <2>5. CASE i \in staged /\ j \in S
    BY <2>1, <2>5, <1>7, <1>20 DEF S
  <2> QED
    BY <2>2, <2>3, <2>4, <2>5
<1>21. Keyed(block)
  BY <1>15, <1>19, <1>20 DEF Keyed
<1> QED
  BY <1>18, <1>21 DEF new

-----------------------------------------------------------------------------
(***************************************************************************)
(* What makes a store right: freeList is the surrogates chained from       *)
(* first_free through its blank slots, and held the references that its    *)
(* clients have to each slot.                                              *)
(***************************************************************************)

\* The k-th free surrogate, counting from 1.
FreeAt(store, freeList, k) ==
  IF k <= Len(freeList) THEN freeList[k]
  ELSE store.block.capacity + (k - Len(freeList) - 1)

StoreTyped(store, held, freeList) ==
  /\ store.block.capacity \in Nat /\ store \in Store(store.block.capacity)
  /\ held \in [Slots(store.block) -> Nat]
  /\ freeList \in Seq(Slots(store.block))

FreeListed(store, freeList) ==
  /\ \A j, k \in 1 .. Len(freeList) : freeList[j] = freeList[k] => j = k
  /\ \A i \in Slots(store.block) :
       IsBlank(store.block, i) <=> \E k \in 1 .. Len(freeList) : freeList[k] = i
  /\ store.first_free = FreeAt(store, freeList, 1)
  /\ \A k \in 1 .. Len(freeList) : store.block.slots[freeList[k]] = FreeAt(store, freeList, k + 1)
  /\ store.usage + Len(freeList) = store.block.capacity

RefsCovered(store, held) ==
  \A i \in Slots(store.block) :
    /\ held[i] > 0 => ~ IsBlank(store.block, i)
    /\ ~ IsBlank(store.block, i) => held[i] <= store.ref_counts[i]

StoreOK(store, held, freeList) ==
  StoreTyped(store, held, freeList) /\ FreeListed(store, freeList) /\ RefsCovered(store, held)

(* What makes staged updates right: they are promised the first free        *)
(* surrogates of the store, in order.                                       *)
UpdatesTyped(updates) ==
  /\ updates.block.capacity \in Nat /\ updates \in Updates(updates.block.capacity)
  /\ Len(updates.surrs) = updates.count

Promised(store, updates, freeList) ==
  /\ \A k \in 1 .. updates.count :
       /\ updates.surrs[k] = FreeAt(store, freeList, k)
       /\ updates.block.slots[k - 1] \in Value
  /\ updates.count > 0 => updates.first_free = FreeAt(store, freeList, updates.count + 1)
  /\ updates.block.capacity = 0 <=> updates.count = 0

StagedOK(store, updates, freeList) == UpdatesTyped(updates) /\ Promised(store, updates, freeList)

Pos == Nat \ {0}

\* The free surrogates, taken in order without end: they are all different,
\* the blank slots come first and then the slots beyond the store.
LEMMA ChainFacts ==
  ASSUME NEW store, NEW held, NEW freeList, StoreOK(store, held, freeList)
  PROVE  LET c == store.block.capacity
             L == Len(freeList)
         IN  /\ c \in Nat /\ L \in Nat
             /\ \A k \in Pos : FreeAt(store, freeList, k) \in Nat
             /\ \A k \in Pos : FreeAt(store, freeList, k) < c <=> k <= L
             /\ \A k \in Pos : k <= L => IsBlank(store.block, FreeAt(store, freeList, k))
             /\ \A j, k \in Pos : FreeAt(store, freeList, j) = FreeAt(store, freeList, k) => j = k
             /\ \A k \in Pos : NextFree(store, FreeAt(store, freeList, k)) = FreeAt(store, freeList, k + 1)
             /\ \A i \in Nat : (i < c => IsBlank(store.block, i)) =>
                  \E k \in Pos : FreeAt(store, freeList, k) = i /\ (i >= c => k = L + 1 + (i - c))
<1> DEFINE c == store.block.capacity
           L == Len(freeList)
<1>1. /\ c \in Nat /\ L \in Nat /\ Slots(store.block) = 0 .. c - 1
      /\ \A k \in 1 .. L : freeList[k] \in 0 .. c - 1
  BY DEF StoreOK, StoreTyped, Slots
<1>2. ASSUME NEW k \in Pos
      PROVE  /\ k <= L => k \in 1 .. L /\ FreeAt(store, freeList, k) = freeList[k] /\ FreeAt(store, freeList, k) \in 0 .. c - 1
             /\ ~ (k <= L) => FreeAt(store, freeList, k) = c + (k - L - 1) /\ FreeAt(store, freeList, k) \in Nat /\ FreeAt(store, freeList, k) >= c
  BY <1>1 DEF FreeAt, Pos
<1>3. \A k \in Pos : FreeAt(store, freeList, k) \in Nat /\ (FreeAt(store, freeList, k) < c <=> k <= L)
  BY <1>1, <1>2
<1>4. \A k \in Pos : k <= L => IsBlank(store.block, FreeAt(store, freeList, k))
  BY <1>1, <1>2 DEF StoreOK, FreeListed
<1>5. ASSUME NEW j \in Pos, NEW k \in Pos, FreeAt(store, freeList, j) = FreeAt(store, freeList, k) PROVE j = k
  <2>1. CASE j <= L
    <3>1. k <= L
      BY <1>3, <1>5, <2>1
    <3>2. j \in 1 .. L /\ k \in 1 .. L /\ freeList[j] = freeList[k]
      BY <1>2, <1>5, <2>1, <3>1
    <3> QED
      BY <3>2 DEF StoreOK, FreeListed
  <2>2. CASE ~ (j <= L)
    <3>1. ~ (k <= L)
      BY <1>3, <1>5, <2>2
    <3>2. c + (j - L - 1) = c + (k - L - 1)
      BY <1>2, <1>5, <2>2, <3>1
    <3> QED
      BY <1>1, <3>2 DEF Pos
  <2> QED
    BY <2>1, <2>2
<1>6. ASSUME NEW k \in Pos PROVE NextFree(store, FreeAt(store, freeList, k)) = FreeAt(store, freeList, k + 1)
  <2>1. CASE k <= L
    <3>1. NextFree(store, FreeAt(store, freeList, k)) = store.block.slots[freeList[k]] /\ k \in 1 .. L
      BY <1>2, <1>3, <2>1 DEF NextFree
    <3> QED
      BY <3>1 DEF StoreOK, FreeListed
  <2>2. CASE ~ (k <= L)
    <3>1. NextFree(store, FreeAt(store, freeList, k)) = FreeAt(store, freeList, k) + 1
      BY <1>3, <2>2 DEF NextFree
    <3>2. k + 1 \in Pos /\ ~ (k + 1 <= L)
      BY <1>1, <2>2 DEF Pos
    <3>3. FreeAt(store, freeList, k) = c + (k - L - 1) /\ FreeAt(store, freeList, k + 1) = c + ((k + 1) - L - 1)
      BY <1>2, <2>2, <3>2
    <3> QED
      BY <1>1, <3>1, <3>3 DEF Pos
  <2> QED
    BY <2>1, <2>2
<1>7. ASSUME NEW i \in Nat, i < c => IsBlank(store.block, i)
      PROVE  \E k \in Pos : FreeAt(store, freeList, k) = i /\ (i >= c => k = L + 1 + (i - c))
  <2>1. CASE i < c
    <3>1. PICK k \in 1 .. L : freeList[k] = i
      BY <1>1, <1>7, <2>1 DEF StoreOK, FreeListed
    <3>2. k \in Pos /\ k <= L
      BY <1>1 DEF Pos
    <3> QED
      BY <1>1, <1>2, <2>1, <3>1, <3>2
  <2>2. CASE i >= c
    <3> DEFINE k == L + 1 + (i - c)
    <3>1. k \in Pos /\ ~ (k <= L) /\ c + (k - L - 1) = i
      <4>1. PICK size \in Nat : size = c
        BY <1>1
      <4>2. PICK len \in Nat : len = L
        BY <1>1
      <4> DEFINE past == i - size
      <4>3. past \in Nat /\ i = size + past
        BY <2>2, <4>1
      <4>4. k = len + 1 + past
        BY <4>1, <4>2
      <4> HIDE DEF k, past
      <4>5. k \in Nat /\ k # 0 /\ ~ (k <= len) /\ size + (k - len - 1) = i
        BY <4>3, <4>4
      <4> QED
        BY <4>1, <4>2, <4>5 DEF Pos
    <3>2. FreeAt(store, freeList, k) = i
      BY <1>2, <3>1
    <3> QED
      BY <3>1, <3>2
  <2> QED
    BY <1>1, <2>1, <2>2
<1> QED
  BY <1>1, <1>3, <1>4, <1>5, <1>6, <1>7

\* A new store: every slot is in the chain.
LEMMA StoreInitOK ==
  ASSUME NEW store, store = value_store_init, NEW held, held = [i \in 0 .. INIT_SIZE - 1 |-> 0],
         NEW freeList, freeList = [i \in 1 .. INIT_SIZE |-> i - 1]
  PROVE  StoreOK(store, held, freeList)
<1> DEFINE n == INIT_SIZE
<1>1. n \in Nat \ {0}
  BY SizeAssumption
<1>2. hashtable_clear(n) \in Block(n)
  BY <1>1, ClearOK
<1>3. /\ store.block = hashtable_clear(n) /\ store.usage = 0 /\ store.first_free = 0
      /\ store \in Store(n) /\ store.block.capacity = n
      /\ Slots(store.block) = 0 .. n - 1
      /\ \A i \in 0 .. n - 1 : store.block.slots[i] = i + 1
  <2>1. /\ hashtable_clear(n).capacity = n
        /\ \A i \in 0 .. n - 1 : hashtable_clear(n).slots[i] = i + 1
    BY DEF hashtable_clear
  <2>2. [i \in 0 .. n - 1 |-> 0] \in [0 .. n - 1 -> Nat]
    OBVIOUS
  <2>3. store = [block |-> hashtable_clear(n), usage |-> 0, first_free |-> 0,
                 ref_counts |-> [i \in 0 .. n - 1 |-> 0]]
    BY DEF value_store_init
  <2> QED
    BY <1>1, <1>2, <2>1, <2>2, <2>3 DEF Store, Slots
<1>5. freeList = [k \in 1 .. n |-> k - 1] /\ Len(freeList) = n /\ freeList \in Seq(0 .. n - 1)
  <2>1. freeList = [k \in 1 .. n |-> k - 1]
    OBVIOUS
  <2>2. \A k \in 1 .. n : k - 1 \in 0 .. n - 1
    BY <1>1
  <2>3. freeList \in Seq(0 .. n - 1)
    BY <1>1, <2>1, <2>2
  <2> QED
    BY <1>1, <2>1, <2>3
<1>6. \A k \in 1 .. n + 1 : FreeAt(store, freeList, k) = k - 1
  BY <1>1, <1>3, <1>5 DEF FreeAt
<1>7. StoreTyped(store, held, freeList)
  BY <1>1, <1>3, <1>5 DEF StoreTyped
<1>8. \A i \in 0 .. n - 1 : IsBlank(store.block, i)
  BY <1>1, <1>3, ValueAssumption DEF IsBlank
<1>9. FreeListed(store, freeList)
  <2>1. \A i \in 0 .. n - 1 : \E k \in 1 .. n : freeList[k] = i
    <3>1. \A i \in 0 .. n - 1 : i + 1 \in 1 .. n /\ freeList[i + 1] = i
      BY <1>1, <1>5
    <3> QED
      BY <3>1
  <2>2. \A k \in 1 .. n : store.block.slots[freeList[k]] = FreeAt(store, freeList, k + 1)
    BY <1>1, <1>3, <1>5, <1>6
  <2>3. store.first_free = FreeAt(store, freeList, 1)
    BY <1>1, <1>3, <1>6
  <2>4. \A j, k \in 1 .. n : freeList[j] = freeList[k] => j = k
    BY <1>1, <1>5
  <2>5. store.usage + n = store.block.capacity
    BY <1>1, <1>3
  <2>7. \A i \in 0 .. n - 1 : IsBlank(store.block, i) <=> \E k \in 1 .. n : freeList[k] = i
    BY <1>8, <2>1
  <2>8. Len(freeList) = n /\ Slots(store.block) = 0 .. n - 1
    BY <1>3, <1>5
  <2> HIDE DEF n
  <2> QED
    BY <2>2, <2>3, <2>4, <2>5, <2>7, <2>8 DEF FreeListed
<1>11. RefsCovered(store, held)
  BY <1>1, <1>3, <1>8 DEF RefsCovered
<1> QED
  BY <1>7, <1>9, <1>11 DEF StoreOK

\* A new update has nothing staged.
LEMMA UpdatesInitOK ==
  ASSUME NEW store, NEW freeList, NEW updates, updates = value_store_updates_init
  PROVE  StagedOK(store, updates, freeList) /\ updates.count = 0 /\ updates.surrs = << >>
<1> DEFINE zero == 0
<1>1. hashtable_clear(zero) \in Block(zero)
  <2>1. zero \in Nat
    OBVIOUS
  <2> HIDE DEF zero
  <2> QED
    BY <2>1, ClearOK
<1>2. updates = [block |-> hashtable_clear(0), count |-> 0, first_free |-> 0, surrs |-> << >>]
  BY DEF value_store_updates_init
<1>3. hashtable_clear(0).capacity = 0
  BY DEF hashtable_clear
<1>4. UpdatesTyped(updates)
  BY <1>1, <1>2, <1>3 DEF UpdatesTyped, Updates
<1>5. Promised(store, updates, freeList)
  BY <1>2, <1>3 DEF Promised
<1> QED
  BY <1>2, <1>4, <1>5 DEF StagedOK

\* A value is staged after those that were staged before.
StagedLast(updates, updates2, value) ==
  /\ updates2.block.slots[updates.count] = value
  /\ \A i \in 0 .. updates.count - 1 : updates2.block.slots[i] = updates.block.slots[i]

\* Staging promises the next surrogate of the chain.
LEMMA InsertKeeps ==
  ASSUME NEW store, NEW held, NEW freeList, NEW updates, NEW value \in Value, NEW updates2,
         StoreOK(store, held, freeList), StagedOK(store, updates, freeList),
         updates2 = value_store_insert(store, updates, value)
  PROVE  /\ StagedOK(store, updates2, freeList)
         /\ updates2.count = updates.count + 1
         /\ updates2.surrs = Append(updates.surrs, NextSurr(store, updates))
         /\ StagedLast(updates, updates2, value)
<1> DEFINE n == updates.block.capacity
           t == updates.count
<1>1. /\ n \in Nat /\ updates \in Updates(n) /\ t \in Nat /\ Len(updates.surrs) = t
      /\ updates.surrs \in Seq(Nat)
  <2>1. n \in Nat /\ updates \in Updates(n) /\ Len(updates.surrs) = t
    BY DEF UpdatesTyped, StagedOK
  <2> HIDE DEF n
  <2> QED
    BY <2>1 DEF Updates
<1>2. /\ \A k \in Pos : FreeAt(store, freeList, k) \in Nat
      /\ \A k \in Pos : NextFree(store, FreeAt(store, freeList, k)) = FreeAt(store, freeList, k + 1)
  BY ChainFacts
<1>3. NextSurr(store, updates) = FreeAt(store, freeList, t + 1)
  <2>1. CASE t = 0
    BY <2>1 DEF NextSurr, FreeListed, StoreOK
  <2>2. CASE t # 0
    BY <1>1, <2>2 DEF NextSurr, Promised, StagedOK
  <2> QED
    BY <2>1, <2>2
<1>4. t + 1 \in Pos /\ t + 2 \in Pos /\ (t + 1) + 1 = t + 2
  BY <1>1 DEF Pos
<1>5. /\ NextSurr(store, updates) \in Nat
      /\ NextFree(store, NextSurr(store, updates)) = FreeAt(store, freeList, t + 2)
      /\ NextFree(store, NextSurr(store, updates)) \in Nat
  <2> HIDE DEF t
  <2> QED
    BY <1>2, <1>3, <1>4
<1>6. /\ updates2.block.capacity \in Nat \ {0}
      /\ updates2 \in Updates(updates2.block.capacity)
      /\ updates2.count = t + 1
      /\ updates2.surrs = Append(updates.surrs, FreeAt(store, freeList, t + 1))
      /\ updates2.first_free = FreeAt(store, freeList, t + 2)
      /\ updates2.block.slots[t] = value
      /\ \A i \in 0 .. t - 1 : updates2.block.slots[i] = updates.block.slots[i]
  <2> DEFINE u == value_store_insert(store, updates, value)
  <2>1. /\ u.block.capacity \in Nat \ {0} /\ u \in Updates(u.block.capacity)
        /\ u.count = t + 1
        /\ u.surrs = Append(updates.surrs, NextSurr(store, updates))
        /\ u.first_free = NextFree(store, NextSurr(store, updates))
        /\ u.block.slots[t] = value
        /\ \A i \in 0 .. t - 1 : u.block.slots[i] = updates.block.slots[i]
    <3>1. /\ n \in Nat /\ updates \in Updates(n) /\ Len(updates.surrs) = updates.count
          /\ value \in Value /\ NextSurr(store, updates) \in Nat
          /\ NextFree(store, NextSurr(store, updates)) \in Nat
      BY <1>1, <1>5
    <3> HIDE DEF n, u
    <3>2. store.block.capacity \in Nat /\ store \in Store(store.block.capacity)
      BY DEF StoreOK, StoreTyped
    <3> QED
      BY <3>1, <3>2, StageOK DEF u
  <2>2. updates2 = u
    OBVIOUS
  <2> HIDE DEF u, t
  <2> QED
    BY <1>3, <1>5, <2>1, <2>2
<1>9. Len(updates2.surrs) = t + 1
  BY <1>1, <1>6, <1>5, <1>3
<1>10. UpdatesTyped(updates2)
  BY <1>6, <1>9 DEF UpdatesTyped
<1>13. Promised(store, updates2, freeList)
  <2>1. ASSUME NEW k \in 1 .. t + 1
        PROVE  updates2.surrs[k] = FreeAt(store, freeList, k) /\ updates2.block.slots[k - 1] \in Value
    <3>1. CASE k = t + 1
      BY <1>1, <1>6, <3>1
    <3>2. CASE k # t + 1
      <4>1. k \in 1 .. t /\ k - 1 \in 0 .. t - 1
        BY <1>1, <3>2
      <4>2. updates.surrs[k] = FreeAt(store, freeList, k) /\ updates.block.slots[k - 1] \in Value
        BY <4>1 DEF Promised, StagedOK
      <4>3. updates2.surrs[k] = updates.surrs[k]
        BY <1>1, <1>6, <4>1
      <4> QED
        BY <1>6, <4>1, <4>2, <4>3
    <3> QED
      BY <3>1, <3>2
  <2>2. (t + 1) + 1 = t + 2 /\ t + 1 # 0
    BY <1>1
  <2> QED
    BY <1>6, <2>1, <2>2 DEF Promised
<1> QED
  BY <1>3, <1>6, <1>10, <1>13 DEF StagedOK, StagedLast

\* What applying the staged update does, in terms of the chain: its first
\* elements are filled, and the slots added continue it.
LEMMA AppliedStore ==
  ASSUME NEW store, NEW held, NEW freeList, NEW updates,
         StoreOK(store, held, freeList), StagedOK(store, updates, freeList)
  PROVE  LET s == value_store_apply(store, updates)
             c == store.block.capacity
             d == s.block.capacity
             t == updates.count
         IN  /\ d \in Nat /\ d >= c /\ d >= store.usage + t /\ s \in Store(d)
             /\ c >= store.usage + t => d = c
             /\ s.usage = store.usage + t
             /\ s.first_free = FreeAt(store, freeList, t + 1)
             /\ \A k \in 1 .. t : /\ FreeAt(store, freeList, k) < d /\ FreeAt(store, freeList, k) = updates.surrs[k]
                                  /\ s.block.slots[FreeAt(store, freeList, k)] = updates.block.slots[k - 1]
                                  /\ s.block.slots[FreeAt(store, freeList, k)] \in Value
             /\ \A i \in 0 .. d - 1 :
                  /\ s.ref_counts[i] = IF i < c THEN store.ref_counts[i] ELSE 0
                  /\ \/ \E k \in 1 .. t : FreeAt(store, freeList, k) = i
                     \/ s.block.slots[i] = IF i < c THEN store.block.slots[i] ELSE i + 1
<1> DEFINE c == store.block.capacity
           m == updates.block.capacity
           t == updates.count
           L == Len(freeList)
           s == value_store_apply(store, updates)
<1>1. /\ c \in Nat /\ store \in Store(c) /\ m \in Nat /\ updates \in Updates(m)
      /\ Len(updates.surrs) = t
  BY DEF StoreOK, StagedOK, StoreTyped, UpdatesTyped
<1>2. /\ t \in 0 .. m /\ store.usage \in 0 .. c /\ store.first_free \in Nat
      /\ Slots(store.block) = 0 .. c - 1
  <2> HIDE DEF c, m
  <2> QED
    BY <1>1 DEF Updates, Store, c, Slots
<1>3. L \in Nat /\ store.usage + L = c
  BY DEF StoreOK, StagedOK, StoreTyped, UpdatesTyped, FreeListed
<1>4. /\ \A k \in 1 .. t : updates.surrs[k] = FreeAt(store, freeList, k) /\ updates.block.slots[k - 1] \in Value
      /\ t > 0 => updates.first_free = FreeAt(store, freeList, t + 1)
      /\ m = 0 <=> t = 0
  BY DEF StoreOK, StagedOK, Promised
<1>5. /\ \A k \in Pos : FreeAt(store, freeList, k) \in Nat /\ (FreeAt(store, freeList, k) < c <=> k <= L)
      /\ \A j, k \in Pos : FreeAt(store, freeList, j) = FreeAt(store, freeList, k) => j = k
  BY ChainFacts DEF StoreOK, StagedOK
<1>6. \A k \in Pos : k > L => FreeAt(store, freeList, k) = store.usage + k - 1
  <2>1. \A k \in Pos : k > L => FreeAt(store, freeList, k) = c + (k - L - 1)
    BY <1>3 DEF FreeAt, Pos
  <2> HIDE DEF c, L
  <2> QED
    BY <1>2, <1>3, <2>1 DEF Pos
<1>7. CASE t = 0
  <2>1. s = store
    BY <1>4, <1>7 DEF value_store_apply
  <2>2. store.first_free = FreeAt(store, freeList, 1)
    BY DEF StoreOK, StagedOK, FreeListed
  <2>3. 1 .. t = {} /\ t + 1 = 1 /\ store.usage + t = store.usage
    BY <1>2, <1>7
  <2>4. \A i \in 0 .. c - 1 : i < c
    BY <1>1
  <2> HIDE DEF s, m
  <2> QED
    BY <1>1, <1>2, <1>7, <2>1, <2>2, <2>3, <2>4 DEF s
<1>8. CASE t # 0
  <2> DEFINE d == Grow(store, store.usage + t).block.capacity
  <2>1. /\ d \in Nat /\ d >= c /\ d >= store.usage + t
        /\ c >= store.usage + t => d = c
    <3>1. store.usage + t \in Nat
      BY <1>2
    <3> HIDE DEF c
    <3> QED
      BY <1>1, <3>1, GrowOK
  <2>2. \A k \in Pos : k <= t => FreeAt(store, freeList, k) < d
    <3>1. t \in Nat /\ c \in Nat /\ d \in Nat /\ store.usage \in Nat /\ L \in Nat
      BY <1>1, <1>2, <1>3, <2>1
    <3> HIDE DEF c, L, d, t
    <3>2. ASSUME NEW k \in Pos, k <= t PROVE FreeAt(store, freeList, k) < d
      <4>1. CASE k <= L
        BY <1>5, <2>1, <3>1, <4>1
      <4>2. CASE ~ (k <= L)
        <5>1. FreeAt(store, freeList, k) = store.usage + k - 1 /\ k \in Nat
          BY <1>6, <3>1, <4>2 DEF Pos
        <5> QED
          BY <2>1, <3>1, <3>2, <5>1
      <4> QED
        BY <4>1, <4>2
    <3> QED
      BY <3>2
  <2>3. \A k \in 1 .. t : k \in Pos /\ k <= t
    BY <1>2 DEF Pos
  <2>4. \A k \in 1 .. t : updates.surrs[k] < d
    BY <1>4, <2>2, <2>3
  <2>5. \A j, k \in 1 .. t : updates.surrs[j] = updates.surrs[k] => j = k
    BY <1>4, <1>5, <2>3
  <2>6. t + 1 \in Pos /\ updates.first_free = FreeAt(store, freeList, t + 1)
    BY <1>2, <1>4, <1>8 DEF Pos
  <2>7. updates.first_free \in 0 .. d
    <3>1. FreeAt(store, freeList, t + 1) \in Nat /\ FreeAt(store, freeList, t + 1) <= d
      <4> HIDE DEF c, L, d, t
      <4> QED
        BY <1>1, <1>2, <1>3, <1>5, <1>6, <2>1, <2>6
    <3> HIDE DEF d, t
    <3> QED
      BY <2>1, <2>6, <3>1
  <2>8. /\ s \in Store(d) /\ s.block.capacity = d
        /\ s.usage = store.usage + t
        /\ s.first_free = updates.first_free
        /\ \A k \in 1 .. t : s.block.slots[updates.surrs[k]] = updates.block.slots[k - 1]
        /\ \A i \in 0 .. d - 1 :
             /\ s.ref_counts[i] = IF i < c THEN store.ref_counts[i] ELSE 0
             /\ \/ \E k \in 1 .. t : updates.surrs[k] = i
                \/ s.block.slots[i] = IF i < c THEN store.block.slots[i] ELSE i + 1
    <3>1. /\ \A k \in 1 .. updates.count : updates.block.slots[k - 1] \in Value
          /\ \A j, k \in 1 .. updates.count : updates.surrs[j] = updates.surrs[k] => j = k
          /\ \A k \in 1 .. updates.count : updates.surrs[k] < d
          /\ d = Grow(store, store.usage + updates.count).block.capacity
          /\ m # 0 /\ Len(updates.surrs) = updates.count
      BY <1>1, <1>4, <1>8, <2>4, <2>5
    <3>2. /\ c \in Nat /\ store \in Store(c) /\ m \in Nat /\ updates \in Updates(m)
          /\ d \in Nat /\ updates.first_free \in 0 .. d
      BY <1>1, <2>1, <2>7
    <3> HIDE DEF c, m, d
    <3> QED
      BY <3>1, <3>2, ApplyOK, SMTT(60)
  <2> HIDE DEF d, s, c, m, t
  <2> QED
    BY <1>4, <2>1, <2>2, <2>3, <2>6, <2>8 DEF s, c, t
<1> QED
  BY <1>7, <1>8

\* When the store has grown, nobody refers to the slots added; the surrogates
\* that are free after applying come after those that were promised.
\* What clients hold, and the chain that is left, once an update is applied.
HeldBy(store, store2, held) == [i \in Slots(store2.block) |-> IF i \in Slots(store.block) THEN held[i] ELSE 0]
FreeLeft(store, store2, updates, freeList) ==
  [k \in 1 .. (store2.block.capacity - store2.usage) |-> FreeAt(store, freeList, k + updates.count)]

\* Applying moves the chain on by the number of values staged.
LEMMA ApplyKeeps ==
  ASSUME NEW store, NEW held, NEW freeList, NEW updates,
         StoreOK(store, held, freeList), StagedOK(store, updates, freeList),
         NEW store2, store2 = value_store_apply(store, updates),
         NEW held2, held2 = HeldBy(store, store2, held),
         NEW freeList2, freeList2 = FreeLeft(store, store2, updates, freeList)
  PROVE  StoreOK(store2, held2, freeList2)
<1> DEFINE c == store.block.capacity
           d == store2.block.capacity
           t == updates.count
           L == Len(freeList)
           M == d - store2.usage
<1>1. /\ d \in Nat /\ d >= c /\ d >= store.usage + t /\ store2 \in Store(d)
      /\ c >= store.usage + t => d = c
      /\ store2.usage = store.usage + t
      /\ store2.first_free = FreeAt(store, freeList, t + 1)
      /\ \A k \in 1 .. t : FreeAt(store, freeList, k) < d /\ store2.block.slots[FreeAt(store, freeList, k)] \in Value
      /\ \A i \in 0 .. d - 1 :
           /\ store2.ref_counts[i] = IF i < c THEN store.ref_counts[i] ELSE 0
           /\ \/ \E k \in 1 .. t : FreeAt(store, freeList, k) = i
              \/ store2.block.slots[i] = IF i < c THEN store.block.slots[i] ELSE i + 1
  BY AppliedStore
<1>2. /\ held2 = [i \in 0 .. d - 1 |-> IF i \in 0 .. c - 1 THEN held[i] ELSE 0]
      /\ freeList2 = [k \in 1 .. M |-> FreeAt(store, freeList, k + t)]
  BY DEF Slots, HeldBy, FreeLeft
<1>3. /\ c \in Nat /\ store.usage \in Nat /\ t \in Nat /\ L \in Nat
      /\ held \in [0 .. c - 1 -> Nat] /\ store \in Store(c)
  <2>1. /\ c \in Nat /\ store \in Store(c) /\ updates.block.capacity \in Nat
        /\ updates \in Updates(updates.block.capacity)
        /\ held \in [0 .. c - 1 -> Nat] /\ L \in Nat
    BY DEF StoreOK, StagedOK, StoreTyped, UpdatesTyped, Slots
  <2>2. store.usage \in 0 .. c /\ t \in 0 .. updates.block.capacity
    <3> HIDE DEF c
    <3> QED
      BY <2>1 DEF Store, Updates
  <2> QED
    BY <2>1, <2>2
<1>4. L \in Nat /\ store.usage + L = c
  BY <1>3 DEF StoreOK, StagedOK, FreeListed
<1>5. M \in Nat /\ M = d - store.usage - t /\ store2.usage + M = d
  BY <1>1, <1>3
<1>6. /\ \A k \in Pos : FreeAt(store, freeList, k) \in Nat
      /\ \A k \in Pos : FreeAt(store, freeList, k) < c <=> k <= L
      /\ \A k \in Pos : k <= L => IsBlank(store.block, FreeAt(store, freeList, k))
      /\ \A j, k \in Pos : FreeAt(store, freeList, j) = FreeAt(store, freeList, k) => j = k
      /\ \A k \in Pos : NextFree(store, FreeAt(store, freeList, k)) = FreeAt(store, freeList, k + 1)
      /\ \A i \in Nat : (i < c => IsBlank(store.block, i)) =>
           \E k \in Pos : FreeAt(store, freeList, k) = i /\ (i >= c => k = L + 1 + (i - c))
  BY ChainFacts DEF StoreOK, StagedOK
<1>7. \A k \in Pos : k > L => FreeAt(store, freeList, k) = store.usage + k - 1
  <2>1. \A k \in Pos : k > L => FreeAt(store, freeList, k) = c + (k - L - 1)
    BY <1>3 DEF FreeAt, Pos
  <2>2. c \in Nat /\ store.usage \in Nat /\ L \in Nat /\ c = store.usage + L
    BY <1>3, <1>4
  <2> HIDE DEF c, L, d, t, M
  <2> QED
    BY <2>1, <2>2 DEF Pos
<1>8. Slots(store2.block) = 0 .. d - 1 /\ Slots(store.block) = 0 .. c - 1
  BY DEF Slots
<1> HIDE DEF c, d, t, L, M
<1>9. ASSUME NEW k \in 1 .. M
      PROVE  k + t \in Pos /\ FreeAt(store, freeList, k + t) \in 0 .. d - 1
  <2>1. k + t \in Pos /\ k \in Nat
    BY <1>3 DEF Pos
  <2>2. CASE k + t <= L
    <3>1. FreeAt(store, freeList, k + t) \in Nat /\ FreeAt(store, freeList, k + t) < c
      BY <1>6, <2>1, <2>2
    <3> QED
      BY <1>1, <1>3, <2>1, <3>1
  <2>3. CASE ~ (k + t <= L)
    <3>1. FreeAt(store, freeList, k + t) = store.usage + (k + t) - 1 /\ FreeAt(store, freeList, k + t) \in Nat
      <4>1. k + t > L
        BY <1>3, <2>1, <2>3
      <4> QED
        BY <1>6, <1>7, <2>1, <4>1
    <3> QED
      BY <1>1, <1>3, <1>5, <2>1, <3>1
  <2> QED
    BY <2>2, <2>3
<1>10. freeList2 \in Seq(0 .. d - 1) /\ Len(freeList2) = M
  <2>1. freeList2 \in [1 .. M -> 0 .. d - 1]
    BY <1>2, <1>9
  <2>2. M \in Nat
    BY <1>5
  <2>3. freeList2 \in Seq(0 .. d - 1)
    BY <2>1, <2>2, SeqDef
  <2>4. DOMAIN freeList2 = 1 .. M
    BY <2>1
  <2> QED
    BY <2>2, <2>3, <2>4, LenProperties
<1>11. \A k \in 1 .. M : freeList2[k] = FreeAt(store, freeList, k + t)
  BY <1>2
<1>12. ASSUME NEW k \in Pos PROVE FreeAt(store2, freeList2, k) = FreeAt(store, freeList, k + t)
  <2>1. FreeAt(store2, freeList2, k) = IF k <= M THEN freeList2[k] ELSE d + (k - M - 1)
    BY <1>10 DEF FreeAt, d
  <2>2. CASE k <= M
    <3>1. k \in 1 .. M
      BY <1>5, <2>2 DEF Pos
    <3> QED
      BY <1>11, <2>1, <2>2, <3>1
  <2>3. CASE ~ (k <= M)
    <3>1. k \in Nat /\ k + t \in Pos
      BY <1>3 DEF Pos
    <3>2. M + t >= L
      BY <1>1, <1>3, <1>4, <1>5
    <3>3. k + t > L
      BY <1>3, <1>5, <2>3, <3>1, <3>2
    <3>4. FreeAt(store, freeList, k + t) = store.usage + (k + t) - 1
      BY <1>7, <3>1, <3>3
    <3>5. FreeAt(store2, freeList2, k) = d + (k - M - 1) /\ M = d - store.usage - t
      BY <1>5, <2>1, <2>3
    <3>6. d \in Nat /\ store.usage \in Nat /\ t \in Nat
      BY <1>1, <1>3
    <3>7. d + (k - M - 1) = store.usage + (k + t) - 1
      BY <3>1, <3>5, <3>6
    <3> QED
      BY <3>4, <3>5, <3>7
  <2> QED
    BY <2>2, <2>3
<1>13. ASSUME NEW k \in 1 .. M
       PROVE  /\ store2.block.slots[FreeAt(store, freeList, k + t)] =
                   IF FreeAt(store, freeList, k + t) < c THEN store.block.slots[FreeAt(store, freeList, k + t)]
                   ELSE FreeAt(store, freeList, k + t) + 1
              /\ store2.block.slots[FreeAt(store, freeList, k + t)] = FreeAt(store, freeList, k + t + 1)
              /\ IsBlank(store2.block, FreeAt(store, freeList, k + t))
  <2>1. k + t \in Pos /\ FreeAt(store, freeList, k + t) \in 0 .. d - 1 /\ k \in Nat
    BY <1>9
  <2>2. ~ \E j \in 1 .. t : FreeAt(store, freeList, j) = FreeAt(store, freeList, k + t)
    <3> SUFFICES ASSUME NEW j \in 1 .. t, FreeAt(store, freeList, j) = FreeAt(store, freeList, k + t) PROVE FALSE
      OBVIOUS
    <3>1. j \in Pos /\ j # k + t
      BY <1>3 DEF Pos
    <3> QED
      BY <1>6, <2>1, <3>1
  <2>3. store2.block.slots[FreeAt(store, freeList, k + t)] =
          IF FreeAt(store, freeList, k + t) < c THEN store.block.slots[FreeAt(store, freeList, k + t)] ELSE FreeAt(store, freeList, k + t) + 1
    BY <1>1, <2>1, <2>2
  <2>4. NextFree(store, FreeAt(store, freeList, k + t)) = FreeAt(store, freeList, k + t + 1)
    BY <1>6, <2>1
  <2>5. store2.block.slots[FreeAt(store, freeList, k + t)] = FreeAt(store, freeList, k + t + 1)
    BY <2>3, <2>4 DEF NextFree, c
  <2>6. FreeAt(store, freeList, k + t + 1) \in Nat
    <3>1. k + t + 1 \in Pos
      BY <1>3, <2>1 DEF Pos
    <3> QED
      BY <1>6, <3>1
  <2>7. IsBlank(store2.block, FreeAt(store, freeList, k + t))
    BY <2>5, <2>6, ValueAssumption DEF IsBlank
  <2> QED
    BY <2>3, <2>5, <2>7
<1>14. ASSUME NEW i \in 0 .. d - 1, IsBlank(store2.block, i)
       PROVE  \E k \in 1 .. M : FreeAt(store, freeList, k + t) = i
  <2>1. ~ \E k \in 1 .. t : FreeAt(store, freeList, k) = i
    BY <1>1, <1>14 DEF IsBlank
  <2>2. i < c => IsBlank(store.block, i)
    BY <1>1, <1>14, <2>1 DEF IsBlank
  <2>3. PICK k \in Pos : FreeAt(store, freeList, k) = i /\ (i >= c => k = L + 1 + (i - c))
    BY <1>1, <1>6, <2>2
  <2>4. k > t
    <3>1. k \in Nat \ {0} /\ k \notin 1 .. t
      BY <2>1, <2>3 DEF Pos
    <3> QED
      BY <1>3, <3>1
  <2>5. k <= M + t
    <3>1. PICK used \in Nat : used = store.usage
      BY <1>3
    <3>2. /\ d \in Nat /\ c \in Nat /\ t \in Nat /\ L \in Nat /\ M \in Nat
          /\ d >= c /\ used + L = c /\ M = d - used - t /\ i \in Nat /\ i < d /\ k \in Nat
      BY <1>1, <1>3, <1>4, <1>5, <3>1 DEF Pos
    <3>3. M + t = L + (d - c)
      BY <3>2
    <3>4. CASE i < c
      <4>1. k <= L
        BY <1>6, <2>3, <3>4
      <4> QED
        BY <3>2, <3>3, <4>1
    <3>5. CASE ~ (i < c)
      <4>1. k = L + 1 + (i - c)
        BY <2>3, <3>2, <3>5
      <4> QED
        BY <3>2, <3>3, <4>1
    <3> QED
      BY <3>4, <3>5
  <2>6. k - t \in 1 .. M /\ (k - t) + t = k
    BY <1>3, <1>5, <2>3, <2>4, <2>5 DEF Pos
  <2> QED
    BY <2>3, <2>6
<1>15. FreeListed(store2, freeList2)
  <2>1. \A j, k \in 1 .. M : freeList2[j] = freeList2[k] => j = k
    <3> SUFFICES ASSUME NEW j \in 1 .. M, NEW k \in 1 .. M, freeList2[j] = freeList2[k]
                 PROVE  j = k
      OBVIOUS
    <3>1. j + t = k + t
      BY <1>6, <1>9, <1>11
    <3> QED
      BY <1>3, <3>1
  <2>2. \A i \in 0 .. d - 1 :
          IsBlank(store2.block, i) <=> \E k \in 1 .. M : freeList2[k] = i
    BY <1>11, <1>13, <1>14
  <2>3. store2.first_free = FreeAt(store2, freeList2, 1)
    <3>1. 1 \in Pos /\ 1 + t = t + 1
      BY <1>3 DEF Pos
    <3> QED
      BY <1>1, <1>12, <3>1
  <2>4. \A k \in 1 .. M : store2.block.slots[freeList2[k]] = FreeAt(store2, freeList2, k + 1)
    <3> TAKE k \in 1 .. M
    <3>1. k + 1 \in Pos /\ (k + 1) + t = k + t + 1
      BY <1>3 DEF Pos
    <3>2. FreeAt(store2, freeList2, k + 1) = FreeAt(store, freeList, (k + 1) + t)
      BY <1>12, <3>1
    <3> QED
      BY <1>11, <1>13, <3>1, <3>2
  <2> QED
    BY <1>5, <1>8, <1>10, <2>1, <2>2, <2>3, <2>4 DEF FreeListed, d
<1>16. StoreTyped(store2, held2, freeList2)
  <2>1. held2 \in [0 .. d - 1 -> Nat]
    BY <1>2, <1>3
  <2> QED
    BY <1>1, <1>2, <1>8, <1>10, <2>1 DEF StoreOK, StagedOK, StoreTyped, UpdatesTyped, d
<1>18. RefsCovered(store2, held2)
  <2>1. ASSUME NEW i \in 0 .. d - 1
        PROVE  /\ held2[i] > 0 => ~ IsBlank(store2.block, i)
               /\ ~ IsBlank(store2.block, i) => held2[i] <= store2.ref_counts[i]
    <3>1. CASE i < c
      <4>1. i \in 0 .. c - 1 /\ held2[i] = held[i] /\ held[i] \in Nat
        BY <1>2, <1>3, <3>1
      <4>2. /\ held[i] > 0 => ~ IsBlank(store.block, i)
            /\ ~ IsBlank(store.block, i) => held[i] <= store.ref_counts[i]
        BY <1>8, <4>1 DEF StoreOK, StagedOK, RefsCovered
      <4>3. store2.ref_counts[i] = store.ref_counts[i] /\ store.ref_counts[i] \in Nat
        BY <1>1, <1>3, <3>1, <4>1 DEF Store
      <4>4. ~ IsBlank(store.block, i) => ~ IsBlank(store2.block, i)
        <5> SUFFICES ASSUME ~ IsBlank(store.block, i) PROVE ~ IsBlank(store2.block, i)
          OBVIOUS
        <5>1. ~ \E k \in 1 .. t : FreeAt(store, freeList, k) = i
          <6> SUFFICES ASSUME NEW k \in 1 .. t, FreeAt(store, freeList, k) = i PROVE FALSE
            OBVIOUS
          <6>1. k \in Pos
            BY DEF Pos
          <6> QED
            BY <1>6, <3>1, <6>1
        <5> QED
          BY <1>1, <3>1, <5>1 DEF IsBlank
      <4> QED
        BY <4>1, <4>2, <4>3, <4>4
    <3>2. CASE ~ (i < c)
      <4>1. held2[i] = 0 /\ store2.ref_counts[i] = 0
        BY <1>1, <1>2, <1>3, <3>2
      <4> QED
        BY <4>1
    <3> QED
      BY <3>1, <3>2
  <2> QED
    BY <1>8, <2>1 DEF RefsCovered
<1> QED
  BY <1>15, <1>16, <1>18 DEF StoreOK, StagedOK

\* The chain is shorter than the store when some slot is occupied.
LEMMA FreeListShort ==
  ASSUME NEW store, NEW held, NEW freeList, StoreOK(store, held, freeList), NEW surr \in Slots(store.block), ~ IsBlank(store.block, surr)
  PROVE  Len(freeList) < store.block.capacity
<1> DEFINE c == store.block.capacity
           L == Len(freeList)
           T == (0 .. c - 1) \ {surr}
<1>1. /\ c \in Nat /\ L \in Nat /\ surr \in 0 .. c - 1
      /\ freeList \in [1 .. L -> 0 .. c - 1]
  BY LenProperties DEF StoreOK, StoreTyped, Slots
<1>2. \A k \in 1 .. L : freeList[k] # surr
  BY DEF StoreOK, FreeListed
<1>3. freeList \in [1 .. L -> T]
  BY <1>1, <1>2
<1>4. IsFiniteSet(1 .. L) /\ Cardinality(1 .. L) = L
  <2> HIDE DEF L
  <2> QED
    BY <1>1, IntervalSize
<1>5. IsFiniteSet(T) /\ Cardinality(T) = c - 1
  <2>1. IsFiniteSet(0 .. c - 1) /\ Cardinality(0 .. c - 1) = c
    <3> HIDE DEF c
    <3> QED
      BY <1>1, IntervalSize
  <2>2. \A S : IsFiniteSet(S) /\ surr \in S =>
          IsFiniteSet(S \ {surr}) /\ Cardinality(S \ {surr}) = Cardinality(S) - 1
    BY FS_RemoveElement
  <2> HIDE DEF c
  <2> QED
    BY <1>1, <2>1, <2>2
<1>6. ~ (c - 1 < L)
  <2> SUFFICES ASSUME c - 1 < L PROVE FALSE
    OBVIOUS
  <2>1. \E j, k \in 1 .. L : j # k /\ freeList[j] = freeList[k]
    <3>1. Cardinality(T) < Cardinality(1 .. L)
      BY <1>4, <1>5
    <3> HIDE DEF T, L, c
    <3> QED
      BY <1>3, <1>4, <1>5, <3>1, FS_PigeonHole
  <2> QED
    BY <2>1 DEF StoreOK, FreeListed
<1> QED
  BY <1>1, <1>6

\* A slot that has become blank is the first free one.
\* The chain once a reference is released.
FreeWith(store2, freeList, surr) == IF surr \in Occupied(store2.block) THEN freeList ELSE <<surr>> \o freeList

\* Releasing the last counted reference puts the slot in front of the chain.
LEMMA ReleaseKeeps ==
  ASSUME NEW store, NEW held, NEW freeList, StoreOK(store, held, freeList),
         NEW surr \in Slots(store.block), held[surr] > 0,
         NEW store2, store2 = value_store_release(store, surr),
         NEW held2, held2 = [held EXCEPT ![surr] = @ - 1],
         NEW freeList2,
         freeList2 = FreeWith(store2, freeList, surr)
  PROVE  StoreOK(store2, held2, freeList2)
<1> DEFINE c == store.block.capacity
           L == Len(freeList)
<1>1. /\ c \in Nat /\ store \in Store(c) /\ Slots(store.block) = 0 .. c - 1
      /\ held \in [0 .. c - 1 -> Nat] /\ freeList \in Seq(0 .. c - 1) /\ L \in Nat
  BY DEF StoreOK, StagedOK, StoreTyped, UpdatesTyped, Slots
<1>2. /\ surr \in 0 .. c - 1 /\ held[surr] > 0
      /\ store2 = value_store_release(store, surr)
      /\ held2 = [held EXCEPT ![surr] = @ - 1]
      /\ freeList2 = IF surr \in Occupied(store2.block) THEN freeList ELSE <<surr>> \o freeList
  BY <1>1 DEF FreeWith
<1>3. /\ ~ IsBlank(store.block, surr)
      /\ held[surr] <= store.ref_counts[surr]
      /\ held[surr] \in Nat /\ store.ref_counts[surr] \in Nat
  <2>1. store.ref_counts[surr] \in Nat
    BY <1>1, <1>2 DEF Store
  <2> QED
    BY <1>1, <1>2, <2>1 DEF StoreOK, StagedOK, RefsCovered
<1>4. /\ held2 \in [0 .. c - 1 -> Nat]
      /\ \A i \in 0 .. c - 1 : held2[i] = IF i = surr THEN held[i] - 1 ELSE held[i]
  <2>1. held[surr] - 1 \in Nat
    BY <1>2, <1>3
  <2> HIDE DEF c
  <2> QED
    BY <1>1, <1>2, <2>1
<1>5. CASE store.ref_counts[surr] # 1
  <2> DEFINE refs == [store.ref_counts EXCEPT ![surr] = @ - 1]
  <2>1. store2 = [store EXCEPT !.ref_counts = refs]
    BY <1>2, <1>5 DEF value_store_release
  <2>2. /\ refs \in [0 .. c - 1 -> Nat]
        /\ \A i \in 0 .. c - 1 : refs[i] = IF i = surr THEN store.ref_counts[i] - 1
                                           ELSE store.ref_counts[i]
    <3>1. store.ref_counts[surr] - 1 \in Nat
      BY <1>2, <1>3
    <3>2. store.ref_counts \in [0 .. c - 1 -> Nat]
      BY <1>1 DEF Store
    <3> HIDE DEF c
    <3> QED
      BY <1>2, <3>1, <3>2
  <2> HIDE DEF refs, c
  <2>3. /\ store2 \in Store(c) /\ store2.block = store.block /\ store2.usage = store.usage
        /\ store2.first_free = store.first_free /\ store2.ref_counts = refs
    BY <1>1, <2>1, <2>2 DEF Store
  <2>4. freeList2 = freeList
    BY <1>2, <1>1, <1>3, <2>3 DEF Occupied
  <2>5. StoreTyped(store2, held2, freeList2)
    BY <1>1, <1>2, <1>4, <2>3, <2>4 DEF StoreOK, StagedOK, StoreTyped, UpdatesTyped, c, Slots
  <2>6. \A k : FreeAt(store2, freeList2, k) = FreeAt(store, freeList, k)
    BY <2>3, <2>4 DEF FreeAt
  <2>7. FreeListed(store2, freeList2)
    BY <2>3, <2>4, <2>6 DEF StoreOK, StagedOK, FreeListed
  <2>9. RefsCovered(store2, held2)
    <3>1. ASSUME NEW i \in 0 .. c - 1
          PROVE  /\ held2[i] > 0 => ~ IsBlank(store.block, i)
                 /\ ~ IsBlank(store.block, i) => held2[i] <= refs[i]
      <4>1. /\ held[i] > 0 => ~ IsBlank(store.block, i)
            /\ ~ IsBlank(store.block, i) => held[i] <= store.ref_counts[i]
        BY <1>1 DEF StoreOK, StagedOK, RefsCovered
      <4>2. CASE i = surr
        <5>1. held2[i] = held[i] - 1 /\ refs[i] = store.ref_counts[i] - 1
          BY <1>4, <2>2, <4>2
        <5> QED
          BY <1>3, <4>2, <5>1
      <4>3. CASE i # surr
        <5>1. held2[i] = held[i] /\ refs[i] = store.ref_counts[i]
          BY <1>4, <2>2, <4>3
        <5> QED
          BY <4>1, <5>1
      <4> QED
        BY <4>2, <4>3
    <3>2. Slots(store2.block) = 0 .. c - 1
      BY <1>1, <2>3
    <3> QED
      BY <2>3, <3>1, <3>2 DEF RefsCovered
  <2> QED
    BY <2>5, <2>7, <2>9 DEF StoreOK, StagedOK
<1>6. CASE store.ref_counts[surr] = 1
  <2> DEFINE slotted == [store.block EXCEPT !.slots[surr] = store.first_free]
             block == hashtable_delete(slotted, surr)
  <2>1. store2 = [store EXCEPT !.block = block, !.first_free = surr, !.usage = @ - 1]
    BY <1>2, <1>6 DEF value_store_release
  <2>2. /\ store.block \in Block(c) /\ store.first_free \in Nat /\ store.usage \in 0 .. c
        /\ store.first_free \in Value \cup Nat
    <3> HIDE DEF c
    <3> QED
      BY <1>1 DEF Store
  <2>3. slotted \in Block(c) /\ slotted.slots = [store.block.slots EXCEPT ![surr] = store.first_free]
    <3>1. \A B \in Block(c), i \in 0 .. c - 1, v \in Value \cup Nat :
            /\ [B EXCEPT !.slots[i] = v] \in Block(c)
            /\ [B EXCEPT !.slots[i] = v].slots = [B.slots EXCEPT ![i] = v]
      BY <1>1, SetSlotOK
    <3>2. PICK first : first = store.first_free
      OBVIOUS
    <3>3. first \in Value \cup Nat /\ store.block \in Block(c) /\ surr \in 0 .. c - 1
      BY <1>2, <2>2, <3>2
    <3> HIDE DEF c, slotted
    <3>4. /\ [store.block EXCEPT !.slots[surr] = first] \in Block(c)
          /\ [store.block EXCEPT !.slots[surr] = first].slots = [store.block.slots EXCEPT ![surr] = first]
      BY <3>1, <3>3
    <3> QED
      BY <3>2, <3>4 DEF slotted
  <2>4. block \in Block(c) /\ block.slots = slotted.slots
    <3>1. \A B \in Block(c), i \in 0 .. c - 1 :
            hashtable_delete(B, i) \in Block(c) /\ hashtable_delete(B, i).slots = B.slots
      BY <1>1, HashDeleteOK
    <3> HIDE DEF c, slotted
    <3> QED
      BY <1>2, <2>3, <3>1
  <2>5. L < c /\ store.usage + L = c
    BY <1>1, <1>3, FreeListShort DEF StoreOK, StagedOK, FreeListed
  <2>6. store.usage - 1 \in 0 .. c
    BY <1>1, <2>2, <2>5
  <2> HIDE DEF slotted, block, c
  <2>7. /\ store2 \in Store(c) /\ store2.block = block /\ store2.usage = store.usage - 1
        /\ store2.first_free = surr /\ store2.ref_counts = store.ref_counts
    <3>1. surr \in 0 .. c
      BY <1>1, <1>2
    <3>2. /\ DOMAIN store = {"block", "usage", "first_free", "ref_counts"}
          /\ store.ref_counts \in [0 .. c - 1 -> Nat]
      BY <1>1 DEF Store
    <3>3. /\ store2.block = block /\ store2.usage = store.usage - 1
          /\ store2.first_free = surr /\ store2.ref_counts = store.ref_counts
      BY <2>1, <3>2
    <3>4. store2 = [block |-> block, usage |-> store.usage - 1, first_free |-> surr,
                    ref_counts |-> store.ref_counts]
      BY <2>1, <3>2
    <3> QED
      BY <2>4, <2>6, <3>1, <3>2, <3>3, <3>4 DEF Store
  <2>8. /\ store2.block.capacity = c
        /\ Slots(store2.block) = 0 .. c - 1
        /\ \A i \in 0 .. c - 1 : store2.block.slots[i] = IF i = surr THEN store.first_free
                                                        ELSE store.block.slots[i]
    <3>1. store2.block.capacity = c /\ store.block.slots \in [0 .. c - 1 -> Value \cup Nat]
      BY <2>2, <2>4, <2>7 DEF Block
    <3> QED
      BY <2>3, <2>4, <2>7, <3>1 DEF Slots
  <2>9. \A i \in 0 .. c - 1 : IsBlank(store2.block, i) <=> i = surr \/ IsBlank(store.block, i)
    BY <2>2, <2>8, ValueAssumption DEF IsBlank
  <2>10. freeList2 = <<surr>> \o freeList
    BY <1>2, <2>9 DEF Occupied
  <2>11. /\ freeList2 \in Seq(0 .. c - 1) /\ Len(freeList2) = L + 1
         /\ \A k \in 1 .. L + 1 : freeList2[k] = IF k = 1 THEN surr ELSE freeList[k - 1]
    <3>1. <<surr>> \in Seq(0 .. c - 1) /\ Len(<<surr>>) = 1 /\ <<surr>>[1] = surr
      BY <1>2
    <3>2. /\ <<surr>> \o freeList \in Seq(0 .. c - 1)
          /\ Len(<<surr>> \o freeList) = 1 + L
          /\ \A k \in 1 .. 1 + L : (<<surr>> \o freeList)[k] =
               IF k <= 1 THEN <<surr>>[k] ELSE freeList[k - 1]
      BY <1>1, <3>1, ConcatProperties
    <3>3. 1 + L = L + 1 /\ \A k \in 1 .. L + 1 : k <= 1 <=> k = 1
      BY <1>1
    <3> HIDE DEF L
    <3> QED
      BY <2>10, <3>1, <3>2, <3>3
  <2>12. ASSUME NEW k \in Pos PROVE FreeAt(store2, freeList2, k) = IF k = 1 THEN surr ELSE FreeAt(store, freeList, k - 1)
    <3>1. FreeAt(store2, freeList2, k) = IF k <= L + 1 THEN freeList2[k] ELSE c + (k - (L + 1) - 1)
      BY <2>8, <2>11 DEF FreeAt
    <3>2. CASE k <= L + 1
      <4>1. /\ k \in 1 .. L + 1
            /\ k # 1 => k - 1 <= L
        BY <1>1, <3>2 DEF Pos
      <4>2. FreeAt(store2, freeList2, k) = IF k = 1 THEN surr ELSE freeList[k - 1]
        BY <2>11, <3>1, <3>2, <4>1
      <4>3. k # 1 => FreeAt(store, freeList, k - 1) = freeList[k - 1]
        BY <4>1 DEF FreeAt
      <4> QED
        BY <4>2, <4>3
    <3>3. CASE ~ (k <= L + 1)
      <4>1. k # 1 /\ ~ (k - 1 <= L) /\ k - (L + 1) - 1 = (k - 1) - L - 1
        BY <1>1, <3>3 DEF Pos
      <4>2. FreeAt(store, freeList, k - 1) = c + ((k - 1) - L - 1)
        BY <4>1 DEF FreeAt, c
      <4> QED
        BY <3>1, <3>3, <4>1, <4>2
    <3> QED
      BY <3>2, <3>3
  <2>13. StoreTyped(store2, held2, freeList2)
    BY <1>1, <1>2, <1>4, <2>7, <2>8, <2>11 DEF StoreOK, StagedOK, StoreTyped, UpdatesTyped
  <2>15. RefsCovered(store2, held2)
    <3>1. ASSUME NEW i \in 0 .. c - 1
          PROVE  /\ held2[i] > 0 => ~ IsBlank(store2.block, i)
                 /\ ~ IsBlank(store2.block, i) => held2[i] <= store2.ref_counts[i]
      <4>1. /\ held[i] > 0 => ~ IsBlank(store.block, i)
            /\ ~ IsBlank(store.block, i) => held[i] <= store.ref_counts[i]
        BY <1>1 DEF StoreOK, StagedOK, RefsCovered
      <4>2. CASE i = surr
        <5>1. held2[i] = 0 /\ IsBlank(store2.block, i)
          BY <1>2, <1>3, <1>4, <1>6, <2>9, <4>2
        <5> QED
          BY <5>1
      <4>3. CASE i # surr
        <5>1. held2[i] = held[i] /\ (IsBlank(store2.block, i) <=> IsBlank(store.block, i))
          BY <1>4, <2>9, <4>3
        <5> QED
          BY <2>7, <4>1, <5>1
      <4> QED
        BY <4>2, <4>3
    <3> QED
      BY <2>8, <3>1 DEF RefsCovered
  <2>16. FreeListed(store2, freeList2)
    <3>1. \A k \in 1 .. L : freeList[k] # surr /\ freeList[k] \in 0 .. c - 1
      <4>1. \A k \in 1 .. L : freeList[k] \in 0 .. c - 1
        BY <1>1, ElementOfSeq
      <4>2. ~ \E k \in 1 .. L : freeList[k] = surr
        BY <1>3 DEF StoreOK, StagedOK, FreeListed
      <4> QED
        BY <4>1, <4>2
    <3>2. \A j, k \in 1 .. L + 1 : freeList2[j] = freeList2[k] => j = k
      <4>1. \A k \in 1 .. L + 1 : k # 1 => k - 1 \in 1 .. L
        BY <1>1
      <4>2. \A j, k \in 1 .. L : freeList[j] = freeList[k] => j = k
        BY DEF StoreOK, StagedOK, FreeListed
      <4> TAKE j, k \in 1 .. L + 1
      <4>3. CASE j = 1 \/ k = 1
        BY <2>11, <3>1, <4>1, <4>3
      <4>4. CASE j # 1 /\ k # 1
        <5>1. freeList2[j] = freeList[j - 1] /\ freeList2[k] = freeList[k - 1]
          BY <2>11, <4>4
        <5>2. freeList2[j] = freeList2[k] => j - 1 = k - 1
          BY <4>1, <4>2, <4>4, <5>1
        <5> QED
          BY <5>2
      <4> QED
        BY <4>3, <4>4
    <3>3. ASSUME NEW i \in 0 .. c - 1
          PROVE  IsBlank(store2.block, i) <=> \E k \in 1 .. L + 1 : freeList2[k] = i
      <4>1. IsBlank(store.block, i) <=> \E k \in 1 .. L : freeList[k] = i
        BY <1>1 DEF StoreOK, StagedOK, FreeListed
      <4>2. \A k \in 1 .. L : k + 1 \in 1 .. L + 1 /\ freeList2[k + 1] = freeList[k]
        <5>1. L \in Nat
          BY <1>1
        <5>2. \A k \in 1 .. L : k + 1 \in 1 .. L + 1 /\ k + 1 # 1 /\ (k + 1) - 1 = k
          BY <5>1
        <5> HIDE DEF L
        <5> QED
          BY <2>11, <5>2
      <4>3. 1 \in 1 .. L + 1 /\ freeList2[1] = surr
        BY <1>1, <2>11
      <4>4. \A k \in 1 .. L + 1 : k = 1 \/ (k - 1 \in 1 .. L /\ freeList2[k] = freeList[k - 1])
        BY <1>1, <2>11
      <4> QED
        BY <2>9, <4>1, <4>2, <4>3, <4>4
    <3>4. store2.first_free = FreeAt(store2, freeList2, 1)
      BY <2>7, <2>12 DEF Pos
    <3>5. ASSUME NEW k \in 1 .. L + 1
          PROVE  store2.block.slots[freeList2[k]] = FreeAt(store2, freeList2, k + 1)
      <4>1. k + 1 \in Pos /\ k + 1 # 1 /\ (k + 1) - 1 = k
        BY <1>1 DEF Pos
      <4>2. FreeAt(store2, freeList2, k + 1) = FreeAt(store, freeList, k)
        BY <2>12, <4>1
      <4>3. CASE k = 1
        <5>1. store.first_free = FreeAt(store, freeList, 1)
          BY DEF StoreOK, StagedOK, FreeListed
        <5> QED
          BY <1>2, <2>8, <2>11, <4>2, <4>3, <5>1
      <4>4. CASE k # 1
        <5>1. k - 1 \in 1 .. L /\ (k - 1) + 1 = k
          BY <1>1, <4>4
        <5>2. store.block.slots[freeList[k - 1]] = FreeAt(store, freeList, k)
          BY <5>1 DEF StoreOK, StagedOK, FreeListed
        <5> QED
          BY <2>8, <2>11, <3>1, <4>2, <4>4, <5>1, <5>2
      <4> QED
        BY <4>3, <4>4
    <3>6. store2.usage + (L + 1) = c
      <4>1. c \in Nat /\ L \in Nat /\ store.usage \in Nat
        BY <1>1, <2>2
      <4> HIDE DEF L
      <4> QED
        BY <2>5, <2>7, <4>1
    <3> QED
      BY <2>8, <2>11, <3>2, <3>3, <3>4, <3>5, <3>6 DEF FreeListed
  <2> QED
    BY <2>13, <2>15, <2>16 DEF StoreOK, StagedOK
<1> QED
  BY <1>5, <1>6

-----------------------------------------------------------------------------
(***************************************************************************)
(* What makes the hash tables right: the values stored, and those staged,  *)
(* are keys, and no value is both.                                         *)
(***************************************************************************)

StoreKeyed(store) == store.block.capacity # 0 /\ Keyed(store.block)

StagedKeyed(store, updates) ==
  /\ Keyed(updates.block)
  /\ Occupied(updates.block) = 0 .. updates.count - 1
  /\ \A i \in Occupied(store.block) : \A j \in Occupied(updates.block) :
       store.block.slots[i] # updates.block.slots[j]

\* The types that the other parts of the invariant give.
LEMMA HashTypes ==
  ASSUME NEW store, NEW held, NEW freeList, NEW updates,
         StoreOK(store, held, freeList), StagedOK(store, updates, freeList)
  PROVE  /\ store.block.capacity \in Nat /\ store \in Store(store.block.capacity)
         /\ store.block \in Block(store.block.capacity)
         /\ updates.block.capacity \in Nat /\ updates \in Updates(updates.block.capacity)
         /\ updates.block \in Block(updates.block.capacity)
         /\ updates.count \in 0 .. updates.block.capacity
         /\ Len(updates.surrs) = updates.count
         /\ \A k \in 1 .. updates.count : updates.surrs[k] \in Nat
<1>1. /\ store.block.capacity \in Nat /\ store \in Store(store.block.capacity)
      /\ updates.block.capacity \in Nat /\ updates \in Updates(updates.block.capacity)
      /\ Len(updates.surrs) = updates.count
  BY DEF StoreOK, StagedOK, StoreTyped, UpdatesTyped
<1>2. store.block \in Block(store.block.capacity)
  BY <1>1 DEF Store
<1>3. /\ updates.block \in Block(updates.block.capacity) /\ updates.surrs \in Seq(Nat)
      /\ updates.count \in 0 .. updates.block.capacity
  BY <1>1 DEF Updates
<1>4. \A k \in 1 .. updates.count : updates.surrs[k] \in Nat
  BY <1>1, <1>3
<1> QED
  BY <1>1, <1>2, <1>3, <1>4

\* The empty store and update have right hash tables.
LEMMA HashInit ==
  ASSUME NEW store, store = value_store_init
  PROVE  StoreKeyed(store)
<1>1. store.block = hashtable_clear(INIT_SIZE)
  BY DEF value_store_init
<1>2. INIT_SIZE \in Nat /\ INIT_SIZE # 0
  BY SizeAssumption
<1>3. Keyed(store.block)
  BY <1>1, <1>2, ClearKeyed
<1>4. store.block.capacity = INIT_SIZE
  BY <1>1 DEF hashtable_clear
<1> QED
  BY <1>2, <1>3, <1>4 DEF StoreKeyed

\* So has a new update.
LEMMA HashUpdatesInit ==
  ASSUME NEW store, NEW updates, updates = value_store_updates_init
  PROVE  StagedKeyed(store, updates)
<1> DEFINE zero == 0
<1>1. updates.count = 0 /\ updates.block = hashtable_clear(zero)
  BY DEF value_store_updates_init
<1>2. Keyed(updates.block) /\ Occupied(updates.block) = {}
  <2>1. zero \in Nat
    OBVIOUS
  <2> HIDE DEF zero
  <2> QED
    BY <1>1, <2>1, ClearKeyed
<1>3. 0 .. updates.count - 1 = {}
  BY <1>1
<1> QED
  BY <1>1, <1>2, <1>3 DEF StagedKeyed

\* What lookup_value finds.
LEMMA LookupValue ==
  ASSUME NEW store, NEW held, NEW freeList, StoreOK(store, held, freeList), StoreKeyed(store), NEW value \in Value
  PROVE  \/ /\ lookup_value(store, value) \in Occupied(store.block)
            /\ store.block.slots[lookup_value(store, value)] = value
         \/ /\ lookup_value(store, value) = -1
            /\ \A i \in Occupied(store.block) : store.block.slots[i] # value
<1>1. store.block.capacity \in Nat /\ store.block \in Block(store.block.capacity)
  BY DEF StoreOK, StoreTyped, Store
<1> QED
  BY <1>1, LookupKeyed DEF StoreKeyed, lookup_value

\* The surrogate promised to the next staged value and the one after it.
LEMMA StagedSurrogate ==
  ASSUME NEW store, NEW held, NEW freeList, NEW updates,
         StoreOK(store, held, freeList), StagedOK(store, updates, freeList)
  PROVE  /\ NextSurr(store, updates) \in Nat
         /\ NextFree(store, NextSurr(store, updates)) \in Nat
<1> DEFINE t == updates.count
<1>1. t \in Nat
  BY HashTypes
<1>2. /\ \A k \in Pos : FreeAt(store, freeList, k) \in Nat
      /\ \A k \in Pos : NextFree(store, FreeAt(store, freeList, k)) = FreeAt(store, freeList, k + 1)
  BY ChainFacts DEF StoreOK, StagedOK
<1>3. NextSurr(store, updates) = FreeAt(store, freeList, t + 1)
  <2>1. CASE t = 0
    BY <2>1 DEF NextSurr, FreeListed, StoreOK, StagedOK
  <2>2. CASE t # 0
    BY <1>1, <2>2 DEF NextSurr, Promised, StoreOK, StagedOK
  <2> QED
    BY <2>1, <2>2
<1>4. t + 1 \in Pos /\ (t + 1) + 1 \in Pos
  BY <1>1 DEF Pos
<1> HIDE DEF t
<1> QED
  BY <1>2, <1>3, <1>4

\* Staging a value keeps the chains of the store and of the update right.
LEMMA InsertKeyed ==
  ASSUME NEW store, NEW held, NEW freeList, NEW updates,
         StoreOK(store, held, freeList), StagedOK(store, updates, freeList),
         StoreKeyed(store), StagedKeyed(store, updates), NEW value \in Value,
         lookup_value_ex(store, updates, value) = -1,
         NEW updates2, updates2 = value_store_insert(store, updates, value)
  PROVE  StagedKeyed(store, updates2)
<1> DEFINE n == updates.block.capacity
           u == value_store_insert(store, updates, value)
<1>1. /\ lookup_value_ex(store, updates, value) = -1 /\ updates2 = u
  OBVIOUS
<1>2. lookup_value(store, value) = -1
  BY <1>1 DEF lookup_value_ex
<1>3. \A i \in Occupied(store.block) : store.block.slots[i] # value
  <2>1. -1 \notin Occupied(store.block)
    BY DEF Occupied, Slots
  <2> QED
    BY <1>2, <2>1, LookupValue
<1>4. \A i \in Occupied(updates.block) : updates.block.slots[i] # value
  <2>1. CASE n = 0
    <3>1. Occupied(updates.block) = {}
      BY <2>1, HashTypes, OccupiedFacts
    <3> QED
      BY <3>1
  <2>2. CASE n # 0
    <3> DEFINE index == hashtable_lookup(updates.block, value)
    <3>1. \/ index \in Occupied(updates.block)
          \/ index = -1 /\ \A i \in Occupied(updates.block) : updates.block.slots[i] # value
      BY <2>2, HashTypes, LookupKeyed DEF StoreKeyed, StagedKeyed
    <3>2. ASSUME index \in Occupied(updates.block) PROVE FALSE
      <4>1. index \in 0 .. updates.count - 1 /\ updates.count \in Nat /\ n \in Nat
        BY <3>2, HashTypes DEF StoreKeyed, StagedKeyed
      <4>2. updates.surrs[index + 1] = -1
        <5>1. index >= 0 /\ n > 0
          BY <4>1, <2>2
        <5> HIDE DEF index
        <5> QED
          BY <5>1, <1>1, <1>2 DEF lookup_value_ex, index
      <4>3. index + 1 \in 1 .. updates.count
        <5> HIDE DEF index
        <5> QED
          BY <4>1
      <4> HIDE DEF index
      <4> QED
        BY <4>2, <4>3, HashTypes
    <3> QED
      BY <3>1, <3>2
  <2> QED
    BY <2>1, <2>2
<1>5. /\ Keyed(u.block) /\ Occupied(u.block) = 0 .. updates.count
      /\ u.count = updates.count + 1
      /\ u.block.slots[updates.count] = value
      /\ \A i \in 0 .. updates.count - 1 : u.block.slots[i] = updates.block.slots[i]
  <2>1. /\ n \in Nat /\ updates \in Updates(n) /\ Keyed(updates.block)
        /\ Occupied(updates.block) = 0 .. updates.count - 1
    BY HashTypes DEF StoreKeyed, StagedKeyed
  <2>2. Keyed(u.block) /\ Occupied(u.block) = 0 .. updates.count
    <3> HIDE DEF n
    <3> QED
      BY <2>1, <1>4, StageKeyed
  <2>3. /\ NextSurr(store, updates) \in Nat
        /\ NextFree(store, NextSurr(store, updates)) \in Nat
    BY <1>1, StagedSurrogate
  <2>4. /\ u.count = updates.count + 1
        /\ u.block.slots[updates.count] = value
        /\ \A i \in 0 .. updates.count - 1 : u.block.slots[i] = updates.block.slots[i]
    <3>1. /\ store.block.capacity \in Nat /\ store \in Store(store.block.capacity)
          /\ n \in Nat /\ updates \in Updates(n) /\ Len(updates.surrs) = updates.count
      BY HashTypes
    <3> HIDE DEF n, u
    <3> QED
      BY <2>3, <3>1, StageOK DEF u
  <2> QED
    BY <2>2, <2>4
<1> HIDE DEF u
<1>6. /\ updates.count \in Nat /\ (updates.count + 1) - 1 = updates.count
      /\ Occupied(updates.block) = 0 .. updates.count - 1
  BY HashTypes DEF StoreKeyed, StagedKeyed
<1>7. ASSUME NEW i \in Occupied(store.block), NEW j \in Occupied(u.block)
      PROVE  store.block.slots[i] # u.block.slots[j]
  <2>1. CASE j = updates.count
    BY <2>1, <1>3, <1>5
  <2>2. CASE j # updates.count
    <3>1. j \in 0 .. updates.count - 1
      BY <2>2, <1>5, <1>6
    <3> QED
      BY <3>1, <1>1, <1>5, <1>6 DEF StoreKeyed, StagedKeyed
  <2> QED
    BY <2>1, <2>2
<1>8. /\ Keyed(updates2.block) /\ Occupied(updates2.block) = 0 .. updates2.count - 1
  BY <1>1, <1>5, <1>6
<1>9. \A i \in Occupied(store.block) : \A j \in Occupied(updates2.block) :
        store.block.slots[i] # updates2.block.slots[j]
  BY <1>1, <1>7
<1> QED
  BY <1>1, <1>8, <1>9 DEF StoreKeyed, StagedKeyed

\* Applying an update puts its values into the chains of the store.
LEMMA ApplyKeepsKeyed ==
  ASSUME NEW store, NEW held, NEW freeList, NEW updates,
         StoreOK(store, held, freeList), StagedOK(store, updates, freeList),
         StoreKeyed(store), StagedKeyed(store, updates),
         NEW store2, store2 = value_store_apply(store, updates)
  PROVE  StoreKeyed(store2)
<1> DEFINE c == store.block.capacity
           m == updates.block.capacity
           t == updates.count
           s == value_store_apply(store, updates)
<1>1. store2 = s
  OBVIOUS
<1>2. /\ c \in Nat /\ store \in Store(c) /\ m \in Nat /\ updates \in Updates(m)
      /\ Len(updates.surrs) = t /\ t \in 0 .. m
      /\ \A k \in 1 .. t : updates.surrs[k] \in Nat
      /\ Slots(store.block) = 0 .. c - 1 /\ Occupied(store.block) \in SUBSET (0 .. c - 1)
  BY HashTypes, OccupiedFacts
<1>3. /\ s.block.capacity \in Nat /\ s.block.capacity >= c
  BY <1>1, AppliedStore
<1>4. Keyed(s.block)
  <2>1. CASE m = 0
    <3>1. s = store
      BY <2>1 DEF value_store_apply
    <3> QED
      BY <3>1 DEF StoreKeyed, StagedKeyed
  <2>2. CASE m # 0
    <3> DEFINE d == Grow(store, store.usage + t).block.capacity
               L == Len(freeList)
    <3>1. /\ \A k \in 1 .. t : updates.surrs[k] = FreeAt(store, freeList, k)
      BY <1>1 DEF StoreOK, StagedOK, Promised
    <3>2. /\ L \in Nat
          /\ \A k \in Pos : FreeAt(store, freeList, k) \in Nat /\ (FreeAt(store, freeList, k) < c <=> k <= L)
          /\ \A k \in Pos : k <= L => IsBlank(store.block, FreeAt(store, freeList, k))
          /\ \A j, k \in Pos : FreeAt(store, freeList, j) = FreeAt(store, freeList, k) => j = k
      BY ChainFacts DEF StoreOK, StagedOK
    <3>3. \A k \in 1 .. t : k \in Pos
      BY <1>2 DEF Pos
    <3>4. \A j, k \in 1 .. t : updates.surrs[j] = updates.surrs[k] => j = k
      BY <3>1, <3>2, <3>3
    <3>5. ASSUME NEW k \in 1 .. t PROVE updates.surrs[k] \notin Occupied(store.block)
      <4>1. updates.surrs[k] = FreeAt(store, freeList, k) /\ k \in Pos
        BY <3>1, <3>3
      <4>2. CASE k <= L
        BY <4>1, <4>2, <3>2 DEF Occupied
      <4>3. CASE ~ (k <= L)
        <5>1. ~ (FreeAt(store, freeList, k) < c) /\ FreeAt(store, freeList, k) \in Nat
          BY <4>1, <4>3, <3>2
        <5>2. FreeAt(store, freeList, k) \notin 0 .. c - 1
          <6> HIDE DEF c
          <6> QED
            BY <5>1, <1>2
        <5> QED
          BY <4>1, <5>2, <1>2
      <4> QED
        BY <4>2, <4>3
    <3>6. d = s.block.capacity /\ \A k \in 1 .. t : updates.surrs[k] < d
      <4>1. \A k \in 1 .. t : FreeAt(store, freeList, k) < s.block.capacity
        BY <1>1, AppliedStore
      <4>2. d = s.block.capacity
        <5> HIDE DEF c, m
        <5> QED
          BY <1>2, <2>2, ApplyCapacity
      <4> QED
        BY <3>1, <4>1, <4>2
    <3>7. \A i \in Occupied(store.block) : \A j \in Occupied(updates.block) :
            store.block.slots[i] # updates.block.slots[j]
      BY <1>1 DEF StoreKeyed, StagedKeyed
    <3>8. Keyed(store.block) /\ Keyed(updates.block) /\ Occupied(updates.block) = 0 .. t - 1
      BY DEF StoreKeyed, StagedKeyed
    <3>9. d \in Nat
      BY <1>3, <3>6
    <3> HIDE DEF c, m, s
    <3> QED
      BY <1>2, <2>2, <3>4, <3>5, <3>6, <3>7, <3>8, <3>9, ApplyKeyed DEF s
  <2> QED
    BY <2>1, <2>2
<1>5. s.block.capacity # 0
  <2>1. c # 0
    BY DEF StoreKeyed, StagedKeyed
  <2> HIDE DEF s, c
  <2> QED
    BY <2>1, <1>2, <1>3
<1> QED
  BY <1>1, <1>4, <1>5 DEF StoreKeyed, StagedKeyed

\* Releasing a slot takes its value out of the chain when the slot is freed.
LEMMA ReleaseKeyed ==
  ASSUME NEW store, NEW held, NEW freeList, StoreOK(store, held, freeList), StoreKeyed(store),
         NEW surr \in Slots(store.block), held[surr] > 0,
         NEW store2, store2 = value_store_release(store, surr)
  PROVE  StoreKeyed(store2)
<1> DEFINE c == store.block.capacity
<1>1. /\ c \in Nat /\ store \in Store(c) /\ store.block \in Block(c)
      /\ Slots(store.block) = 0 .. c - 1 /\ surr \in 0 .. c - 1
      /\ store.first_free \in Nat
  <2>1. /\ c \in Nat /\ store \in Store(c) /\ store.block \in Block(c)
        /\ Slots(store.block) = 0 .. c - 1
    <3>1. c \in Nat /\ store \in Store(c)
      BY DEF StoreOK, StoreTyped
    <3> HIDE DEF c
    <3>2. store.block \in Block(c)
      BY <3>1 DEF Store
    <3> QED
      BY <3>1, <3>2, OccupiedFacts
  <2>2. store.first_free \in 0 .. c
    <3> HIDE DEF c
    <3> QED
      BY <2>1 DEF Store
  <2> QED
    BY <2>1, <2>2
<1>2. /\ store2 = value_store_release(store, surr) /\ held[surr] > 0
  OBVIOUS
<1>3. surr \in Occupied(store.block)
  BY <1>1, <1>2 DEF StoreOK, StagedOK, RefsCovered, Occupied
<1>4. c # 0 /\ Keyed(store.block)
  BY DEF StoreKeyed, StagedKeyed
<1>5. CASE store.ref_counts[surr] # 1
  <2>1. store2.block = store.block
    <3>1. store2 = [store EXCEPT !.ref_counts[surr] = @ - 1]
      BY <1>2, <1>5 DEF value_store_release
    <3> HIDE DEF c
    <3> QED
      BY <1>1, <3>1 DEF Store
  <2> QED
    BY <1>2, <2>1 DEF StoreKeyed, StagedKeyed
<1>6. CASE store.ref_counts[surr] = 1
  <2> DEFINE new == hashtable_delete([store.block EXCEPT !.slots[surr] = store.first_free], surr)
  <2>1. Keyed(new)
    <3> HIDE DEF c
    <3> QED
      BY <1>1, <1>3, <1>4, DeleteKeyed
  <2>2. new \in Block(c)
    <3> DEFINE cut == [store.block EXCEPT !.slots[surr] = store.first_free]
    <3>1. cut \in Block(c)
      <4> HIDE DEF c
      <4> QED
        BY <1>1, SetSlotOK
    <3> HIDE DEF c, cut
    <3> QED
      BY <3>1, <1>1, HashDeleteOK DEF cut
  <2> HIDE DEF new
  <2>3. store2.block = new
    <3>1. store2 = [store EXCEPT !.block = new, !.first_free = surr, !.usage = @ - 1]
      BY <1>2, <1>6 DEF value_store_release, new
    <3> HIDE DEF c
    <3> QED
      BY <1>1, <3>1 DEF Store
  <2>4. new.capacity = c
    BY <2>2 DEF Block
  <2> HIDE DEF c
  <2> QED
    BY <1>2, <1>4, <2>1, <2>3, <2>4 DEF StoreKeyed, StagedKeyed
<1> QED
  BY <1>5, <1>6

-----------------------------------------------------------------------------
(***************************************************************************)
(* Counting a reference, and what releasing one leaves alone.              *)
(***************************************************************************)

\* A reference that is counted is one that may be held.
LEMMA AddRefKeeps ==
  ASSUME NEW store, NEW held, NEW freeList, StoreOK(store, held, freeList),
         NEW surr \in Occupied(store.block),
         NEW store2, store2 = value_store_add_ref(store, surr),
         NEW held2, held2 = [held EXCEPT ![surr] = @ + 1]
  PROVE  StoreOK(store2, held2, freeList) /\ store2.block = store.block
<1> DEFINE c == store.block.capacity
<1>1. /\ c \in Nat /\ store \in Store(c) /\ Slots(store.block) = 0 .. c - 1
      /\ held \in [0 .. c - 1 -> Nat] /\ surr \in 0 .. c - 1 /\ ~ IsBlank(store.block, surr)
      /\ freeList \in Seq(0 .. c - 1)
  BY DEF StoreOK, StoreTyped, Slots, Occupied
<1>2. /\ store2 = [store EXCEPT !.ref_counts[surr] = @ + 1]
      /\ store2.block = store.block /\ store2.usage = store.usage
      /\ store2.first_free = store.first_free
  <2> HIDE DEF c
  <2> QED
    BY <1>1 DEF value_store_add_ref, Store
<1>3. store.ref_counts \in [0 .. c - 1 -> Nat]
  <2> HIDE DEF c
  <2> QED
    BY <1>1 DEF Store
<1>4. /\ store2.ref_counts = [store.ref_counts EXCEPT ![surr] = @ + 1]
      /\ store2.ref_counts \in [0 .. c - 1 -> Nat]
      /\ store2 \in Store(c)
  <2>1. store2.ref_counts = [store.ref_counts EXCEPT ![surr] = @ + 1]
    <3> HIDE DEF c
    <3> QED
      BY <1>1, <1>2 DEF Store
  <2>2. store2.ref_counts \in [0 .. c - 1 -> Nat]
    <3> HIDE DEF c
    <3>1. store.ref_counts[surr] \in Nat
      BY <1>1, <1>3
    <3>2. \A S : \A f \in [S -> Nat] : \A n \in Nat : [f EXCEPT ![surr] = n] \in [S -> Nat]
      OBVIOUS
    <3>3. PICK n \in Nat : n = store.ref_counts[surr] + 1
      BY <3>1
    <3>4. store2.ref_counts = [store.ref_counts EXCEPT ![surr] = n]
      BY <2>1, <3>3
    <3> QED
      BY <1>3, <3>2, <3>4
  <2>3. store2 = [store EXCEPT !.ref_counts = store2.ref_counts]
    <3> HIDE DEF c
    <3> QED
      BY <1>1, <1>2, <2>1 DEF Store
  <2>4. store2 \in Store(c)
    <3> DEFINE counts == store2.ref_counts
    <3> HIDE DEF c, counts
    <3>1. [store EXCEPT !.ref_counts = counts] \in Store(c)
      BY <1>1, <2>2 DEF Store, counts
    <3> QED
      BY <2>3, <3>1 DEF counts
  <2> QED
    BY <2>1, <2>2, <2>4
<1>5. StoreTyped(store2, held2, freeList)
  <2>1. held2 \in [0 .. c - 1 -> Nat]
    BY <1>1
  <2> QED
    BY <1>1, <1>2, <1>4, <2>1 DEF StoreTyped
<1>6. FreeListed(store2, freeList)
  <2>1. \A k : FreeAt(store2, freeList, k) = FreeAt(store, freeList, k)
    BY <1>2 DEF FreeAt
  <2> QED
    BY <1>2, <2>1 DEF StoreOK, FreeListed
<1>7. RefsCovered(store2, held2)
  <2> SUFFICES ASSUME NEW i \in 0 .. c - 1
               PROVE  /\ held2[i] > 0 => ~ IsBlank(store.block, i)
                      /\ ~ IsBlank(store.block, i) => held2[i] <= store2.ref_counts[i]
    BY <1>1, <1>2 DEF RefsCovered
  <2>1. /\ held[i] > 0 => ~ IsBlank(store.block, i)
        /\ ~ IsBlank(store.block, i) => held[i] <= store.ref_counts[i]
    BY <1>1 DEF StoreOK, RefsCovered
  <2>2. CASE i = surr
    <3>1. /\ held2[i] = held[i] + 1 /\ store2.ref_counts[i] = store.ref_counts[i] + 1
          /\ held[i] \in Nat /\ store.ref_counts[i] \in Nat
      BY <1>1, <1>3, <1>4, <2>2
    <3> QED
      BY <1>1, <2>1, <2>2, <3>1
  <2>3. CASE i # surr
    BY <1>1, <1>3, <1>4, <2>1, <2>3
  <2> QED
    BY <2>2, <2>3
<1> QED
  BY <1>2, <1>5, <1>6, <1>7 DEF StoreOK

\* Releasing a reference changes no slot another reference is held to, and
\* none at all if the surrogate has more than the one released.
LEMMA ReleaseSlots ==
  ASSUME NEW store, NEW held, NEW freeList, StoreOK(store, held, freeList),
         NEW surr \in Slots(store.block), held[surr] > 0,
         NEW store2, store2 = value_store_release(store, surr)
  PROVE  /\ store2.block.capacity = store.block.capacity
         /\ \A i \in Slots(store.block) :
              i # surr \/ held[surr] > 1 => store2.block.slots[i] = store.block.slots[i]
<1> DEFINE c == store.block.capacity
<1>1. /\ c \in Nat /\ store \in Store(c) /\ Slots(store.block) = 0 .. c - 1
      /\ held \in [0 .. c - 1 -> Nat] /\ surr \in 0 .. c - 1
  BY DEF StoreOK, StoreTyped, Slots
<1>2. ~ IsBlank(store.block, surr) /\ held[surr] <= store.ref_counts[surr]
  BY DEF StoreOK, RefsCovered
<1>3. CASE store.ref_counts[surr] # 1
  <2>1. store2.block = store.block
    <3>1. store2 = [store EXCEPT !.ref_counts[surr] = @ - 1]
      BY <1>3 DEF value_store_release
    <3> HIDE DEF c
    <3> QED
      BY <1>1, <3>1 DEF Store
  <2> QED
    BY <2>1
<1>4. CASE store.ref_counts[surr] = 1
  <2> DEFINE slotted == [store.block EXCEPT !.slots[surr] = store.first_free]
  <2>1. ~ (held[surr] > 1)
    BY <1>1, <1>2, <1>4
  <2>2. store2.block = hashtable_delete(slotted, surr)
    <3>1. store2 = [store EXCEPT !.block = hashtable_delete(slotted, surr),
                                 !.first_free = surr, !.usage = @ - 1]
      BY <1>4 DEF value_store_release
    <3> HIDE DEF c, slotted
    <3> QED
      BY <1>1, <3>1 DEF Store
  <2>3. store.block \in Block(c) /\ store.first_free \in Value \cup Nat
    <3> HIDE DEF c
    <3> QED
      BY <1>1 DEF Store
  <2>4. /\ slotted \in Block(c)
        /\ slotted.slots = [store.block.slots EXCEPT ![surr] = store.first_free]
    <3>1. \A B \in Block(c), j \in 0 .. c - 1, v \in Value \cup Nat :
            /\ [B EXCEPT !.slots[j] = v] \in Block(c)
            /\ [B EXCEPT !.slots[j] = v].slots = [B.slots EXCEPT ![j] = v]
      BY <1>1, SetSlotOK
    <3> HIDE DEF c
    <3> QED
      BY <1>1, <2>3, <3>1
  <2>5. hashtable_delete(slotted, surr).slots = slotted.slots
    <3>1. \A B \in Block(c), j \in 0 .. c - 1 : hashtable_delete(B, j).slots = B.slots
      BY <1>1, HashDeleteOK
    <3> HIDE DEF c, slotted
    <3> QED
      BY <1>1, <2>4, <3>1
  <2>6. store2.block.capacity = c
    <3>1. \A B \in Block(c), j \in 0 .. c - 1 : hashtable_delete(B, j) \in Block(c)
      BY <1>1, HashDeleteOK
    <3> HIDE DEF c, slotted
    <3>2. store2.block \in Block(c)
      BY <1>1, <2>2, <2>4, <3>1
    <3> QED
      BY <3>2 DEF Block
  <2>7. store.block.slots \in [0 .. c - 1 -> Value \cup Nat]
    <3> HIDE DEF c
    <3> QED
      BY <2>3 DEF Block
  <2>8. \A i \in 0 .. c - 1 : i # surr => store2.block.slots[i] = store.block.slots[i]
    <3> HIDE DEF slotted, c
    <3> QED
      BY <2>2, <2>4, <2>5, <2>7
  <2> HIDE DEF slotted
  <2> QED
    BY <1>1, <2>1, <2>6, <2>8
<1> QED
  BY <1>3, <1>4

\* Applying an update puts what was staged where it was promised and leaves
\* the values that are stored where they are.
LEMMA ApplySlots ==
  ASSUME NEW store, NEW held, NEW freeList, NEW updates,
         StoreOK(store, held, freeList), StagedOK(store, updates, freeList),
         NEW store2, store2 = value_store_apply(store, updates)
  PROVE  /\ store2.block.capacity \in Nat /\ store2.block.capacity >= store.block.capacity
         /\ \A i \in Occupied(store.block) :
              i \in Occupied(store2.block) /\ store2.block.slots[i] = store.block.slots[i]
         /\ \A k \in 1 .. updates.count :
              /\ updates.surrs[k] \in Occupied(store2.block)
              /\ updates.surrs[k] \notin Occupied(store.block)
              /\ store2.block.slots[updates.surrs[k]] = updates.block.slots[k - 1]
         /\ \A i \in Occupied(store2.block) :
              i \in Occupied(store.block) \/ \E k \in 1 .. updates.count : updates.surrs[k] = i
<1> DEFINE c == store.block.capacity
           d == store2.block.capacity
           t == updates.count
           L == Len(freeList)
<1>1. /\ c \in Nat /\ store \in Store(c) /\ Slots(store.block) = 0 .. c - 1 /\ t \in Nat
  BY HashTypes DEF Slots
<1>2. /\ d \in Nat /\ d >= c /\ store2 \in Store(d)
      /\ \A k \in 1 .. t : /\ FreeAt(store, freeList, k) < d
                           /\ FreeAt(store, freeList, k) = updates.surrs[k]
                           /\ store2.block.slots[FreeAt(store, freeList, k)] = updates.block.slots[k - 1]
                           /\ store2.block.slots[FreeAt(store, freeList, k)] \in Value
      /\ \A i \in 0 .. d - 1 :
           \/ \E k \in 1 .. t : FreeAt(store, freeList, k) = i
           \/ store2.block.slots[i] = IF i < c THEN store.block.slots[i] ELSE i + 1
  BY AppliedStore
<1>3. /\ \A k \in Pos : FreeAt(store, freeList, k) \in Nat
      /\ \A k \in Pos : FreeAt(store, freeList, k) < c <=> k <= L
      /\ \A k \in Pos : k <= L => IsBlank(store.block, FreeAt(store, freeList, k))
  BY ChainFacts
<1>4. \A k \in 1 .. t : k \in Pos
  BY <1>1 DEF Pos
<1>5. Slots(store2.block) = 0 .. d - 1 /\ Slots(store.block) = 0 .. c - 1
  BY DEF Slots
<1>6. ASSUME NEW i \in Occupied(store.block)
      PROVE  i \in Occupied(store2.block) /\ store2.block.slots[i] = store.block.slots[i]
  <2>1. i \in 0 .. c - 1 /\ ~ IsBlank(store.block, i) /\ i < c /\ i \in 0 .. d - 1
    <3>1. i \in 0 .. c - 1 /\ ~ IsBlank(store.block, i)
      BY <1>5 DEF Occupied
    <3> HIDE DEF c, d
    <3> QED
      BY <3>1, <1>1, <1>2
  <2>2. ~ \E k \in 1 .. t : FreeAt(store, freeList, k) = i
    BY <1>3, <1>4, <2>1
  <2>3. store2.block.slots[i] = store.block.slots[i]
    BY <1>2, <2>1, <2>2
  <2> QED
    BY <1>5, <2>1, <2>3 DEF Occupied, IsBlank
<1>7. ASSUME NEW k \in 1 .. t
      PROVE  /\ updates.surrs[k] \in Occupied(store2.block)
             /\ updates.surrs[k] \notin Occupied(store.block)
             /\ store2.block.slots[updates.surrs[k]] = updates.block.slots[k - 1]
  <2>1. PICK x \in Nat : x = updates.surrs[k] /\ x = FreeAt(store, freeList, k)
    BY <1>2, <1>3, <1>4
  <2>2. /\ x < d /\ store2.block.slots[x] = updates.block.slots[k - 1]
        /\ store2.block.slots[x] \in Value
    BY <1>2, <2>1
  <2>3. x \in 0 .. d - 1
    <3> HIDE DEF d
    <3> QED
      BY <1>2, <2>1, <2>2
  <2>4. x \in 0 .. c - 1 => IsBlank(store.block, x)
    <3>1. x \in 0 .. c - 1 => x < c
      BY <1>1
    <3> QED
      BY <1>3, <1>4, <2>1, <3>1
  <2> QED
    BY <1>5, <2>1, <2>2, <2>3, <2>4 DEF Occupied, IsBlank
<1>8. ASSUME NEW i \in Occupied(store2.block),
             ~ \E k \in 1 .. updates.count : updates.surrs[k] = i
      PROVE  i \in Occupied(store.block)
  <2>1. i \in 0 .. d - 1 /\ store2.block.slots[i] \in Value
    BY <1>5 DEF Occupied, IsBlank
  <2>2. store2.block.slots[i] = IF i < c THEN store.block.slots[i] ELSE i + 1
    BY <1>2, <1>8, <2>1
  <2>3. i < c
    <3> SUFFICES ASSUME ~ (i < c) PROVE FALSE
      OBVIOUS
    <3>1. i + 1 \in Nat /\ i + 1 \in Value
      BY <1>2, <2>1, <2>2
    <3> QED
      BY <3>1, ValueAssumption
  <2>4. i \in 0 .. c - 1
    <3> HIDE DEF c, d
    <3> QED
      BY <2>1, <2>3, <1>1, <1>2
  <2> QED
    BY <1>5, <2>1, <2>2, <2>3, <2>4 DEF Occupied, IsBlank
<1> QED
  BY <1>2, <1>6, <1>7, <1>8

\* A stored value is found in its slot.
LEMMA StoredFound ==
  ASSUME NEW store, NEW held, NEW freeList, StoreOK(store, held, freeList), StoreKeyed(store),
         NEW i \in Occupied(store.block)
  PROVE  lookup_value(store, store.block.slots[i]) = i
<1>1. store.block.capacity \in Nat /\ store.block \in Block(store.block.capacity)
  BY DEF StoreOK, StoreTyped, Store
<1> QED
  BY <1>1, LookupKeyed DEF StoreKeyed, lookup_value

\* A staged value is found under its surrogate.
LEMMA StagedFound ==
  ASSUME NEW store, NEW held, NEW freeList, NEW updates,
         StoreOK(store, held, freeList), StagedOK(store, updates, freeList),
         StoreKeyed(store), StagedKeyed(store, updates), NEW k \in 1 .. updates.count
  PROVE  lookup_value_ex(store, updates, updates.block.slots[k - 1]) = updates.surrs[k]
<1> DEFINE value == updates.block.slots[k - 1]
           n == updates.block.capacity
           index == hashtable_lookup(updates.block, value)
<1>1. /\ k - 1 \in Occupied(updates.block) /\ n \in Nat /\ n > 0 /\ k \in Nat /\ k - 1 >= 0
  <2>1. updates.count \in 0 .. n /\ n \in Nat
    BY HashTypes
  <2>2. k - 1 \in 0 .. updates.count - 1 /\ n > 0
    <3> HIDE DEF n
    <3> QED
      BY <2>1
  <2> QED
    BY <2>1, <2>2 DEF StagedKeyed
<1>2. value \in Value
  BY <1>1 DEF Occupied, IsBlank
<1>3. lookup_value(store, value) = -1
  <2>1. \A i \in Occupied(store.block) : store.block.slots[i] # value
    BY <1>1 DEF StagedKeyed
  <2> HIDE DEF value
  <2> QED
    BY <1>2, <2>1, LookupValue
<1>4. index = k - 1
  BY <1>1, HashTypes, LookupKeyed DEF StagedKeyed
<1> HIDE DEF value, index
<1>5. lookup_value_ex(store, updates, value) = updates.surrs[index + 1]
  BY <1>1, <1>3, <1>4 DEF lookup_value_ex, index
<1>6. index + 1 = k
  BY <1>1, <1>4
<1> QED
  BY <1>5, <1>6 DEF value
=============================================================================
