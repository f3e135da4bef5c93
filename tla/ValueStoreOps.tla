--------------------------- MODULE ValueStoreOps ---------------------------
(***************************************************************************)
(* The data structures of value-store.cpp and the operations on them, as   *)
(* functions from a state to the next one.  A value store interns values:  *)
(* each distinct value occupies one slot, and the index of the slot, its   *)
(* surrogate, is what the rows of the tables are made of.                  *)
(*                                                                         *)
(* The memory block of a store and that of a set of staged updates have    *)
(* the same layout and share the hashtable_* code, so both are modelled by *)
(* the record                                                              *)
(*   [capacity, slots, nodes, hashtable].                                  *)
(* A blank slot keeps the index of the next blank slot in the word where   *)
(* an occupied one keeps its value.                                        *)
(***************************************************************************)
EXTENDS Integers, Sequences, Powers

CONSTANTS
  Value,              \* the values that can be stored
  Hash,               \* compute_hash_code, with whatever collisions it has
  INIT_SIZE,          \* initial capacity of a store           (4 in the code)
  UPDATES_INIT_SIZE   \* initial capacity of staged updates   (32 in the code)

ASSUME ValueAssumption == Value \cap Nat = {}
ASSUME HashAssumption == Hash \in [Value -> Nat]
ASSUME SizeAssumption == /\ INIT_SIZE \in Nat \ {0}
                         /\ UPDATES_INIT_SIZE \in Nat \ {0}

EMPTY_SLOT_MARKER == -1      \* 0xFFFFFFFF
empty_node == [next |-> EMPTY_SLOT_MARKER, hash_code |-> EMPTY_SLOT_MARKER]

Slots(block) == 0 .. block.capacity - 1
IsBlank(block, i) == block.slots[i] \notin Value
Occupied(block) == {i \in Slots(block) : ~ IsBlank(block, i)}

Node(size) ==
  [next : (0 .. size - 1) \cup {EMPTY_SLOT_MARKER}, hash_code : Nat \cup {EMPTY_SLOT_MARKER}]

Block(size) ==
  [capacity  : {size},
   slots     : [0 .. size - 1 -> Value \cup Nat],
   nodes     : [0 .. size - 1 -> Node(size)],
   hashtable : [0 .. size - 1 -> (0 .. size - 1) \cup {EMPTY_SLOT_MARKER}]]

-----------------------------------------------------------------------------
(***************************************************************************)
(* The hash table threaded through a block.                                *)
(***************************************************************************)

\* Every slot blank and linked to its right neighbour, every bucket empty.
hashtable_clear(capacity) ==
  [capacity  |-> capacity,
   slots     |-> [i \in 0 .. capacity - 1 |-> i + 1],
   nodes     |-> [i \in 0 .. capacity - 1 |-> empty_node],
   hashtable |-> [i \in 0 .. capacity - 1 |-> EMPTY_SLOT_MARKER]]

\* Pushes slot i at the front of the bucket of hash_code.
hashtable_insert(block, hash_code, i) ==
  LET index == hash_code % block.capacity
  IN  [block EXCEPT !.hashtable[index] = i,
                    !.nodes[i] = [next |-> block.hashtable[index],
                                  hash_code |-> hash_code]]

\* What a loop of hashtable_insert over the slots in S does, hash[i] being the
\* hash code of slot i and rank[i] its turn in the loop: a slot is linked to
\* the last one that went into its bucket before it.
InsertAll(block, S, rank, hash) ==
  LET Bucket(b)  == {i \in S : hash[i] % block.capacity = b}
      Earlier(i) == {j \in Bucket(hash[i] % block.capacity) : rank[j] < rank[i]}
      Front(T, b) == IF T = {} THEN block.hashtable[b]
                     ELSE CHOOSE i \in T : \A j \in T : rank[j] <= rank[i]
  IN  [block EXCEPT
         !.hashtable = [b \in Slots(block) |-> Front(Bucket(b), b)],
         !.nodes = [i \in Slots(block) |->
                      IF i \in S
                      THEN [next |-> Front(Earlier(i), hash[i] % block.capacity),
                            hash_code |-> hash[i]]
                      ELSE block.nodes[i]]]

\* Mutant: deleting the first slot of a bucket drops the rest of the bucket.
hashtable_delete_drops_bucket(block, i) ==
  LET index == block.nodes[i].hash_code % block.capacity
      first == block.hashtable[index] = i
  IN  [block EXCEPT
         !.hashtable[index] = IF first THEN EMPTY_SLOT_MARKER ELSE @,
         !.nodes = [j \in Slots(block) |->
                      IF j = i THEN empty_node
                      ELSE IF ~ first /\ block.nodes[j].next = i
                           THEN [block.nodes[j] EXCEPT !.next = block.nodes[i].next]
                           ELSE block.nodes[j]]]

\* Unlinks slot i.  The code walks the bucket to the node before i; no other
\* node points to i.
hashtable_delete(block, i) ==
  LET del_node == block.nodes[i]
      index == del_node.hash_code % block.capacity
      first == block.hashtable[index] = i
  IN  [block EXCEPT
         !.hashtable[index] = IF first THEN del_node.next ELSE @,
         !.nodes = [j \in Slots(block) |->
                      IF j = i THEN empty_node
                      ELSE IF ~ first /\ block.nodes[j].next = i
                           THEN [block.nodes[j] EXCEPT !.next = del_node.next]
                           ELSE block.nodes[j]]]

\* Mutant: values with the same hash code are taken to be equal.
hashtable_lookup_by_hash(block, value) ==
  LET search[entry \in Slots(block) \cup {EMPTY_SLOT_MARKER}] ==
        IF entry = EMPTY_SLOT_MARKER THEN -1
        ELSE IF block.nodes[entry].hash_code = Hash[value] THEN entry
             ELSE search[block.nodes[entry].next]
  IN  search[block.hashtable[Hash[value] % block.capacity]]

\* The slot that holds value, or -1.
hashtable_lookup(block, value) ==
  LET search[entry \in Slots(block) \cup {EMPTY_SLOT_MARKER}] ==
        IF entry = EMPTY_SLOT_MARKER THEN -1
        ELSE IF /\ block.nodes[entry].hash_code = Hash[value]
                /\ block.slots[entry] = value
             THEN entry
             ELSE search[block.nodes[entry].next]
  IN  search[block.hashtable[Hash[value] % block.capacity]]

\* The slots are copied, the new ones linked to their right neighbours, and
\* the occupied ones inserted from scratch in the larger table.
hashtable_copy(src, dest_capacity) ==
  LET dest == hashtable_clear(dest_capacity)
  IN  InsertAll([dest EXCEPT
                   !.slots = [i \in Slots(dest) |->
                                IF i \in Slots(src) THEN src.slots[i] ELSE i + 1]],
                Occupied(src),
                [i \in Occupied(src) |-> i],
                [i \in Occupied(src) |-> src.nodes[i].hash_code])

-----------------------------------------------------------------------------
(***************************************************************************)
(* The store: [block, usage, first_free, ref_counts].                      *)
(***************************************************************************)

Store(size) ==
  [block      : Block(size),
   usage      : 0 .. size,
   first_free : 0 .. size,
   ref_counts : [0 .. size - 1 -> Nat]]

\* INIT_SIZE doubled until it is large enough.
calc_capacity(min_capacity) ==
  INIT_SIZE * pow2[CHOOSE k \in 0 .. min_capacity :
                     /\ INIT_SIZE * pow2[k] >= min_capacity
                     /\ \A j \in 0 .. k - 1 : INIT_SIZE * pow2[j] < min_capacity]

value_store_init ==
  [block      |-> hashtable_clear(INIT_SIZE),
   usage      |-> 0,
   first_free |-> 0,
   ref_counts |-> [i \in 0 .. INIT_SIZE - 1 |-> 0]]

lookup_value(store, value) == hashtable_lookup(store.block, value)

value_store_add_ref(store, surr) == [store EXCEPT !.ref_counts[surr] = @ + 1]

\* Mutant: first_free is set before the slot is linked to it.
value_store_release_swapped(store, surr) ==
  IF store.ref_counts[surr] = 1
  THEN [store EXCEPT !.block = hashtable_delete([@ EXCEPT !.slots[surr] = surr], surr),
                     !.first_free = surr,
                     !.usage = @ - 1]
  ELSE [store EXCEPT !.ref_counts[surr] = @ - 1]

\* The count of a slot that is freed is left as it is, at 1.
value_store_release(store, surr) ==
  IF store.ref_counts[surr] = 1
  THEN [store EXCEPT
          !.block = hashtable_delete([@ EXCEPT !.slots[surr] = store.first_free], surr),
          !.first_free = surr,
          !.usage = @ - 1]
  ELSE [store EXCEPT !.ref_counts[surr] = @ - 1]

-----------------------------------------------------------------------------
(***************************************************************************)
(* Staged updates: [block, count, first_free, surrs].  The value staged    *)
(* i-th, counting from 0, is in slot i of the block and will be stored in  *)
(* the store's slot surrs[i + 1].                                          *)
(***************************************************************************)

Updates(size) ==
  [block : Block(size), count : 0 .. size, first_free : Nat, surrs : Seq(Nat)]

value_store_updates_init ==
  [block |-> hashtable_clear(0), count |-> 0, first_free |-> 0, surrs |-> << >>]

\* Mutant: values staged before in the same update are not taken into account.
NextSurr_first_free(store, updates) == store.first_free

\* The surrogate the next staged value will get.
NextSurr(store, updates) ==
  IF updates.count = 0 THEN store.first_free ELSE updates.first_free

\* Mutant: the free surrogates are taken to be contiguous.
NextFree_contiguous(store, surr) == surr + 1

\* The free surrogate that comes after a free one: the chain through the blank
\* slots, then the slots the store does not have yet.
NextFree(store, surr) ==
  IF surr < store.block.capacity THEN store.block.slots[surr] ELSE surr + 1

value_store_insert(store, updates, value) ==
  LET count == updates.count
      capacity == updates.block.capacity
      surr == NextSurr(store, updates)
      block == IF count < capacity THEN updates.block
               ELSE IF capacity = 0 THEN hashtable_clear(UPDATES_INIT_SIZE)
                    ELSE hashtable_copy(updates.block, 2 * capacity)
  IN  [block      |-> hashtable_insert([block EXCEPT !.slots[count] = value],
                                       Hash[value], count),
       count      |-> count + 1,
       first_free |-> NextFree(store, surr),
       surrs      |-> Append(updates.surrs, surr)]

lookup_value_ex(store, updates, value) ==
  LET surr == lookup_value(store, value)
      index == hashtable_lookup(updates.block, value)
  IN  IF surr # -1 THEN surr
      ELSE IF updates.block.capacity > 0 /\ index >= 0
           THEN updates.surrs[index + 1]
           ELSE -1

\* Mutant: the reference counts stay in an array of the old size.
Grow_without_counts(store, new_usage) ==
  IF store.block.capacity >= new_usage THEN store
  ELSE [store EXCEPT !.block = hashtable_copy(@, calc_capacity(new_usage))]

\* Mutant: all reference counts are cleared, not only the new ones.
Grow_clearing_counts(store, new_usage) ==
  LET new_capacity == calc_capacity(new_usage)
  IN  IF store.block.capacity >= new_usage THEN store
      ELSE [store EXCEPT !.block = hashtable_copy(@, new_capacity),
                         !.ref_counts = [i \in 0 .. new_capacity - 1 |-> 0]]

\* Makes room for new_usage values.
Grow(store, new_usage) ==
  LET new_capacity == calc_capacity(new_usage)
  IN  IF store.block.capacity >= new_usage THEN store
      ELSE [store EXCEPT
              !.block = hashtable_copy(@, new_capacity),
              !.ref_counts = [i \in 0 .. new_capacity - 1 |->
                                IF i \in Slots(store.block) THEN @[i] ELSE 0]]

\* The reference counts of the slots that are filled are left as they are.
value_store_apply(store, updates) ==
  LET new_usage == store.usage + updates.count
      grown == Grow(store, new_usage)
      staged == {updates.surrs[i] : i \in 1 .. updates.count}
      index == [s \in staged |-> (CHOOSE i \in 1 .. updates.count :
                                    updates.surrs[i] = s) - 1]
      filled == [grown.block EXCEPT
                   !.slots = [s \in Slots(grown.block) |->
                                IF s \in staged THEN updates.block.slots[index[s]]
                                ELSE @[s]]]
      hash == [s \in staged |-> updates.block.nodes[index[s]].hash_code]
  IN  IF updates.block.capacity = 0 THEN store
      ELSE [grown EXCEPT !.block = InsertAll(filled, staged, index, hash),
                         !.usage = new_usage,
                         !.first_free = updates.first_free]

\* What a surrogate stands for: the value in the slot, or the one staged for it.
Denotes(store, updates, surr) ==
  IF surr \in Occupied(store.block) THEN store.block.slots[surr]
  ELSE updates.block.slots[(CHOOSE i \in 1 .. updates.count :
                              updates.surrs[i] = surr) - 1]
=============================================================================
