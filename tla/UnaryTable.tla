----------------------------- MODULE UnaryTable -----------------------------
(***************************************************************************)
(* unary-table.cpp.  The table is a bitmap indexed by surrogate; deletes   *)
(* and inserts are staged in one buffer, deletes growing from its front    *)
(* and inserts from its back.                                              *)
(*                                                                         *)
(*   table    [bitmap (the set of the bits that are 1), size, count]       *)
(*   updates  [capacity, deletes_count, inserts_count, buffer]             *)
(***************************************************************************)
EXTENDS TableUtils

CONSTANTS
  BITMAP_SIZE,         \* bits of a new table                    (1024 in the code)
  UNARY_BUFFER_SIZE    \* first capacity of a buffer of updates    (32 in the code)

ASSUME UnaryAssumption == /\ BITMAP_SIZE \in Nat \ {0}
                          /\ UNARY_BUFFER_SIZE \in Nat \ {0}

unary_table_init == [bitmap |-> {}, size |-> BITMAP_SIZE, count |-> 0]

unary_table_updates_init ==
  [capacity |-> 0, deletes_count |-> 0, inserts_count |-> 0, buffer |-> << >>]

\* For value < table.size, which the code asserts.
unary_table_contains(table, value) == value \in table.bitmap

UnaryRows(table) == {<<value>> : value \in table.bitmap}

\* The surrogates an iterator goes through.
unary_table_get_iter(table) ==
  LET rows == InOrder(UnaryRows(table))
  IN  [i \in DOMAIN rows |-> rows[i][1]]

\* The relation of values that a table holds.
copy_unary_table(table, store) == {<<store.block.slots[value]>> : value \in table.bitmap}

-----------------------------------------------------------------------------
(***************************************************************************)
(* Staging.                                                                *)
(***************************************************************************)

UnaryDeletes(updates) == SubSeq(updates.buffer, 1, updates.deletes_count)
UnaryInserts(updates) ==
  SubSeq(updates.buffer, updates.capacity - updates.inserts_count + 1, updates.capacity)

\* Mutant: only the inserts are moved to the larger buffer.
resize_without_deletes(updates) ==
  LET new_capacity == IF updates.capacity > 0 THEN 2 * updates.capacity ELSE UNARY_BUFFER_SIZE
  IN  [updates EXCEPT
         !.capacity = new_capacity,
         !.buffer = [i \in 1 .. new_capacity - updates.inserts_count |-> -1]
                      \o UnaryInserts(updates)]

\* Twice the room, the deletes still at the front and the inserts at the back.
\* What is between them is not initialised.
unary_table_updates_resize(updates) ==
  LET capacity == updates.capacity
      new_capacity == IF capacity > 0 THEN 2 * capacity ELSE UNARY_BUFFER_SIZE
      unused == new_capacity - updates.deletes_count - updates.inserts_count
  IN  [updates EXCEPT
         !.capacity = new_capacity,
         !.buffer = UnaryDeletes(updates) \o [i \in 1 .. unused |-> -1] \o UnaryInserts(updates)]

WithRoom(updates) ==
  IF updates.deletes_count + updates.inserts_count >= updates.capacity
  THEN unary_table_updates_resize(updates) ELSE updates

unary_table_insert(updates, value) ==
  LET roomy == WithRoom(updates)
  IN  [roomy EXCEPT !.buffer[roomy.capacity - roomy.inserts_count] = value,
                    !.inserts_count = @ + 1]

\* Whether the table contains value is not looked at.
unary_table_delete(updates, value) ==
  LET roomy == WithRoom(updates)
  IN  [roomy EXCEPT !.buffer[roomy.deletes_count + 1] = value,
                    !.deletes_count = @ + 1]

\* Deletes what the iterator goes through.
unary_table_clear(table, updates) ==
  LET iter == unary_table_get_iter(table)
      cleared[k \in 0 .. Len(iter)] ==
        IF k = 0 THEN updates ELSE unary_table_delete(cleared[k - 1], iter[k])
  IN  cleared[Len(iter)]

-----------------------------------------------------------------------------
(***************************************************************************)
(* Applying.                                                               *)
(***************************************************************************)

\* The bitmaps that the inserts can leave.  When one is beyond the size, the
\* local variable of unary-table.cpp:144 hides the pointer it should be set
\* from: the reallocated block is the one of an uninitialised pointer, and the
\* bits are set through the old one.  The table is then left with the bits set
\* in the old block, if the two happen to be the same, or with whatever the
\* new block contains and no bit above the old size.
GrownBitmaps(table, bitmap, inserted) ==
  IF \A value \in inserted : value < table.size THEN {bitmap \cup inserted}
  ELSE {bitmap \cup inserted} \cup SUBSET (0 .. table.size - 1)

NewSize(table, inserted) ==
  IF \A value \in inserted : value < table.size THEN table.size
  ELSE table.size * pow2[CHOOSE k \in 1 .. Max(inserted) + 1 :
                           /\ Max(inserted) < table.size * pow2[k]
                           /\ \A j \in 1 .. k - 1 : Max(inserted) >= table.size * pow2[j]]

\* The outcomes of applying staged updates: [table, updates, store].  The bits
\* of the deletes are read even beyond the size, where they can be anything.
unary_table_updates_apply(table, updates, store) ==
  LET deletes == UnaryDeletes(updates)
      inserted == Range(UnaryInserts(updates))
      outcome(read) ==
        LET kept == read \ Range(deletes)
            marked == [i \in DOMAIN updates.buffer |->
                         IF i \in DOMAIN deletes
                            /\ \/ deletes[i] \notin read
                               \/ \E j \in 1 .. i - 1 : deletes[j] = deletes[i]
                         THEN -1 ELSE updates.buffer[i]]
            added == {<<value>> : value \in inserted \ kept}
        IN  {[table   |-> [bitmap |-> bitmap, size |-> NewSize(table, inserted),
                           count  |-> table.count - Cardinality(read \ kept)
                                        + Cardinality(added)],
              updates |-> [updates EXCEPT !.buffer = marked],
              store   |-> AddRefs(store, added)] : bitmap \in GrownBitmaps(table, kept, inserted)}
  IN  UNION {outcome(table.bitmap \cup garbage) :
               garbage \in SUBSET {value \in Range(deletes) : value >= table.size}}

unary_table_updates_finish(updates, store) ==
  LET deletes == UnaryDeletes(updates)
  IN  ReleaseRows(store, [i \in DOMAIN deletes |->
                            IF deletes[i] = -1 THEN ERASED ELSE <<deletes[i]>>])
=============================================================================
